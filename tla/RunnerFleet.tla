------------------------------ MODULE RunnerFleet ------------------------------
(***************************************************************************)
(* The fleets (campaigns) of the hosted runner: src/oto_mcp/db/            *)
(* runner_fleets.py, runner_fleets_preneur.py, and the production of their *)
(* jobs by the polls of the workers (_produire_pour_une_campagne in        *)
(* src/oto_mcp/capabilities/runner_jobs.py).                               *)
(*                                                                         *)
(* A fleet is a rule that produces jobs: each poll that found no job makes *)
(* the fleets advance, in a chain of separate transactions that other      *)
(* polls, members (launch, stop, enqueue) and orchestrators (take,         *)
(* ack_stop) interleave with.  READ COMMITTED matters here, so a statement *)
(* that reads and writes two tables is two steps: its snapshot, then its   *)
(* write, which looks again at the fleet rows that changed but not at the  *)
(* jobs.                                                                   *)
(*                                                                         *)
(* The queue is reduced to what a fleet sees of it (RunnerQueue has the    *)
(* rest): a job waits, is claimed, comes back or ends.  The bounds of a    *)
(* fleet do not change, every fleet has rows left to reserve, and a fleet  *)
(* tried in vain does not keep its lock.                                   *)
(***************************************************************************)
EXTENDS Naturals, FiniteSets

CONSTANTS Fleet, Worker, Ordonnanceur,
          Appelant,                 \* requests that enqueue on a fleet
          workers, max_rows,        \* runner_fleets: declared bounds
          max_consecutive_failures, \* 0 when it is not declared
          MaxJobs, MaxEnfiles, MaxArmements, MaxChutes, \* bounds of the model
          NoFleet, NoJob, NoOne

Job == 1 .. MaxJobs   \* by id: what the sequence gives

ASSUME FleetAssumption ==
  /\ workers \in [Fleet -> Nat \ {0}] /\ max_rows \in [Fleet -> Nat \ {0}]
  /\ max_consecutive_failures \in [Fleet -> Nat]
  /\ {MaxJobs, MaxEnfiles, MaxArmements, MaxChutes} \subseteq Nat
  /\ NoFleet \notin Fleet /\ NoJob \notin Job
  /\ NoOne \notin Ordonnanceur
  /\ IsFiniteSet(Worker)

VARIABLES
  status, taken_by, \* runner_fleets
  travail, flotte,  \* runner_jobs: status and fleet_id
  voie,             \* of a job: "produit" by a poll or "enfile" by a request
  etape,            \* how far the poll of a worker has gone
  lu, instantane,   \* has the statement it runs read? what?
  vise, insere,     \* the fleet it produces for, its job not yet committed
  garde,            \* the fleet a request holds FOR SHARE
  decides,          \* the fleets whose launch has passed its checks
  preneurs,         \* history: who took the fleet since its last arming
  armements, chutes \* how often a fleet was armed, how many polls were cut

campagnes == <<status, taken_by, preneurs, armements>>
travaux == <<travail, flotte, voie>>
sondages == <<etape, lu, instantane, vise, insere, chutes>>
vars == <<campagnes, travaux, sondages, garde, decides>>

Init ==
  /\ status = [f \in Fleet |-> "draft"]
  /\ taken_by = [f \in Fleet |-> NoOne]
  /\ travail = [j \in Job |-> "absent"]
  /\ flotte = [j \in Job |-> NoFleet]
  /\ voie = [j \in Job |-> "produit"]
  /\ etape = [w \in Worker |-> "libre"]
  /\ lu = [w \in Worker |-> FALSE]
  /\ instantane = [w \in Worker |-> {}]
  /\ vise = [w \in Worker |-> NoFleet]
  /\ insere = [w \in Worker |-> NoJob]
  /\ garde = [a \in Appelant |-> NoFleet]
  /\ decides = {}
  /\ preneurs = [f \in Fleet |-> {}]
  /\ armements = [f \in Fleet |-> 0]
  /\ chutes = 0

-----------------------------------------------------------------------------
(* What a statement reads: the committed jobs of a fleet. *)

Servent == {"armed", "running"}   \* STATUTS_QUI_SERVENT

Produits(f) == {j \in Job : flotte[j] = f
                              /\ travail[j] \in {"pending", "claimed", "done", "failed"}}
EnVol(f) == {j \in Produits(f) : travail[j] \in {"pending", "claimed"}}
Finis(f) == {j \in Produits(f) : travail[j] \in {"done", "failed"}}

\* A poll produces for f only below its bounds and when no job of f waits.
_ELIGIBLE(f) == /\ status[f] \in Servent
                /\ \A j \in EnVol(f) : travail[j] # "pending"
                /\ Cardinality(Produits(f)) < max_rows[f]
                /\ Cardinality(EnVol(f)) < workers[f]

\* The last jobs to have ended, by id, as many as the failures allowed.
Derniers(f) == {j \in Finis(f) :
                  Cardinality({k \in Finis(f) : k > j}) < max_consecutive_failures[f]}
EpuiseeAuDela(f) ==
  /\ max_consecutive_failures[f] > 0
  /\ Cardinality({j \in Derniers(f) : travail[j] = "failed"}) > max_consecutive_failures[f]
Epuisee(f) ==
  /\ max_consecutive_failures[f] > 0
  /\ Cardinality({j \in Derniers(f) : travail[j] = "failed"}) >= max_consecutive_failures[f]

SansVolNiEchec(f) == \A j \in Produits(f) : travail[j] = "done"

\* What has nothing left in flight, and has produced all it may.
SansVol(f) == EnVol(f) = {}
AuBout(f) == Cardinality(Produits(f)) >= max_rows[f] /\ SansVol(f)

VerrouAuChoix(f) == \E w \in Worker : etape[w] = "choisi" /\ vise[w] = f
VerrouDeSession(f) ==
  \E w \in Worker : etape[w] \in {"choisi", "enfiler", "verrou", "insere"} /\ vise[w] = f

\* The advisory lock of a fleet: the transaction that chooses it, then the one
\* that inserts its job.
Verrouillee(f) == \E w \in Worker : etape[w] \in {"choisi", "verrou", "insere"} /\ vise[w] = f

\* A request that enqueues keeps the row of the fleet from being written.
Gardee(f) == \E a \in Appelant : garde[a] = f

\* The ids the sequence has not given; an aborted INSERT loses its own.
Libres == {j \in Job : \A k \in Job : k >= j => travail[k] = "absent"}
Prochain(j) == j \in Libres /\ \A k \in Libres : j <= k

-----------------------------------------------------------------------------
(* The poll of a worker that found no job. *)

Vers(w, e) == /\ etape' = [etape EXCEPT ![w] = e]
              /\ lu' = [lu EXCEPT ![w] = FALSE]
              /\ instantane' = [instantane EXCEPT ![w] = {}]
Rentre(w) == /\ Vers(w, "libre")
             /\ vise' = [vise EXCEPT ![w] = NoFleet]
             /\ insere' = [insere EXCEPT ![w] = NoJob]

une_campagne_vit(w) ==
  /\ etape[w] = "libre"
  /\ \E f \in Fleet : status[f] \in Servent \cup {"stopping"}
  /\ Vers(w, "epuisees")
  /\ UNCHANGED <<campagnes, travaux, vise, insere, chutes, garde, decides>>

\* An UPDATE of fleets on a condition over their jobs: its snapshot, then its
\* write, that waits for the rows held and looks at their status again.
Lit(w, cible) == /\ ~lu[w]
                 /\ lu' = [lu EXCEPT ![w] = TRUE]
                 /\ instantane' = [instantane EXCEPT ![w] = cible]
                 /\ UNCHANGED <<campagnes, travaux, etape, vise, insere, chutes, garde, decides>>
EcritSansRelire(w, depart, arrivee, suite) ==
  /\ lu[w]
  /\ \A f \in instantane[w] : ~Gardee(f)
  /\ status' = [f \in Fleet |-> IF f \in instantane[w] THEN arrivee ELSE status[f]]
  /\ Vers(w, suite)
  /\ UNCHANGED <<taken_by, preneurs, armements, travaux, vise, insere, chutes, garde, decides>>
Ecrit(w, depart, arrivee, suite) ==
  /\ lu[w]
  /\ \A f \in instantane[w] : ~Gardee(f)
  /\ status' = [f \in Fleet |-> IF f \in instantane[w] /\ status[f] \in depart
                                  THEN arrivee ELSE status[f]]
  /\ Vers(w, suite)
  /\ UNCHANGED <<taken_by, preneurs, armements, travaux, vise, insere, chutes, garde, decides>>

arreter_campagnes_epuisees(w) ==
  /\ etape[w] = "epuisees"
  /\ \/ Lit(w, {f \in Fleet : status[f] \in Servent /\ Epuisee(f)})
     \/ Ecrit(w, Servent, "stopped", "arrets")

accuser_arrets_effectifs(w) ==
  /\ etape[w] = "arrets"
  /\ \/ Lit(w, {f \in Fleet : status[f] = "stopping" /\ SansVol(f)})
     \/ Ecrit(w, {"stopping"}, "stopped", "fins")

clore_campagnes_terminees(w) ==
  /\ etape[w] = "fins"
  /\ \/ Lit(w, {f \in Fleet : status[f] = "running" /\ AuBout(f)})
     \/ Ecrit(w, {"running"}, "done", "choix")

\* The candidates are read without a lock; the one that is tried is read again
\* under its lock, which the transaction gives back.
Candidates(w) == {f \in instantane[w] : ~Verrouillee(f) /\ _ELIGIBLE(f)}
campagne_a_servir(w) ==
  \/ etape[w] = "choix" /\ Lit(w, {f \in Fleet : _ELIGIBLE(f)})
  \/ /\ etape[w] = "choix" /\ lu[w]
     /\ \/ \E f \in Candidates(w) : /\ vise' = [vise EXCEPT ![w] = f]
                                    /\ Vers(w, "choisi") /\ UNCHANGED insere
        \/ Candidates(w) = {} /\ Rentre(w)
     /\ UNCHANGED <<campagnes, travaux, chutes, garde, decides>>
  \/ /\ etape[w] = "choisi"
     /\ Vers(w, "enfiler")
     /\ UNCHANGED <<campagnes, travaux, vise, insere, chutes, garde, decides>>

\* enqueue_job(seulement_si_servable=True): the lock, or nothing; then the INSERT
\* ... SELECT with a snapshot of its own; then the commit.
Verrouille(w) ==
  /\ etape[w] = "enfiler"
  /\ IF Verrouillee(vise[w]) THEN Rentre(w)
                             ELSE Vers(w, "verrou") /\ UNCHANGED <<vise, insere>>
  /\ UNCHANGED <<campagnes, travaux, chutes, garde, decides>>
Insere(w) ==
  /\ etape[w] = "verrou"
  /\ \/ /\ _ELIGIBLE(vise[w])
        /\ \E j \in Job : /\ Prochain(j)
                          /\ travail' = [travail EXCEPT ![j] = "insere"]
                          /\ flotte' = [flotte EXCEPT ![j] = vise[w]]
                          /\ insere' = [insere EXCEPT ![w] = j]
        /\ Vers(w, "insere") /\ UNCHANGED <<voie, vise>>
     \/ ~_ELIGIBLE(vise[w]) /\ Rentre(w) /\ UNCHANGED travaux
  /\ UNCHANGED <<campagnes, chutes, garde, decides>>
Valide(w) ==
  /\ etape[w] = "insere"
  /\ travail' = [travail EXCEPT ![insere[w]] = "pending"]
  /\ Vers(w, "marquer")
  /\ UNCHANGED <<campagnes, flotte, voie, vise, insere, chutes, garde, decides>>
_poser_si_servable(w) == Verrouille(w) \/ Insere(w) \/ Valide(w)

MarquerToujours(w) ==
  /\ etape[w] = "marquer" /\ ~Gardee(vise[w])
  /\ status' = [status EXCEPT ![vise[w]] = "running"]
  /\ Rentre(w)
  /\ UNCHANGED <<taken_by, preneurs, armements, travaux, chutes, garde, decides>>
marquer_demarree(w) ==
  /\ etape[w] = "marquer"
  /\ IF status[vise[w]] = "armed"
       THEN ~Gardee(vise[w]) /\ status' = [status EXCEPT ![vise[w]] = "running"]
       ELSE UNCHANGED status
  /\ Rentre(w)
  /\ UNCHANGED <<taken_by, preneurs, armements, travaux, chutes, garde, decides>>

_produire_pour_une_campagne(w) ==
  \/ une_campagne_vit(w) \/ arreter_campagnes_epuisees(w) \/ accuser_arrets_effectifs(w)
  \/ clore_campagnes_terminees(w) \/ campagne_a_servir(w) \/ _poser_si_servable(w)
  \/ marquer_demarree(w)

\* A poll cut in the middle: an exception, which it swallows, or a restart of the
\* server.  The transaction in progress is rolled back, what is committed stays.
Tombe(w) ==
  /\ etape[w] # "libre" /\ chutes < MaxChutes
  /\ travail' = [j \in Job |-> IF j = insere[w] /\ etape[w] = "insere"
                                 THEN "annule" ELSE travail[j]]
  /\ Rentre(w) /\ chutes' = chutes + 1
  /\ UNCHANGED <<campagnes, flotte, voie, garde, decides>>

-----------------------------------------------------------------------------
(* A request that enqueues a job on a fleet (op=enqueue fleet_id=). *)

verrouiller_la_flotte(a) ==
  /\ garde[a] = NoFleet
  /\ Cardinality({j \in Job : voie[j] = "enfile"}) < MaxEnfiles
  /\ \E f \in Fleet : status[f] \in Servent /\ garde' = [garde EXCEPT ![a] = f]
  /\ UNCHANGED <<campagnes, travaux, sondages, decides>>

\* The INSERT and the commit, which gives the row back; or the request is cut.
enqueue_job(a) ==
  /\ garde[a] # NoFleet
  /\ \E j \in Job : /\ Prochain(j)
                    /\ travail' = [travail EXCEPT ![j] = "pending"]
                    /\ flotte' = [flotte EXCEPT ![j] = garde[a]]
                    /\ voie' = [voie EXCEPT ![j] = "enfile"]
  /\ garde' = [garde EXCEPT ![a] = NoFleet]
  /\ UNCHANGED <<campagnes, sondages, decides>>
Renonce(a) == /\ garde[a] # NoFleet
              /\ garde' = [garde EXCEPT ![a] = NoFleet]
              /\ UNCHANGED <<campagnes, travaux, sondages, decides>>

-----------------------------------------------------------------------------
(* Members: launch and stop. *)

\* The checks of launch read the database before it arms.
launch(f) ==
  /\ f \notin decides /\ armements[f] < MaxArmements
  /\ Cardinality(Produits(f)) < max_rows[f]
  /\ decides' = decides \cup {f}
  /\ UNCHANGED <<campagnes, travaux, sondages, garde>>

Armables == {"draft", "stopped", "done"}
ArmerSansLiberer(f) ==
  /\ f \in decides /\ ~Gardee(f)
  /\ decides' = decides \ {f}
  /\ IF status[f] \in Armables
       THEN /\ status' = [status EXCEPT ![f] = "armed"]
            /\ preneurs' = [preneurs EXCEPT ![f] = {}]
            /\ armements' = [armements EXCEPT ![f] = @ + 1]
            /\ UNCHANGED taken_by
       ELSE UNCHANGED campagnes
  /\ UNCHANGED <<travaux, sondages, garde>>
armer(f) ==
  /\ f \in decides /\ ~Gardee(f)
  /\ decides' = decides \ {f}
  /\ IF status[f] \in Armables
       THEN /\ status' = [status EXCEPT ![f] = "armed"]
            /\ taken_by' = [taken_by EXCEPT ![f] = NoOne]
            /\ preneurs' = [preneurs EXCEPT ![f] = {}]
            /\ armements' = [armements EXCEPT ![f] = @ + 1]
       ELSE UNCHANGED campagnes
  /\ UNCHANGED <<travaux, sondages, garde>>

demander_arret(f) ==
  /\ status[f] \in Servent /\ ~Gardee(f)
  /\ status' = [status EXCEPT ![f] = "stopping"]
  /\ UNCHANGED <<taken_by, preneurs, armements, travaux, sondages, garde, decides>>

(* Orchestrators: take and ack_stop. *)

prendre(o, f) ==
  /\ \/ status[f] = "armed"
     \/ status[f] = "running" /\ taken_by[f] \in {NoOne, o}
  /\ ~Gardee(f)
  /\ status' = [status EXCEPT ![f] = "running"]
  /\ taken_by' = [taken_by EXCEPT ![f] = o]
  /\ preneurs' = [preneurs EXCEPT ![f] = @ \cup {o}]
  /\ UNCHANGED <<armements, travaux, sondages, garde, decides>>

accuser_arret(o, f) ==
  /\ status[f] \in {"stopping", "running"} /\ taken_by[f] = o
  /\ ~Gardee(f)
  /\ status' = [status EXCEPT ![f] = "stopped"]
  /\ UNCHANGED <<taken_by, preneurs, armements, travaux, sondages, garde, decides>>

(* The queue, seen from a fleet. *)

claim_next_job(j) ==
  /\ travail[j] = "pending"
  /\ travail' = [travail EXCEPT ![j] = "claimed"]
  /\ UNCHANGED <<campagnes, flotte, voie, sondages, garde, decides>>
Finit(j) ==
  /\ travail[j] = "claimed"
  /\ \E s \in {"done", "failed"} : travail' = [travail EXCEPT ![j] = s]
  /\ UNCHANGED <<campagnes, flotte, voie, sondages, garde, decides>>
Revient(j) ==
  /\ travail[j] = "claimed"
  /\ travail' = [travail EXCEPT ![j] = "pending"]
  /\ UNCHANGED <<campagnes, flotte, voie, sondages, garde, decides>>

-----------------------------------------------------------------------------
Next ==
  \/ \E w \in Worker : _produire_pour_une_campagne(w) \/ Tombe(w)
  \/ \E a \in Appelant : verrouiller_la_flotte(a) \/ enqueue_job(a) \/ Renonce(a)
  \/ \E f \in Fleet : launch(f) \/ armer(f) \/ demander_arret(f)
  \/ \E f \in Fleet, o \in Ordonnanceur : prendre(o, f) \/ accuser_arret(o, f)
  \/ \E j \in Job : claim_next_job(j) \/ Finit(j) \/ Revient(j)

Spec == Init /\ [][Next]_vars

\* Workers poll for ever and their requests run to the end; a request that
\* enqueues ends; RunnerQueue shows that a job is taken and that it ends.  The
\* try-locks are won sooner or later: they are held for a few milliseconds of
\* polls that come every fifteen seconds.
Fairness ==
  /\ \A w \in Worker : /\ WF_vars(_produire_pour_une_campagne(w))
                       /\ SF_vars(campagne_a_servir(w) /\ vise'[w] # NoFleet)
                       /\ SF_vars(Verrouille(w) /\ etape'[w] = "verrou")
  /\ \A a \in Appelant : WF_vars(enqueue_job(a) \/ Renonce(a))
  /\ \A j \in Job : WF_vars(claim_next_job(j)) /\ SF_vars(Finit(j))
FairSpec == Spec /\ Fairness

-----------------------------------------------------------------------------
(* Properties. *)

Etapes == {"libre", "epuisees", "arrets", "fins", "choix", "choisi", "enfiler",
           "verrou", "insere", "marquer"}

\* Every column keeps its declared domain, a request past its choice has a fleet,
\* and one with an INSERT not yet committed has its job.
TypeOK ==
  /\ status \in [Fleet -> {"draft", "armed", "running", "stopping", "stopped", "done"}]
  /\ taken_by \in [Fleet -> Ordonnanceur \cup {NoOne}]
  /\ travail \in [Job -> {"absent", "insere", "annule", "pending", "claimed", "done", "failed"}]
  /\ flotte \in [Job -> Fleet \cup {NoFleet}]
  /\ voie \in [Job -> {"produit", "enfile"}]
  /\ etape \in [Worker -> Etapes]
  /\ lu \in [Worker -> BOOLEAN] /\ instantane \in [Worker -> SUBSET Fleet]
  /\ vise \in [Worker -> Fleet \cup {NoFleet}]
  /\ insere \in [Worker -> Job \cup {NoJob}]
  /\ garde \in [Appelant -> Fleet \cup {NoFleet}]
  /\ decides \subseteq Fleet
  /\ preneurs \in [Fleet -> SUBSET Ordonnanceur]
  /\ armements \in [Fleet -> Nat] /\ chutes \in Nat
  /\ \A w \in Worker :
       /\ etape[w] \in {"choisi", "enfiler", "verrou", "insere", "marquer"} => vise[w] \in Fleet
       /\ etape[w] = "insere" => insere[w] \in Job

\* The jobs of a fleet, by its polls and by requests.
DesSondages(f) == {j \in Produits(f) : voie[j] = "produit"}
DesRequetes(f) == {j \in Produits(f) : voie[j] = "enfile"}

\* What polls produce for a fleet never exceeds max_rows, however many of them
\* read "there is room" at once (campagne_a_servir, _poser_si_servable).
LignesProduites == \A f \in Fleet : Cardinality(DesSondages(f)) <= max_rows[f]

\* Nor do the produced jobs in flight exceed `workers` (docs/runner-et-
\* automatisations.md: "deux sondages concurrents ne depassent pas le plafond").
PlafondTenu ==
  \A f \in Fleet : Cardinality({j \in EnVol(f) : voie[j] = "produit"}) <= workers[f]

\* The two bounds of a fleet, against any number of polls.
BornesTenues == LignesProduites /\ PlafondTenu

\* A request never leaves a job on a fleet whose stop was asked meanwhile: the
\* job is committed while `stop` can still reach it (verrouiller_la_flotte).
EnfileServi ==
  [][\A j \in Job : travail[j] = "absent" /\ travail'[j] = "pending"
                      => status[flotte'[j]] \in Servent]_vars

\* Whoever holds a fleet took it since its last arming, and nobody else did: two
\* orchestrators never conduct one passage, and the holder of an earlier passage
\* cannot acknowledge the stop of this one (prendre, armer, accuser_arret).
PreneurDuPassage ==
  \A f \in Fleet : preneurs[f] = {taken_by[f]} \ {NoOne}

\* A stop is undone by a new launch only, whatever polls were in the middle of
\* their chain when it was asked (marquer_demarree, prendre).
ArretNeSAnnulePas ==
  [][\A f \in Fleet : /\ status[f] \in {"stopping", "stopped", "done"}
                      /\ status'[f] \in Servent
                      => f \in decides /\ f \notin decides']_vars

\* The chain of a poll, its locks and its snapshots come to what a fleet promises:
\* each job is produced as if it were counted and written at once, and a status
\* written after it was decided is still one that may be written.
Echecs(f) == {j \in Finis(f) : travail[j] = "failed"}
Cycle == INSTANCE FleetLifecycle WITH
           produits <- [f \in Fleet |-> DesSondages(f)],
           ajoutes <- [f \in Fleet |-> DesRequetes(f)],
           finis <- [f \in Fleet |-> Finis(f)],
           echecs <- [f \in Fleet |-> Echecs(f)]
CycleDeCampagne == Cycle!Spec

\* A stop that was asked becomes effective, if polls go on and jobs end
\* (accuser_arrets_effectifs: nobody else acknowledges it).
ArretAboutit == \A f \in Fleet : status[f] = "stopping" ~> status[f] # "stopping"

\* A fleet that can be served is served, or stops: no poll, cut short or beaten
\* to the lock, leaves it mute.
APourvoir(f) == _ELIGIBLE(f)
CampagneAvance == \A f \in Fleet : APourvoir(f) ~> ~APourvoir(f)

\* A fleet that only fails does not go on for ever: past the failures allowed, it
\* gets the jobs in flight and, each time it is armed, one per poll that looked
\* too early (arreter_campagnes_epuisees, the guard the polls took over from the
\* orchestrator).
Serie(f) == {j \in Finis(f) : \A k \in Finis(f) : k >= j => travail[k] = "failed"}
EchecsBornes ==
  \A f \in Fleet : max_consecutive_failures[f] > 0 =>
    Cardinality({j \in Serie(f) : voie[j] = "produit"})
      < max_consecutive_failures[f] + workers[f] + armements[f] * Cardinality(Worker)
================================================================================
