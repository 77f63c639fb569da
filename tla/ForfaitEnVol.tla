----------------------------- MODULE ForfaitEnVol -----------------------------
(***************************************************************************)
(* The jobs a model SUBSCRIPTION pays for, in the execution queue: one at  *)
(* a time per subscription, personal or lent to the pool of an             *)
(* organisation, and the fallback of a capped subscription to the API key  *)
(* of the organisation (src/oto_mcp/db/runner_jobs.py:                     *)
(* _fragments_abonnement, claim_next_job, _deja_en_vol, claim_fallback_job;*)
(* the handover of src/oto_mcp/capabilities/runner_jobs.py).               *)
(*                                                                         *)
(* RunnerQueue takes a job in one step.  Here the transaction of a take is *)
(* followed statement by statement, because what it protects is not in the *)
(* row it locks: it reads a snapshot, locks its row, then the advisory     *)
(* lock of the subscription, reads again, and commits or rolls back.  What *)
(* it has written is seen by others at the commit only.                    *)
(*                                                                         *)
(* One family of subscription and one API family.  What RunnerQueue says   *)
(* of due_at, freshness, freezing and fair share is not repeated here; of  *)
(* the lenders that are free, the least recently served is replaced by     *)
(* any.  A pause whose deadline is passed reads as "connected", as every   *)
(* statement of the code does.  Settings (modes, loans, organisations      *)
(* served) do not change; people connect and disconnect at any time.       *)
(***************************************************************************)
EXTENDS Naturals, FiniteSets

CONSTANTS Job, MaxAttempts,
          Personne, Org,
          demandeur, orgDe,   \* of a job: runner_jobs.sub, org_id
          flottes,            \* the jobs of a fleet
          mode,               \* per org: "pool", "personnel", or "aucun"
          prets,              \* <<person, org>>: the living loans
          ouverts,            \* <<person, org>>: serves there, still a member
          replis,             \* the orgs whose fallback is on and key deposited
          Worker,
          Abonnes,            \* the workers of the subscription depot
          Sondeurs,           \* those that probe an old pause
          ProlongeTardif,     \* may a heartbeat come after the end of its lease?
          NoJob, NoWorker, NoForfait

\* The paths of a take: the subscription of the requester, a loan of the pool,
\* or the fallback that replaces one or the other.
Forfait == {"personnel", "pool"} \X Personne
Repli == ({"repli:sub"} \X Personne) \cup ({"repli:org"} \X Org)

ASSUME ForfaitAssumption ==
  /\ MaxAttempts \in [Job -> Nat \ {0}]
  /\ demandeur \in [Job -> Personne] /\ orgDe \in [Job -> Org]
  /\ flottes \subseteq Job /\ replis \subseteq Org
  /\ mode \in [Org -> {"pool", "personnel", "aucun"}]
  /\ prets \subseteq Personne \X Org /\ ouverts \subseteq Personne \X Org
  /\ Abonnes \subseteq Worker /\ Sondeurs \subseteq Abonnes
  /\ ProlongeTardif \in BOOLEAN
  /\ NoJob \notin Job /\ NoWorker \notin Worker /\ NoForfait \notin Forfait \cup Repli

VARIABLES
  status, attempts, claimed_by, \* runner_jobs, committed
  bail_vivant,  \* lease_until is set and not passed
  famille,      \* payload.model_family: "abo", or "api" once folded
  payeur,       \* _plateforme.pool and .abonnement: <<path, person>>
  repli,        \* _plateforme.repli.forfait
  statut,       \* user_model_subscriptions.statut
  anciennes,    \* the people whose pause is older than VERIFICATION_S
  etape,        \* how far the request of a worker has gone
  en_main,      \* the job it is about
  cle           \* what its take has written, not yet committed

lignes == <<status, attempts, claimed_by, bail_vivant, famille, payeur, repli>>
gens == <<statut, anciennes>>
requetes == <<etape, en_main, cle>>
vars == <<status, attempts, claimed_by, bail_vivant, famille, payeur, repli,
          statut, anciennes, etape, en_main, cle>>

\* Slips, used only to test the properties (PROJECT.json, mutants).
VerrouParVoie(c) == c

\* The name of the advisory lock: one per subscription whatever the path.
Verrou(c) == IF c \in Repli THEN c ELSE <<"abonnement", c[2]>>

Init ==
  /\ status = [j \in Job |-> "absent"]
  /\ attempts = [j \in Job |-> 0]
  /\ claimed_by = [j \in Job |-> NoWorker]
  /\ bail_vivant = [j \in Job |-> FALSE]
  /\ famille = [j \in Job |-> "abo"]
  /\ payeur = [j \in Job |-> NoForfait]
  /\ repli = [j \in Job |-> NoForfait]
  /\ statut \in [Personne -> {"connected", "paused_limit", "needs_login", "disconnected"}]
  /\ anciennes = {}
  /\ etape = [w \in Worker |-> "libre"]
  /\ en_main = [w \in Worker |-> NoJob]
  /\ cle = [w \in Worker |-> NoForfait]

\* The request of w moves to an other step, about the same job.
Passe(w, e) == etape' = [etape EXCEPT ![w] = e] /\ UNCHANGED <<en_main, cle>>
Libere(w) == /\ etape' = [etape EXCEPT ![w] = "libre"]
             /\ en_main' = [en_main EXCEPT ![w] = NoJob]
             /\ cle' = [cle EXCEPT ![w] = NoForfait]

\* The row locks and advisory locks of the transactions in progress.
EnTransaction(w) == etape[w] \in {"prise", "verrou", "relu"}
Verrouillee(j) == \E w \in Worker : EnTransaction(w) /\ en_main[w] = j
VerrouDesLaPrise(v) == \E w \in Worker : EnTransaction(w) /\ Verrou(cle[w]) = v
VerrouPris(v) == \E w \in Worker : etape[w] \in {"verrou", "relu"} /\ Verrou(cle[w]) = v

-----------------------------------------------------------------------------
(* What the statements read. *)

\* Neither to reconnect, nor disconnected, nor in a pause that holds; a worker
\* that probes does not stop at an old pause.
Servable(s, sonde) == \/ statut[s] = "connected"
                      \/ statut[s] = "paused_limit" /\ sonde /\ s \in anciennes

sql_propre_sert(j, sonde) == /\ <<demandeur[j], orgDe[j]>> \in ouverts
                             /\ Servable(demandeur[j], sonde)

Preteurs(j) == {s \in Personne : <<s, orgDe[j]>> \in prets}

\* The pool completes: it serves those whose own subscription does not.
sql_par_le_pool(j, sonde) ==
  \/ mode[orgDe[j]] = "pool"
  \/ /\ mode[orgDe[j]] = "aucun"
     /\ IF j \in flottes
          THEN \E s \in Preteurs(j) : statut[s] \in {"connected", "paused_limit"}
          ELSE /\ ~sql_propre_sert(j, sonde)
               /\ \E s \in Preteurs(j) : Servable(s, sonde)

_FORFAIT_SQL(j) == IF payeur[j] = NoForfait THEN demandeur[j] ELSE payeur[j][2]

Vit(j) == status[j] = "claimed" /\ bail_vivant[j]
_en_vol(s) == \E k \in Job : Vit(k) /\ famille[k] = "abo" /\ _FORFAIT_SQL(k) = s

\* Who may pay for the job, and by which path.
_fragments_abonnement(j, sonde) ==
  IF sql_par_le_pool(j, sonde)
    THEN {<<"pool", s>> : s \in {p \in Preteurs(j) : Servable(p, sonde) /\ ~_en_vol(p)}}
    ELSE {c \in {<<"personnel", demandeur[j]>>} :
            sql_propre_sert(j, sonde) /\ ~_en_vol(demandeur[j])}

RepliDesQuHorsService(j) ==
  IF sql_par_le_pool(j, FALSE)
    THEN {c \in {<<"repli:org", orgDe[j]>>} :
            Preteurs(j) # {} /\ \A s \in Preteurs(j) : ~Servable(s, FALSE)}
    ELSE {c \in {<<"repli:sub", demandeur[j]>>} :
            /\ <<demandeur[j], orgDe[j]>> \in ouverts
            /\ ~Servable(demandeur[j], FALSE)}

\* The fallback reads the STORED pause: that of the requester, or those of all
\* the lenders of the pool.  It yields the subscription it replaces.
_jointures_de_repli(j) ==
  IF sql_par_le_pool(j, FALSE)
    THEN {c \in {<<"repli:org", orgDe[j]>>} :
            Preteurs(j) # {} /\ \A s \in Preteurs(j) : statut[s] = "paused_limit"}
    ELSE {c \in {<<"repli:sub", demandeur[j]>>} :
            /\ <<demandeur[j], orgDe[j]>> \in ouverts
            /\ statut[demandeur[j]] = "paused_limit"}

Prenable(j) == /\ status[j] = "pending" \/ (status[j] = "claimed" /\ ~bail_vivant[j])
               /\ attempts[j] < MaxAttempts[j]

Epave(j) == status[j] = "claimed" /\ ~bail_vivant[j] /\ attempts[j] >= MaxAttempts[j]
Menage == [j \in Job |-> IF Epave(j) THEN "failed" ELSE status[j]]

-----------------------------------------------------------------------------
(* The take of a subscription job: SAVEPOINT, take, lock, read again. *)

\* The UPDATE of the take, on a row nobody holds (SKIP LOCKED); the sweep of
\* the wrecks comes first, and stays if the take is undone.
claim_next_job(w) ==
  /\ etape[w] = "libre" /\ w \in Abonnes
  /\ status' = Menage
  /\ LET offres == {o \in Job \X Forfait :
                      /\ Prenable(o[1]) /\ famille[o[1]] = "abo" /\ ~Verrouillee(o[1])
                      /\ o[2] \in _fragments_abonnement(o[1], w \in Sondeurs)}
     IN \/ /\ offres = {}
           /\ UNCHANGED requetes
        \/ \E o \in offres :
             /\ etape' = [etape EXCEPT ![w] = "prise"]
             /\ en_main' = [en_main EXCEPT ![w] = o[1]]
             /\ cle' = [cle EXCEPT ![w] = o[2]]
  /\ UNCHANGED <<attempts, claimed_by, bail_vivant, famille, payeur, repli, statut,
                 anciennes>>

\* pg_advisory_xact_lock: waits for the transaction that holds it.
Verrouiller(w) ==
  /\ etape[w] = "prise" /\ ~VerrouPris(Verrou(cle[w]))
  /\ Passe(w, "verrou")
  /\ UNCHANGED <<lignes, gens>>

AutreForfaitEnVol(j, s) ==
  \E k \in Job \ {j} : Vit(k) /\ famille[k] = "abo" /\ _FORFAIT_SQL(k) = s
_REPLI_EN_VOL(j, c) == \E k \in Job \ {j} : Vit(k) /\ repli[k] = c

RepliSansRelire(w) == /\ cle[w] \notin Repli
                      /\ AutreForfaitEnVol(en_main[w], cle[w][2])

\* A new statement, a new snapshot: what was committed since is seen.
_deja_en_vol(w) == IF cle[w] \in Repli THEN _REPLI_EN_VOL(en_main[w], cle[w])
                   ELSE AutreForfaitEnVol(en_main[w], cle[w][2])

\* ROLLBACK TO SAVEPOINT, or on to the commit.
Relire(w) ==
  /\ etape[w] = "verrou"
  /\ IF _deja_en_vol(w) THEN Libere(w) ELSE Passe(w, "relu")
  /\ UNCHANGED <<lignes, gens>>

Pris(w, j, avant) == /\ status' = [avant EXCEPT ![j] = "claimed"]
                     /\ attempts' = [attempts EXCEPT ![j] = @ + 1]
                     /\ claimed_by' = [claimed_by EXCEPT ![j] = w]
                     /\ bail_vivant' = [bail_vivant EXCEPT ![j] = TRUE]

Commettre(w) ==
  LET j == en_main[w] IN
  /\ etape[w] = "relu"
  /\ Pris(w, j, status)
  /\ IF cle[w] \in Repli
       THEN /\ famille' = [famille EXCEPT ![j] = "api"]
            /\ repli' = [repli EXCEPT ![j] = cle[w]]
            /\ UNCHANGED payeur
       ELSE /\ payeur' = [payeur EXCEPT ![j] = cle[w]]
            /\ UNCHANGED <<famille, repli>>
  /\ Passe(w, "remise")
  /\ UNCHANGED gens

-----------------------------------------------------------------------------
(* The workers of an API key: an ordinary take, then the fallback. *)

\* A folded job that comes back to the queue is an ordinary job of its family.
claim_next_job_api(w) ==
  /\ etape[w] = "libre" /\ w \in Worker \ Abonnes
  /\ LET offres == {j \in Job : Prenable(j) /\ famille[j] = "api" /\ ~Verrouillee(j)}
     IN \/ /\ offres = {}
           /\ status' = Menage
           /\ UNCHANGED <<attempts, claimed_by, bail_vivant, requetes>>
        \/ \E j \in offres :
             /\ Pris(w, j, Menage)
             /\ etape' = [etape EXCEPT ![w] = "remise"]
             /\ en_main' = [en_main EXCEPT ![w] = j]
             /\ UNCHANGED cle
  /\ UNCHANGED <<famille, payeur, repli, gens>>

Repliable(j) == /\ status[j] = "pending" /\ attempts[j] < MaxAttempts[j]
                /\ famille[j] = "abo"

\* A read, out of any lock; the take checks again.
candidats_repli_abonnement(w) ==
  /\ etape[w] = "libre" /\ w \in Worker \ Abonnes
  /\ \E j \in Job : /\ Repliable(j) /\ orgDe[j] \in replis
                    /\ \E c \in _jointures_de_repli(j) : ~_REPLI_EN_VOL(j, c)
                    /\ en_main' = [en_main EXCEPT ![w] = j]
  /\ etape' = [etape EXCEPT ![w] = "candidat"]
  /\ UNCHANGED <<lignes, gens, cle>>

\* FOR UPDATE without SKIP LOCKED: waits for the row.
claim_fallback_job(w) ==
  LET j == en_main[w] IN
  /\ etape[w] = "candidat" /\ ~Verrouillee(j)
  /\ IF Repliable(j) /\ _jointures_de_repli(j) # {}
       THEN /\ etape' = [etape EXCEPT ![w] = "prise"]
            /\ \E c \in _jointures_de_repli(j) : cle' = [cle EXCEPT ![w] = c]
            /\ UNCHANGED en_main
       ELSE Libere(w)
  /\ UNCHANGED <<lignes, gens>>

-----------------------------------------------------------------------------
(* The handover, the verbs of the claimant, and what kills it. *)

\* WHERE id = .. AND claimed_by = .. AND status = 'claimed', once the row is
\* free: an UPDATE waits for the transaction that holds it.
Tient(w) == status[en_main[w]] = "claimed" /\ claimed_by[en_main[w]] = w
Libre(w) == en_main[w] # NoJob /\ ~Verrouillee(en_main[w])

Relache(j) == /\ claimed_by' = [claimed_by EXCEPT ![j] = NoWorker]
              /\ bail_vivant' = [bail_vivant EXCEPT ![j] = FALSE]

\* A take undone and not counted.
rendre_a_la_file(j) == /\ status' = [status EXCEPT ![j] = "pending"]
                       /\ attempts' = [attempts EXCEPT ![j] = IF @ > 0 THEN @ - 1 ELSE 0]
                       /\ Relache(j)

arreter_definitivement(j) == /\ status' = [status EXCEPT ![j] = "failed"]
                             /\ UNCHANGED <<attempts, claimed_by, bail_vivant>>

Rien == UNCHANGED <<status, attempts, claimed_by, bail_vivant>>

\* The subscription is read anew: between the take and here, its owner may have
\* disconnected.  The job is then handed back, never stopped.
_avec_abonnement(w) ==
  LET j == en_main[w]
      s == cle[w][2]
  IN /\ etape[w] = "remise" /\ Libre(w)
     /\ cle[w] \in Forfait
     /\ \/ /\ j \in flottes /\ cle[w][1] = "personnel"
           /\ IF Tient(w) THEN arreter_definitivement(j) ELSE Rien
           /\ Libere(w)
        \/ /\ ~(j \in flottes /\ cle[w][1] = "personnel")
           /\ statut[s] \in {"connected", "paused_limit"}
           /\ Rien
           /\ Passe(w, IF statut[s] = "paused_limit" /\ w \in Sondeurs
                        THEN "sonde" ELSE "execute")
        \/ /\ ~(j \in flottes /\ cle[w][1] = "personnel")
           /\ statut[s] \notin {"connected", "paused_limit"}
           /\ IF Tient(w) THEN rendre_a_la_file(j) ELSE Rien
           /\ Libere(w)
     /\ UNCHANGED <<famille, payeur, repli, gens>>

\* The vault yields the key of the organisation, or the fold is undone and the
\* job handed back in the same write: it never runs on the key of the platform.
_avec_cle(w) ==
  LET j == en_main[w] IN
  /\ etape[w] = "remise" /\ Libre(w)
  /\ cle[w] \notin Forfait
  /\ \/ /\ Passe(w, "execute")
        /\ UNCHANGED lignes
     \/ /\ IF Tient(w) /\ repli[j] # NoForfait
             THEN /\ rendre_a_la_file(j)
                  /\ famille' = [famille EXCEPT ![j] = "abo"]
                  /\ repli' = [repli EXCEPT ![j] = NoForfait]
             ELSE Rien /\ UNCHANGED <<famille, repli>>
        /\ Libere(w)
        /\ UNCHANGED payeur
  /\ UNCHANGED gens

ObserveSansGarde(s, vu) == /\ statut' = [statut EXCEPT ![s] = vu]
                           /\ anciennes' = anciennes \ {s}

\* What a worker OBSERVES of a subscription never undoes a disconnection.
marquer_statut(s, vu) ==
  /\ statut' = [statut EXCEPT ![s] = IF @ = "disconnected" THEN @ ELSE vu]
  /\ anciennes' = IF statut[s] = "disconnected" THEN anciennes ELSE anciennes \ {s}

Etats == {"connected", "paused_limit", "needs_login"}

\* op=forfait: the probe is reported, then its verdict is read on the row.
_trancher_le_forfait(w) ==
  LET j == en_main[w]
      s == _FORFAIT_SQL(j)
  IN /\ etape[w] = "sonde" /\ Libre(w)
     /\ IF Tient(w)
          THEN /\ \E vu \in Etats : marquer_statut(s, vu)
               /\ IF statut'[s] = "connected"
                    THEN Rien /\ Passe(w, "execute")
                    ELSE rendre_a_la_file(j) /\ Libere(w)
          ELSE Rien /\ Libere(w) /\ UNCHANGED gens
     /\ UNCHANGED <<famille, payeur, repli>>

ApresEchec(j) == IF attempts[j] >= MaxAttempts[j] THEN "failed" ELSE "pending"

\* The conclusion, then the report it carries on the subscription that served;
\* 404 when the job is no longer the worker's.
complete_job(w, ok) ==
  LET j == en_main[w] IN
  /\ etape[w] = "execute" /\ Libre(w)
  /\ IF Tient(w)
       THEN /\ IF ok
                 THEN /\ status' = [status EXCEPT ![j] = "done"]
                      /\ UNCHANGED <<claimed_by, bail_vivant>>
                 ELSE /\ status' = [status EXCEPT ![j] = ApresEchec(j)]
                      /\ Relache(j)
            /\ \/ /\ famille[j] = "abo"
                  /\ \E vu \in Etats : marquer_statut(_FORFAIT_SQL(j), vu)
               \/ /\ famille[j] = "api" \/ ~ok
                  /\ UNCHANGED gens
            /\ UNCHANGED attempts
       ELSE Rien /\ UNCHANGED gens
  /\ Libere(w)
  /\ UNCHANGED <<famille, payeur, repli>>

\* The heartbeat: whatever the lease has become, as long as the job was not
\* taken again.
extend_job_lease(w) ==
  LET j == en_main[w] IN
  /\ etape[w] = "execute" /\ Libre(w) /\ Tient(w)
  /\ bail_vivant[j] \/ ProlongeTardif
  /\ bail_vivant' = [bail_vivant EXCEPT ![j] = TRUE]
  /\ UNCHANGED <<status, attempts, claimed_by, famille, payeur, repli, gens, requetes>>

\* A transaction aborted, an answer lost, a worker killed.
Meurt(w) ==
  /\ etape[w] # "libre"
  /\ Libere(w)
  /\ UNCHANGED <<lignes, gens>>

-----------------------------------------------------------------------------
(* Producers, people and clocks. *)

enqueue_job(j) ==
  /\ status[j] = "absent"
  /\ status' = [status EXCEPT ![j] = "pending"]
  /\ UNCHANGED <<attempts, claimed_by, bail_vivant, famille, payeur, repli, gens,
                 requetes>>

_valider_code(s) ==
  /\ statut' = [statut EXCEPT ![s] = "connected"]
  /\ anciennes' = anciennes \ {s}
  /\ UNCHANGED <<lignes, requetes>>

_retirer(s) ==
  /\ statut' = [statut EXCEPT ![s] = "disconnected"]
  /\ anciennes' = anciennes \ {s}
  /\ UNCHANGED <<lignes, requetes>>

\* NOW() passes limit_reset_at, or the personal cap is raised above the use.
PauseFinie(s) ==
  /\ statut[s] = "paused_limit"
  /\ statut' = [statut EXCEPT ![s] = "connected"]
  /\ anciennes' = anciennes \ {s}
  /\ UNCHANGED <<lignes, requetes>>

\* NOW() passes updated_at + VERIFICATION_S.
PauseAncienne(s) ==
  /\ statut[s] = "paused_limit" /\ s \notin anciennes
  /\ anciennes' = anciennes \cup {s}
  /\ UNCHANGED <<statut, lignes, requetes>>

BailMeurt(j) ==
  /\ bail_vivant[j]
  /\ bail_vivant' = [bail_vivant EXCEPT ![j] = FALSE]
  /\ UNCHANGED <<status, attempts, claimed_by, famille, payeur, repli, gens, requetes>>

Prise(w) == \/ claim_next_job(w) \/ claim_next_job_api(w)
            \/ candidats_repli_abonnement(w) \/ claim_fallback_job(w)
            \/ Verrouiller(w) \/ Relire(w) \/ Commettre(w)
Travail(w) == \/ _avec_abonnement(w) \/ _avec_cle(w) \/ _trancher_le_forfait(w)
              \/ \E ok \in BOOLEAN : complete_job(w, ok)
              \/ extend_job_lease(w)

Next == \/ \E w \in Worker : Prise(w) \/ Travail(w) \/ Meurt(w)
        \/ \E j \in Job : enqueue_job(j) \/ BailMeurt(j)
        \/ \E s \in Personne : \/ _valider_code(s) \/ _retirer(s)
                              \/ PauseFinie(s) \/ PauseAncienne(s)

Spec == Init /\ [][Next]_vars

\* A backend request runs to its end, and the lock queues of PostgreSQL are
\* served in order: who waits for a lock that is freed for ever again gets it.
Fairness == \A w \in Worker : /\ WF_vars(Relire(w)) /\ WF_vars(Commettre(w))
                              /\ SF_vars(Verrouiller(w)) /\ SF_vars(claim_fallback_job(w))
FairSpec == Spec /\ Fairness

-----------------------------------------------------------------------------
(* Properties. *)

TypeOK ==
  /\ status \in [Job -> {"absent", "pending", "claimed", "done", "failed"}]
  /\ attempts \in [Job -> Nat]
  /\ claimed_by \in [Job -> Worker \cup {NoWorker}]
  /\ bail_vivant \in [Job -> BOOLEAN]
  /\ famille \in [Job -> {"abo", "api"}]
  /\ payeur \in [Job -> Forfait \cup {NoForfait}]
  /\ repli \in [Job -> Repli \cup {NoForfait}]
  /\ statut \in [Personne -> Etats \cup {"disconnected"}]
  /\ anciennes \in SUBSET Personne
  /\ etape \in [Worker -> {"libre", "candidat", "prise", "verrou", "relu", "remise",
                           "sonde", "execute"}]
  /\ en_main \in [Worker -> Job \cup {NoJob}]
  /\ cle \in [Worker -> Forfait \cup Repli \cup {NoForfait}]

\* ONE job at a time per SUBSCRIPTION (_fragments_abonnement, clause 1): two
\* runs in one sandbox would fight over the session of its owner.
UnSeulParAbonnement ==
  \A j, k \in Job :
    /\ Vit(j) /\ famille[j] = "abo"
    /\ Vit(k) /\ famille[k] = "abo"
    /\ _FORFAIT_SQL(j) = _FORFAIT_SQL(k)
    => j = k

\* One fold in flight per subscription replaced (claim_fallback_job).
UnSeulRepliParForfait ==
  \A j, k \in Job : /\ Vit(j) /\ Vit(k)
                    /\ repli[j] # NoForfait /\ repli[j] = repli[k]
                    => j = k

\* A fold moves a spending to the organisation: the take does not trust the
\* pause its candidates were read with; all the subscriptions it gives up hold a
\* pause when it takes (claim_fallback_job).
RepliSousPause ==
  [][\A w \in Worker : cle[w] = NoForfait /\ cle'[w] \in Repli =>
       \A s \in Personne : cle'[w] = <<"repli:sub", s>> \/ (/\ cle'[w][1] = "repli:org"
                                                          /\ <<s, cle'[w][2]>> \in prets)
                            => statut[s] = "paused_limit"]_vars

\* A disconnection is undone by its author only: a job that left before it and
\* ends after it reports in vain (marquer_statut, observe).
DeconnexionTenue ==
  [][\A s \in Personne : statut[s] = "disconnected" /\ statut'[s] # "disconnected"
       => _valider_code(s)]_vars

\* The row of a job that is taken, folded, handed back and unfolded still
\* follows the life cycle of JobLifecycle.
Cycle == INSTANCE JobLifecycle
CycleDeVie == Cycle!Spec

\* No deadlock (_deja_en_vol): a request that holds its row and waits for the
\* lock, or that waits for a row, ends by committing or rolling back.
PriseAboutit ==
  \A w \in Worker : (EnTransaction(w) \/ etape[w] = "candidat")
                      ~> (etape[w] \in {"libre", "remise"})
=============================================================================
