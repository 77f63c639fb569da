----------------------------- MODULE RunnerQueue -----------------------------
(***************************************************************************)
(* The execution queue of the runner: src/oto_mcp/db/runner_jobs.py and    *)
(* the verbs of src/oto_mcp/capabilities/runner_jobs.py that reach it,     *)
(* with the three statements of db/runner_hooks.py and db/runner_jobs.py   *)
(* by which a trigger freezes, releases or expires its jobs.               *)
(*                                                                         *)
(* One action is one transaction of the backend (PostgreSQL, READ          *)
(* COMMITTED, rows taken by FOR UPDATE SKIP LOCKED).  The workers are      *)
(* separate programs that poll over HTTP: what a worker believes it holds  *)
(* (prise) is its own state and is not corrected when the backend moves    *)
(* on.  claimed_by names the IDENTITY of the worker, its token; several    *)
(* processes may present one token (subOf).                                *)
(*                                                                         *)
(* Time is abstracted to what the code compares it with: a lease is alive  *)
(* or dead, a due_at is passed or to come, a freshness delay is over or    *)
(* not.  The order of the due_at of the jobs that are due is kept (avant). *)
(* run_id, result and the texts of errors are not kept here.               *)
(***************************************************************************)
EXTENDS Naturals, FiniteSets

CONSTANTS Job, MaxAttempts,
          Proc,            \* the worker processes
          Sub,             \* the identities (tokens) they present
          subOf,           \* the identity each process presents
          Perimetre,       \* per process: the jobs of the org it polls for
          Vue,             \* per process: those its org_ids leave in sight
          Sert,            \* per process: those its other filters let it take
          Org, orgDe,      \* the organisation a job belongs to
          Famille, familleDe,             \* the model family of a job
          Declencheur, declencheurDe,     \* the trigger a job comes from
          perissable,      \* the jobs that carry _perime_apres_s
          NoJob, NoProc, NoSub, NoDeclencheur

ASSUME QueueAssumption ==
  /\ MaxAttempts \in [Job -> Nat \ {0}]
  /\ subOf \in [Proc -> Sub]
  /\ Perimetre \in [Proc -> SUBSET Job]
  /\ Vue \in [Proc -> SUBSET Job]
  /\ Sert \in [Proc -> SUBSET Job]
  /\ \A p \in Proc : Sert[p] \subseteq Vue[p] /\ Vue[p] \subseteq Perimetre[p]
  /\ orgDe \in [Job -> Org]
  /\ familleDe \in [Job -> Famille]
  /\ declencheurDe \in [Job -> Declencheur \cup {NoDeclencheur}]
  /\ perissable \subseteq Job
  /\ NoJob \notin Job /\ NoProc \notin Proc /\ NoSub \notin Sub

VARIABLES
  status,      \* runner_jobs.status, "absent" before the INSERT
  attempts,    \* runner_jobs.attempts
  claimed_by,  \* runner_jobs.claimed_by
  bail_vivant, \* lease_until is set and not passed
  dus,         \* the jobs whose due_at is passed
  avant,       \* <<j, k>> : both due, the due_at of j before that of k
  perimes,     \* the jobs whose freshness delay is over
  suspendues,  \* the organisations with orgs.suspended_at set
  prise,       \* per process: the job it believes it holds
  preneur      \* history: the process the last take of a job was handed to

travaux == <<status, attempts, claimed_by, bail_vivant, dus, avant>>
vars == <<status, attempts, claimed_by, bail_vivant, dus, avant, perimes,
          suspendues, prise, preneur>>

Terminal == {"done", "failed", "expired"}
Status == {"absent", "pending", "held", "claimed"} \cup Terminal

Init ==
  /\ status = [j \in Job |-> "absent"]
  /\ attempts = [j \in Job |-> 0]
  /\ claimed_by = [j \in Job |-> NoSub]
  /\ bail_vivant = [j \in Job |-> FALSE]
  /\ dus = {} /\ avant = {} /\ perimes = {} /\ suspendues = {}
  /\ prise = [p \in Proc |-> NoJob]
  /\ preneur = [j \in Job |-> NoProc]

-----------------------------------------------------------------------------
(* due_at.  A job whose due_at passes comes after all those already due;   *)
(* writing a due_at to come takes it out of them.                          *)

Echoient(S) == /\ dus' = dus \cup S
               /\ avant' = avant \cup (dus \X (S \ dus))
Reportes(S) == /\ dus' = dus \ S
               /\ avant' = {e \in avant : e[1] \notin S /\ e[2] \notin S}

Echoir(j) == /\ status[j] # "absent" /\ j \notin dus
             /\ Echoient({j})
             /\ UNCHANGED <<status, attempts, claimed_by, bail_vivant, perimes,
                            suspendues, prise, preneur>>

\* NOW() passes lease_until.
BailMeurt(j) ==
  /\ bail_vivant[j]
  /\ bail_vivant' = [bail_vivant EXCEPT ![j] = FALSE]
  /\ UNCHANGED <<status, attempts, claimed_by, dus, avant, perimes, suspendues,
                 prise, preneur>>

\* NOW() passes created_at + _perime_apres_s.
FraicheurPasse(j) ==
  /\ j \in perissable \ perimes /\ status[j] # "absent"
  /\ perimes' = perimes \cup {j}
  /\ UNCHANGED <<status, attempts, claimed_by, bail_vivant, dus, avant,
                 suspendues, prise, preneur>>

-----------------------------------------------------------------------------
(* The producers. *)

\* due_at = NOW() + delai_s: due at once, or later.
enqueue_job(j) ==
  /\ status[j] = "absent"
  /\ status' = [status EXCEPT ![j] = "pending"]
  /\ \E S \in {{}, {j}} : Echoient(S)
  /\ UNCHANGED <<attempts, claimed_by, bail_vivant, perimes, suspendues, prise,
                 preneur>>

Du(t, statuts) == {j \in Job : declencheurDe[j] = t /\ status[j] \in statuts}

Passe(S, nouveau) == [j \in Job |-> IF j \in S THEN nouveau ELSE status[j]]

perimer_travaux_du_declencheur(t) ==
  /\ status' = Passe(Du(t, {"pending", "held"}), "expired")
  /\ UNCHANGED <<attempts, claimed_by, bail_vivant, dus, avant, perimes,
                 suspendues, prise, preneur>>

suspendre_la_file(t) ==
  /\ status' = Passe(Du(t, {"pending"}), "held")
  /\ UNCHANGED <<attempts, claimed_by, bail_vivant, dus, avant, perimes,
                 suspendues, prise, preneur>>

\* All the due_at of the frozen jobs move by the lateness of the oldest one:
\* it becomes due now, the later ones keep their distance to it.
reprendre_la_file(t) ==
  LET rendus == Du(t, {"held"})
      retard == rendus \cap dus
      premiers == {j \in retard : \A k \in retard : <<k, j>> \notin avant}
  IN /\ status' = Passe(rendus, "pending")
     /\ dus' = (dus \ retard) \cup premiers
     /\ avant' = {e \in avant : e[1] \notin retard /\ e[2] \notin retard}
                 \cup ((dus \ retard) \X premiers)
     /\ UNCHANGED <<attempts, claimed_by, bail_vivant, perimes, suspendues,
                    prise, preneur>>

suspend_org(o) ==
  /\ suspendues' = suspendues \cup {o}
  /\ UNCHANGED <<status, attempts, claimed_by, bail_vivant, dus, avant, perimes,
                 prise, preneur>>

resume_org(o) ==
  /\ suspendues' = suspendues \ {o}
  /\ UNCHANGED <<status, attempts, claimed_by, bail_vivant, dus, avant, perimes,
                 prise, preneur>>

-----------------------------------------------------------------------------
(* The poll of a worker. *)

\* A row the poll may serve, by its status, its lease and its takes.
Prenable(j) == /\ status[j] = "pending" \/ (status[j] = "claimed" /\ ~bail_vivant[j])
               /\ attempts[j] < MaxAttempts[j]

_du_travail_en_vue(p) == \E j \in Vue[p] \cap dus : Prenable(j)

\* Slips, used only to test the properties (PROJECT.json, mutants).
EpaveAuDela(j) == /\ status[j] = "claimed" /\ ~bail_vivant[j]
                  /\ attempts[j] > MaxAttempts[j]
AttenteIgnoree(j) == status[j] = "held" /\ j \in perimes

\* Dead lease, no take left: failed, VISIBLE, never a loop.
Epave(j) == /\ status[j] = "claimed" /\ ~bail_vivant[j]
            /\ attempts[j] >= MaxAttempts[j]
TropAttendu(j) == status[j] = "pending" /\ j \in perimes

Menage(p) ==
  [j \in Job |-> CASE j \in Perimetre[p] /\ Epave(j) -> "failed"
                   [] j \in Perimetre[p] /\ TropAttendu(j) -> "expired"
                   [] OTHER -> status[j]]

\* The jobs in flight of the same organisation in the same family.
charge(j) == Cardinality({k \in Job : /\ status[k] = "claimed" /\ bail_vivant[k]
                                      /\ orgDe[k] = orgDe[j]
                                      /\ familleDe[k] = familleDe[j]})

\* Fair share: the least loaded organisation first, then the oldest due.
EnTete(S) == {j \in S : \A k \in S \ {j} :
                \/ charge(j) < charge(k)
                \/ charge(j) = charge(k) /\ <<k, j>> \notin avant}

Pris(p, j, apres) ==
  /\ status' = [apres EXCEPT ![j] = "claimed"]
  /\ claimed_by' = [claimed_by EXCEPT ![j] = subOf[p]]
  /\ attempts' = [attempts EXCEPT ![j] = @ + 1]
  /\ bail_vivant' = [bail_vivant EXCEPT ![j] = TRUE]
  /\ prise' = [prise EXCEPT ![p] = j]
  /\ preneur' = [preneur EXCEPT ![j] = p]
  /\ UNCHANGED <<dus, avant, perimes, suspendues>>

\* With nothing in sight the sweep runs only when its period is over, and
\* nothing is served; with something in sight it always comes before the take.
claim_next_job(p) ==
  /\ prise[p] = NoJob
  /\ \E menage \in BOOLEAN :
       LET apres == IF menage THEN Menage(p) ELSE status
           prenables == {j \in Sert[p] \cap dus : /\ Prenable(j)
                                                  /\ apres[j] = status[j]
                                                  /\ orgDe[j] \notin suspendues}
       IN /\ _du_travail_en_vue(p) => menage
          /\ \/ /\ _du_travail_en_vue(p)
                /\ \E j \in EnTete(prenables) : Pris(p, j, apres)
             \/ /\ ~_du_travail_en_vue(p) \/ prenables = {}
                /\ status' = apres
                /\ UNCHANGED <<attempts, claimed_by, bail_vivant, dus, avant,
                               perimes, suspendues, prise, preneur>>

-----------------------------------------------------------------------------
(* The verbs of the claimant. *)

TientSansClaimant(p, j) == status[j] = "claimed"
TientSansStatut(p, j) == claimed_by[j] = subOf[p]

\* WHERE id = .. AND claimed_by = .. AND status = 'claimed'
Tient(p, j) == claimed_by[j] = subOf[p] /\ status[j] = "claimed"

\* 404: the worker is told that the job is not its own any more.
PasAMoi(p) ==
  /\ prise[p] # NoJob /\ ~Tient(p, prise[p])
  /\ prise' = [prise EXCEPT ![p] = NoJob]
  /\ UNCHANGED <<status, attempts, claimed_by, bail_vivant, dus, avant, perimes,
                 suspendues, preneur>>

extend_job_lease(p) ==
  /\ prise[p] # NoJob /\ Tient(p, prise[p])
  /\ bail_vivant' = [bail_vivant EXCEPT ![prise[p]] = TRUE]
  /\ UNCHANGED <<status, attempts, claimed_by, dus, avant, perimes, suspendues,
                 prise, preneur>>

RelacheSansClaimant(j) == /\ bail_vivant' = [bail_vivant EXCEPT ![j] = FALSE]
                          /\ UNCHANGED claimed_by
                          /\ Reportes({j})

\* claimed_by = NULL, lease_until = NULL, and a due_at to come.
Relache(j) == /\ claimed_by' = [claimed_by EXCEPT ![j] = NoSub]
              /\ bail_vivant' = [bail_vivant EXCEPT ![j] = FALSE]
              /\ Reportes({j})

ApresEchecAuDela(j) == IF attempts[j] > MaxAttempts[j] THEN "failed" ELSE "pending"

\* A failed take: failed at the cap, else back in the queue after a backoff.
ApresEchec(j) == IF attempts[j] >= MaxAttempts[j] THEN "failed" ELSE "pending"

complete_job(p, ok) ==
  LET j == prise[p] IN
  /\ j # NoJob /\ Tient(p, j)
  /\ IF ok
       THEN /\ status' = [status EXCEPT ![j] = "done"]
            /\ UNCHANGED <<claimed_by, bail_vivant, dus, avant>>
       ELSE /\ status' = [status EXCEPT ![j] = ApresEchec(j)]
            /\ Relache(j)
  /\ prise' = [prise EXCEPT ![p] = NoJob]
  /\ UNCHANGED <<attempts, perimes, suspendues, preneur>>

\* A take undone without being counted: at the handover, or when the probe of
\* the subscription finds it unable to serve.
rendre_a_la_file(p) ==
  LET j == prise[p] IN
  /\ j # NoJob /\ Tient(p, j)
  /\ status' = [status EXCEPT ![j] = "pending"]
  /\ attempts' = [attempts EXCEPT ![j] = IF @ > 0 THEN @ - 1 ELSE 0]
  /\ Relache(j)
  /\ prise' = [prise EXCEPT ![p] = NoJob]
  /\ UNCHANGED <<perimes, suspendues, preneur>>

arreter_definitivement(p) ==
  LET j == prise[p] IN
  /\ j # NoJob /\ Tient(p, j)
  /\ status' = [status EXCEPT ![j] = "failed"]
  /\ prise' = [prise EXCEPT ![p] = NoJob]
  /\ UNCHANGED <<attempts, claimed_by, bail_vivant, dus, avant, perimes,
                 suspendues, preneur>>

\* The process dies, or the answer that gave it the job never reached it.
Meurt(p) ==
  /\ prise[p] # NoJob
  /\ prise' = [prise EXCEPT ![p] = NoJob]
  /\ UNCHANGED <<status, attempts, claimed_by, bail_vivant, dus, avant, perimes,
                 suspendues, preneur>>

-----------------------------------------------------------------------------
Verbe(p) == \/ extend_job_lease(p)
            \/ \E ok \in BOOLEAN : complete_job(p, ok)
            \/ rendre_a_la_file(p)
            \/ arreter_definitivement(p)

Temps == \E j \in Job : Echoir(j) \/ BailMeurt(j) \/ FraicheurPasse(j)
Producteurs == \E t \in Declencheur : \/ perimer_travaux_du_declencheur(t)
                                      \/ suspendre_la_file(t)
                                      \/ reprendre_la_file(t)

Next == \/ Temps
        \/ \E j \in Job : enqueue_job(j)
        \/ Producteurs
        \/ \E o \in Org : suspend_org(o) \/ resume_org(o)
        \/ \E p \in Proc : claim_next_job(p) \/ PasAMoi(p) \/ Verbe(p) \/ Meurt(p)

Spec == Init /\ [][Next]_vars

\* Clocks advance; every worker keeps polling, and a job it holds ends: it is
\* concluded, refused, or the process dies.  Nothing obliges a producer.
FinDuTravail(p) == \/ \E ok \in BOOLEAN : complete_job(p, ok)
                   \/ PasAMoi(p) \/ Meurt(p)
Fairness == /\ \A j \in Job : WF_vars(Echoir(j)) /\ WF_vars(BailMeurt(j))
            /\ \A p \in Proc : WF_vars(claim_next_job(p)) /\ WF_vars(FinDuTravail(p))

FairSpec == Spec /\ Fairness

-----------------------------------------------------------------------------
(* Properties. *)

TypeOK ==
  /\ status \in [Job -> Status]
  /\ attempts \in [Job -> Nat]
  /\ claimed_by \in [Job -> Sub \cup {NoSub}]
  /\ bail_vivant \in [Job -> BOOLEAN]
  /\ dus \in SUBSET Job
  /\ avant \in SUBSET (Job \X Job)
  /\ perimes \in SUBSET Job
  /\ suspendues \in SUBSET Org
  /\ prise \in [Proc -> Job \cup {NoJob}]
  /\ preneur \in [Job -> Proc \cup {NoProc}]

\* No zombie: a job that is not finished can still be served or declared lost.
\* A waiting job whose takes are spent would be neither taken by a poll nor
\* marked failed by its sweep, and would stay in the queue for ever, unseen
\* (claim_next_job serves attempts < max_attempts and sweeps only `claimed`).
PasDeZombie ==
  \A j \in Job : /\ status[j] \in {"pending", "held"} => attempts[j] < MaxAttempts[j]
                 /\ status[j] = "claimed" => attempts[j] \in 1 .. MaxAttempts[j]

\* A waiting job carries nothing of its last take: neither a claimant, who
\* could conclude it without having taken it again, nor a live lease.
SansReste ==
  \A j \in Job : status[j] \in {"absent", "pending", "held"} =>
                   claimed_by[j] = NoSub /\ ~bail_vivant[j]

\* The identity written on a job in flight is the one of the process the last
\* take handed it to: what makes claimed_by a proof of holding, as long as the
\* identity is that of one process.
PreneurEcrit ==
  \A j \in Job : status[j] = "claimed" =>
                   preneur[j] \in Proc /\ claimed_by[j] = subOf[preneur[j]]

\* What a row says is true of its job: who has it, and what may still become of it.
LigneCoherente == TypeOK /\ PasDeZombie /\ SansReste /\ PreneurEcrit

\* Only the claimant concludes (invariant 4 of the header of runner_jobs.py):
\* a verb that changes a job is the one of the process the job was last handed
\* to, never that of a process whose lease died and whose job was taken again.
SeulLeClaimantConclut ==
  [][\A p \in Proc : Verbe(p) /\ travaux' # travaux => preneur[prise[p]] = p]_vars

\* A job is not stolen: while its lease is alive, no other process is given it
\* (invariants 1 and 2 of the header).
BailNonVole ==
  [][\A j \in Job : status[j] = "claimed" /\ bail_vivant[j] =>
                      attempts'[j] <= attempts[j] /\ preneur'[j] = preneur[j]]_vars

\* What has waited longer than its freshness never starts: the poll expires it
\* before it serves (claim_next_job).
JamaisServiPerime ==
  [][\A j \in Job : status[j] = "pending" /\ status'[j] = "claimed" =>
                      j \notin perimes]_vars

\* What a poll may never be given: a job somebody holds, a job that is too old.
PriseLegitime == BailNonVole /\ JamaisServiPerime

\* What a frozen or unfinished queue owes each job (module JobLifecycle).
Cycle == INSTANCE JobLifecycle
CycleDeVie == Cycle!Spec

EnMain(j) == \E p \in Proc : prise[p] = j
Arretee(j) == orgDe[j] \in suspendues

\* A killed worker blocks a job only for the time of its lease (invariant 2): a
\* job nobody works on any more is taken again, or declared failed.
RepriseApresMort ==
  \A j \in Job : (status[j] = "claimed" /\ ~EnMain(j))
                   ~> (status[j] # "claimed" \/ EnMain(j) \/ Arretee(j))

\* Never a loop (invariant 3): provided takes are not handed back for ever, a
\* waiting job ends, unless somebody froze it or suspended its organisation.
FileSEcoule ==
  <>[][\A p \in Proc : ~rendre_a_la_file(p)]_vars =>
    \A j \in Job : status[j] = "pending"
                     ~> (status[j] \in Terminal \cup {"held"} \/ Arretee(j))
=============================================================================
