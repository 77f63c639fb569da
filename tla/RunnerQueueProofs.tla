--------------------------- MODULE RunnerQueueProofs ---------------------------
(***************************************************************************)
(* Proofs about RunnerQueue, for any jobs, workers, tokens and filters.    *)
(*                                                                         *)
(* IInv is the inductive invariant.  PasDeZombie is not inductive alone:   *)
(* that a failed take can go back to the queue rests on the bound of the   *)
(* jobs in flight, and that a take handed back stays non-negative on its   *)
(* lower bound.  PreneurEcrit ties the identity written on a row to the    *)
(* process that holds it; the action properties follow from it.            *)
(***************************************************************************)
EXTENDS RunnerQueue, TLAPS

\* A row that is not inserted yet was never taken.
AucuneTentative == \A j \in Job : status[j] = "absent" => attempts[j] = 0

IInv == TypeOK /\ PasDeZombie /\ AucuneTentative /\ SansReste /\ PreneurEcrit

\* The names of the small definitions every step needs.
USE DEF Status, Terminal

-----------------------------------------------------------------------------
(* The initial state. *)

LEMMA InitIInv == Init => IInv
BY QueueAssumption DEF Init, IInv, TypeOK, PasDeZombie, AucuneTentative,
                         SansReste, PreneurEcrit

-----------------------------------------------------------------------------
(* Types. *)

\* The writes of due_at keep the types of dus and avant.
LEMMA EchoientType ==
  ASSUME dus \in SUBSET Job, avant \in SUBSET (Job \X Job),
         NEW S \in SUBSET Job, Echoient(S)
  PROVE  dus' \in SUBSET Job /\ avant' \in SUBSET (Job \X Job)
BY DEF Echoient

LEMMA ReportesType ==
  ASSUME dus \in SUBSET Job, avant \in SUBSET (Job \X Job),
         NEW S \in SUBSET Job, Reportes(S)
  PROVE  dus' \in SUBSET Job /\ avant' \in SUBSET (Job \X Job)
BY DEF Reportes

LEMMA RelacheType ==
  ASSUME TypeOK, NEW j \in Job, Relache(j)
  PROVE  /\ claimed_by' \in [Job -> Sub \cup {NoSub}]
         /\ bail_vivant' \in [Job -> BOOLEAN]
         /\ dus' \in SUBSET Job
         /\ avant' \in SUBSET (Job \X Job)
BY ReportesType DEF Relache, TypeOK

LEMMA MenageType ==
  ASSUME TypeOK, NEW p \in Proc
  PROVE  Menage(p) \in [Job -> Status]
BY DEF TypeOK, Menage

\* Types are preserved by every step.
LEMMA TypeStep == TypeOK /\ [Next]_vars => TypeOK'
<1> SUFFICES ASSUME TypeOK, [Next]_vars PROVE TypeOK'
  OBVIOUS
<1> USE QueueAssumption
<1>1. ASSUME NEW j \in Job, Echoir(j) PROVE TypeOK'
  BY <1>1, EchoientType DEF Echoir, TypeOK
<1>2. ASSUME NEW j \in Job, BailMeurt(j) PROVE TypeOK'
  BY <1>2 DEF BailMeurt, TypeOK
<1>3. ASSUME NEW j \in Job, FraicheurPasse(j) PROVE TypeOK'
  BY <1>3 DEF FraicheurPasse, TypeOK
<1>4. ASSUME NEW j \in Job, enqueue_job(j) PROVE TypeOK'
  BY <1>4, EchoientType DEF enqueue_job, TypeOK
<1>5. ASSUME NEW t \in Declencheur, perimer_travaux_du_declencheur(t) PROVE TypeOK'
  BY <1>5 DEF perimer_travaux_du_declencheur, Passe, TypeOK
<1>6. ASSUME NEW t \in Declencheur, suspendre_la_file(t) PROVE TypeOK'
  BY <1>6 DEF suspendre_la_file, Passe, TypeOK
<1>7. ASSUME NEW t \in Declencheur, reprendre_la_file(t) PROVE TypeOK'
  BY <1>7 DEF reprendre_la_file, Passe, TypeOK
<1>8. ASSUME NEW o \in Org, suspend_org(o) \/ resume_org(o) PROVE TypeOK'
  BY <1>8 DEF suspend_org, resume_org, TypeOK
<1>9. ASSUME NEW p \in Proc, claim_next_job(p) PROVE TypeOK'
  <2>1. PICK menage \in BOOLEAN : claim_next_job(p)!2!(menage)
    BY <1>9 DEF claim_next_job
  <2> DEFINE apres == IF menage THEN Menage(p) ELSE status
  <2>2. apres \in [Job -> Status]
    BY MenageType DEF TypeOK
  <2>3. CASE \E j \in Job : Pris(p, j, apres)
    BY <2>2, <2>3 DEF Pris, TypeOK
  <2>4. CASE status' = apres /\ UNCHANGED <<attempts, claimed_by, bail_vivant, dus,
                                avant, perimes, suspendues, prise, preneur>>
    BY <2>2, <2>4 DEF TypeOK
  <2> QED
    BY <2>1, <2>3, <2>4 DEF EnTete
<1>10. ASSUME NEW p \in Proc, PasAMoi(p) PROVE TypeOK'
  BY <1>10 DEF PasAMoi, TypeOK
<1>11. ASSUME NEW p \in Proc, extend_job_lease(p) PROVE TypeOK'
  BY <1>11 DEF extend_job_lease, TypeOK
<1>12. ASSUME NEW p \in Proc, NEW ok \in BOOLEAN, complete_job(p, ok) PROVE TypeOK'
  <2> prise[p] \in Job
    BY <1>12 DEF complete_job, TypeOK
  <2>1. CASE ok
    BY <1>12, <2>1 DEF complete_job, TypeOK
  <2>2. CASE ~ok
    BY <1>12, <2>2, RelacheType DEF complete_job, ApresEchec, TypeOK
  <2> QED
    BY <2>1, <2>2
<1>13. ASSUME NEW p \in Proc, rendre_a_la_file(p) PROVE TypeOK'
  <2> prise[p] \in Job
    BY <1>13 DEF rendre_a_la_file, TypeOK
  <2> QED
    BY <1>13, RelacheType DEF rendre_a_la_file, TypeOK
<1>14. ASSUME NEW p \in Proc, arreter_definitivement(p) PROVE TypeOK'
  BY <1>14 DEF arreter_definitivement, TypeOK
<1>15. ASSUME NEW p \in Proc, Meurt(p) PROVE TypeOK'
  BY <1>15 DEF Meurt, TypeOK
<1>16. CASE UNCHANGED vars
  BY <1>16 DEF vars, TypeOK
<1> QED
  BY <1>1, <1>2, <1>3, <1>4, <1>5, <1>6, <1>7, <1>8, <1>9, <1>10, <1>11, <1>12,
     <1>13, <1>14, <1>15, <1>16 DEF Next, Temps, Producteurs, Verbe

-----------------------------------------------------------------------------
(* What a step does to one job.  Every action but the poll of a worker     *)
(* touches the row of a job in one of these ways, and the poll, which may  *)
(* touch them all, does one of them to each.                               *)

Meme(j) == /\ attempts'[j] = attempts[j] /\ claimed_by'[j] = claimed_by[j]
           /\ preneur'[j] = preneur[j]

Immobile(j) == /\ Meme(j) /\ status'[j] = status[j]
               /\ bail_vivant'[j] => bail_vivant[j] \/ status[j] = "claimed"

EnAttente(j) == /\ Meme(j) /\ bail_vivant'[j] = bail_vivant[j]
                /\ \/ status[j] = "absent"  /\ status'[j] = "pending"
                   \/ status[j] = "pending" /\ status'[j] \in {"held", "expired"}
                   \/ status[j] = "held"    /\ status'[j] \in {"pending", "expired"}

Prise(j) == /\ Prenable(j) /\ status'[j] = "claimed"
            /\ status[j] = "pending" => j \notin perimes
            /\ attempts'[j] = attempts[j] + 1
            /\ preneur'[j] \in Proc /\ claimed_by'[j] = subOf[preneur'[j]]

Fin(j) == status[j] = "claimed" /\ status'[j] \in {"done", "failed"}
          /\ attempts'[j] = attempts[j] /\ preneur'[j] = preneur[j]

Retour(j) == /\ status[j] = "claimed" /\ status'[j] = "pending"
             /\ claimed_by'[j] = NoSub /\ ~bail_vivant'[j]
             /\ preneur'[j] = preneur[j]
             /\ \/ attempts[j] < MaxAttempts[j] /\ attempts'[j] = attempts[j]
                \/ attempts[j] > 0 /\ attempts'[j] = attempts[j] - 1

Pas(j) == Immobile(j) \/ EnAttente(j) \/ Prise(j) \/ Fin(j) \/ Retour(j)

\* The poll: the sweep finishes some jobs, then at most one other is taken.
LEMMA PasDuSondage ==
  ASSUME TypeOK, NEW p \in Proc, claim_next_job(p), NEW j \in Job
  PROVE  Pas(j)
<1> USE QueueAssumption DEF TypeOK
<1>1. PICK menage \in BOOLEAN : claim_next_job(p)!2!(menage)
  BY DEF claim_next_job
<1> DEFINE apres == IF menage THEN Menage(p) ELSE status
           prenables == {k \in Sert[p] \cap dus : /\ Prenable(k)
                                                  /\ apres[k] = status[k]
                                                  /\ orgDe[k] \notin suspendues}
<1>2. apres \in [Job -> Status]
  BY MenageType
<1>3. \/ apres[j] = status[j]
      \/ status[j] = "claimed" /\ apres[j] = "failed"
      \/ status[j] = "pending" /\ apres[j] = "expired"
  BY DEF Menage, Epave, TropAttendu
<1>4. CASE \E k \in EnTete(prenables) : Pris(p, k, apres)
  <2>1. PICK k \in EnTete(prenables) : Pris(p, k, apres)
    BY <1>4
  <2>2. k \in prenables /\ k \in Job /\ Prenable(k) /\ apres[k] = status[k]
        /\ k \in Perimetre[p] /\ _du_travail_en_vue(p)
    BY <2>1, <1>2 DEF EnTete, _du_travail_en_vue
  <2>3. menage
    BY <1>1, <2>2
  <2>4. CASE j = k
    <3>1. status[j] = "pending" => j \notin perimes
      BY <2>2, <2>3, <2>4 DEF Menage, TropAttendu, Epave
    <3>2. /\ status'[j] = "claimed" /\ attempts'[j] = attempts[j] + 1
          /\ preneur'[j] = p /\ claimed_by'[j] = subOf[p]
      BY <2>1, <2>4, <1>2 DEF Pris
    <3> QED
      BY <2>2, <2>4, <3>1, <3>2 DEF Pas, Prise
  <2>5. CASE j # k
    <3>1. Meme(j) /\ status'[j] = apres[j] /\ bail_vivant'[j] = bail_vivant[j]
      BY <2>1, <2>2, <2>5, <1>2 DEF Pris, Meme
    <3> QED
      BY <3>1, <1>3 DEF Pas, Immobile, EnAttente, Fin, Meme
  <2> QED
    BY <2>4, <2>5
<1>5. CASE status' = apres /\ UNCHANGED <<attempts, claimed_by, bail_vivant, dus,
                              avant, perimes, suspendues, prise, preneur>>
  <2>1. Meme(j) /\ status'[j] = apres[j] /\ bail_vivant'[j] = bail_vivant[j]
    BY <1>5 DEF Meme
  <2> QED
    BY <2>1, <1>3 DEF Pas, Immobile, EnAttente, Fin, Meme
<1> QED
  BY <1>1, <1>4, <1>5

\* The shape of every step.
LEMMA PasDeChaque ==
  ASSUME TypeOK, PasDeZombie, [Next]_vars, NEW j \in Job
  PROVE  Pas(j)
<1> USE DEF TypeOK, Pas, Meme
<1>1. ASSUME NEW k \in Job, Echoir(k) \/ BailMeurt(k) \/ FraicheurPasse(k)
      PROVE  Pas(j)
  BY <1>1 DEF Echoir, BailMeurt, FraicheurPasse, Immobile
<1>2. ASSUME NEW k \in Job, enqueue_job(k) PROVE Pas(j)
  BY <1>2 DEF enqueue_job, Immobile, EnAttente
<1>3. ASSUME NEW t \in Declencheur, perimer_travaux_du_declencheur(t) PROVE Pas(j)
  BY <1>3 DEF perimer_travaux_du_declencheur, Passe, Du, Immobile, EnAttente
<1>4. ASSUME NEW t \in Declencheur, suspendre_la_file(t) PROVE Pas(j)
  BY <1>4 DEF suspendre_la_file, Passe, Du, Immobile, EnAttente
<1>5. ASSUME NEW t \in Declencheur, reprendre_la_file(t) PROVE Pas(j)
  BY <1>5 DEF reprendre_la_file, Passe, Du, Immobile, EnAttente
<1>6. ASSUME NEW o \in Org, suspend_org(o) \/ resume_org(o) PROVE Pas(j)
  BY <1>6 DEF suspend_org, resume_org, Immobile
<1>7. ASSUME NEW p \in Proc, claim_next_job(p) PROVE Pas(j)
  BY <1>7, PasDuSondage
<1>8. ASSUME NEW p \in Proc, PasAMoi(p) \/ Meurt(p) PROVE Pas(j)
  BY <1>8 DEF PasAMoi, Meurt, Immobile
<1>9. ASSUME NEW p \in Proc, extend_job_lease(p) PROVE Pas(j)
  BY <1>9 DEF extend_job_lease, Tient, Immobile
<1>10. ASSUME NEW p \in Proc, complete_job(p, TRUE) PROVE Pas(j)
  BY <1>10 DEF complete_job, Tient, Immobile, Fin
<1>11. ASSUME NEW p \in Proc, complete_job(p, FALSE) PROVE Pas(j)
  <2>1. CASE j = prise[p]
    <3>1. /\ status[j] = "claimed" /\ status'[j] = ApresEchec(j)
          /\ attempts'[j] = attempts[j] /\ preneur'[j] = preneur[j]
      BY <1>11, <2>1 DEF complete_job, Tient, ApresEchec
    <3>2. claimed_by'[j] = NoSub /\ ~bail_vivant'[j]
      BY <1>11, <2>1 DEF complete_job, Relache
    <3> QED
      BY <3>1, <3>2, QueueAssumption DEF ApresEchec, Fin, Retour
  <2>2. CASE j # prise[p]
    BY <1>11, <2>2 DEF complete_job, Relache, Immobile
  <2> QED
    BY <2>1, <2>2
<1>12. ASSUME NEW p \in Proc, rendre_a_la_file(p) PROVE Pas(j)
  <2>1. CASE j = prise[p]
    BY <1>12, <2>1, QueueAssumption
       DEF rendre_a_la_file, Tient, Relache, Retour, PasDeZombie
  <2>2. CASE j # prise[p]
    BY <1>12, <2>2 DEF rendre_a_la_file, Relache, Immobile
  <2> QED
    BY <2>1, <2>2
<1>13. ASSUME NEW p \in Proc, arreter_definitivement(p) PROVE Pas(j)
  BY <1>13 DEF arreter_definitivement, Tient, Immobile, Fin
<1>14. CASE UNCHANGED vars
  BY <1>14 DEF vars, Immobile
<1> QED
  BY <1>1, <1>2, <1>3, <1>4, <1>5, <1>6, <1>7, <1>8, <1>9, <1>10, <1>11, <1>12,
     <1>13, <1>14 DEF Next, Temps, Producteurs, Verbe

-----------------------------------------------------------------------------
(* The inductive invariant. *)

LEMMA IInvStep == IInv /\ [Next]_vars => IInv'
<1> SUFFICES ASSUME IInv, [Next]_vars PROVE IInv'
  OBVIOUS
<1> USE QueueAssumption
<1>1. TypeOK'
  BY TypeStep DEF IInv
<1>2. \A j \in Job : Pas(j)
  BY PasDeChaque DEF IInv
<1>3. PasDeZombie'
  <2> SUFFICES ASSUME NEW j \in Job
               PROVE  /\ status'[j] \in {"pending", "held"} => attempts'[j] < MaxAttempts[j]
                      /\ status'[j] = "claimed" => attempts'[j] \in 1 .. MaxAttempts[j]
    BY DEF PasDeZombie
  <2>1. attempts[j] \in Nat /\ MaxAttempts[j] \in Nat /\ MaxAttempts[j] > 0
    BY DEF IInv, TypeOK
  <2>2. status[j] = "absent" => attempts[j] < MaxAttempts[j]
    BY DEF IInv, AucuneTentative
  <2>3. CASE Immobile(j) \/ EnAttente(j) \/ Fin(j)
    BY <2>1, <2>2, <2>3 DEF IInv, PasDeZombie, Immobile, EnAttente, Fin, Meme
  <2>4. CASE Prise(j) \/ Retour(j)
    BY <2>1, <2>4 DEF IInv, PasDeZombie, Prise, Prenable, Retour
  <2> QED
    BY <1>2, <2>3, <2>4 DEF Pas
<1>4. AucuneTentative'
  BY <1>2 DEF IInv, AucuneTentative, Pas, Immobile, EnAttente, Prise, Fin, Retour, Meme
<1>5. SansReste'
  <2> SUFFICES ASSUME NEW j \in Job, status'[j] \in {"absent", "pending", "held"}
               PROVE  claimed_by'[j] = NoSub /\ ~bail_vivant'[j]
    BY DEF SansReste
  <2>1. CASE Immobile(j)
    BY <2>1 DEF IInv, SansReste, Immobile, Meme
  <2>2. CASE EnAttente(j)
    BY <2>2 DEF IInv, SansReste, EnAttente, Meme
  <2>3. CASE Prise(j) \/ Fin(j) \/ Retour(j)
    BY <2>3 DEF Prise, Fin, Retour
  <2> QED
    BY <1>2, <2>1, <2>2, <2>3 DEF Pas
<1>6. PreneurEcrit'
  BY <1>2 DEF IInv, PreneurEcrit, Pas, Immobile, EnAttente, Prise, Fin, Retour, Meme
<1> QED
  BY <1>1, <1>3, <1>4, <1>5, <1>6 DEF IInv

THEOREM Inductive == Spec => []IInv
<1>1. Init => IInv
  BY InitIInv
<1>2. IInv /\ [Next]_vars => IInv'
  BY IInvStep
<1> QED
  BY <1>1, <1>2, PTL DEF Spec

\* Every value the queue computes has the type of its column, whatever the
\* workers and the triggers do.
THEOREM TypeCorrect == Spec => []TypeOK
<1>1. IInv => TypeOK
  BY DEF IInv
<1> QED
  BY <1>1, Inductive, PTL

\* A row never says of its job what is not so: its status, its takes, its lease and who has
\* it fit together, so that no job is lost from sight, nor held by a process that forgot it
\* (db/runner_jobs.py, claim_next_job, complete_job, rendre_a_la_file).
THEOREM RowsCoherent == Spec => []LigneCoherente
<1>1. IInv => LigneCoherente
  BY DEF IInv, LigneCoherente
<1> QED
  BY <1>1, Inductive, PTL

\* A live lease protects its job: nobody else is given it before it dies
\* (claim_next_job, `status = 'pending' OR lease_until < NOW()`).
THEOREM LeaseNotStolen == Spec => BailNonVole
<1>1. IInv /\ [Next]_vars =>
        [\A j \in Job : status[j] = "claimed" /\ bail_vivant[j] =>
            attempts'[j] <= attempts[j] /\ preneur'[j] = preneur[j]]_vars
  <2> SUFFICES ASSUME IInv, [Next]_vars, NEW j \in Job,
                      status[j] = "claimed", bail_vivant[j]
               PROVE  attempts'[j] <= attempts[j] /\ preneur'[j] = preneur[j]
    OBVIOUS
  <2>1. Pas(j) /\ attempts[j] \in Nat
    BY PasDeChaque DEF IInv, TypeOK
  <2> QED
    BY <2>1 DEF Pas, Immobile, EnAttente, Prise, Prenable, Fin, Retour, Meme
<1> QED
  BY <1>1, Inductive, PTL DEF Spec, BailNonVole

\* A job that waited past its freshness is never started (claim_next_job: the
\* expiry comes before the take, in the same transaction).
THEOREM NeverServedStale == Spec => JamaisServiPerime
<1>1. IInv /\ [Next]_vars =>
        [\A j \in Job : status[j] = "pending" /\ status'[j] = "claimed" =>
            j \notin perimes]_vars
  <2> SUFFICES ASSUME IInv, [Next]_vars, NEW j \in Job,
                      status[j] = "pending", status'[j] = "claimed"
               PROVE  j \notin perimes
    OBVIOUS
  <2>1. Pas(j)
    BY PasDeChaque DEF IInv
  <2> QED
    BY <2>1 DEF Pas, Immobile, EnAttente, Prise, Fin, Retour
<1> QED
  BY <1>1, Inductive, PTL DEF Spec, JamaisServiPerime

\* What a poll is given is neither held by somebody nor too old.
THEOREM TakeIsLegitimate == Spec => PriseLegitime
<1> QED
  BY LeaseNotStolen, NeverServedStale DEF PriseLegitime

\* Invariant 4 of the header holds where every process has a token of its own:
\* nobody but the process a job was last handed to changes it by a verb.
THEOREM OnlyTheClaimantConcludes ==
  ASSUME \A p, q \in Proc : subOf[p] = subOf[q] => p = q
  PROVE  Spec => SeulLeClaimantConclut
<1>1. IInv /\ [Next]_vars =>
        [\A p \in Proc : Verbe(p) /\ travaux' # travaux => preneur[prise[p]] = p]_vars
  <2> SUFFICES ASSUME IInv, NEW p \in Proc, Verbe(p) PROVE preneur[prise[p]] = p
    OBVIOUS
  <2>1. prise[p] \in Job /\ Tient(p, prise[p])
    BY DEF Verbe, extend_job_lease, complete_job, rendre_a_la_file,
           arreter_definitivement, IInv, TypeOK
  <2> QED
    BY <2>1 DEF Tient, IInv, PreneurEcrit
<1> QED
  BY <1>1, Inductive, PTL DEF Spec, SeulLeClaimantConclut

-----------------------------------------------------------------------------
(* Refinement: the queue implements the life cycle of its jobs. *)

LEMMA InitRefines == Init => Cycle!Init
BY DEF Init, Cycle!Init

LEMMA StepRefines == IInv /\ [Next]_vars => [Cycle!Next]_(Cycle!vars)
<1> SUFFICES ASSUME IInv, [Next]_vars PROVE Cycle!Next
  OBVIOUS
<1>1. status' \in [Job -> Cycle!Status] /\ attempts' \in [Job -> Nat]
  BY TypeStep DEF IInv, TypeOK, Cycle!Status, Cycle!Terminal
<1>2. ASSUME NEW j \in Job
      PROVE  \/ Cycle!Moves(j) \/ Cycle!Taken(j) \/ Cycle!Retried(j)
             \/ Cycle!HandedBack(j) \/ Cycle!Rests(j)
  <2>1. Pas(j)
    BY PasDeChaque DEF IInv
  <2>2. CASE Immobile(j)
    BY <2>2 DEF Immobile, Meme, Cycle!Rests
  <2>3. CASE EnAttente(j) \/ Fin(j)
    BY <2>3 DEF EnAttente, Fin, Meme, Cycle!Moves, Cycle!Follows
  <2>4. CASE Prise(j)
    BY <2>4 DEF Prise, Prenable, Cycle!Taken
  <2>5. CASE Retour(j)
    BY <2>5 DEF Retour, Cycle!Retried, Cycle!HandedBack
  <2> QED
    BY <2>1, <2>2, <2>3, <2>4, <2>5 DEF Pas
<1> QED
  BY <1>1, <1>2 DEF Cycle!Next

\* Whatever the interleaving of polls, verbs, deaths and trigger operations,
\* each row follows the life cycle: a finished job stays finished, a take is
\* never beyond max_attempts, a frozen job is never taken.
THEOREM Refinement == Spec => CycleDeVie
<1> QED
  BY InitRefines, StepRefines, Inductive, PTL
     DEF Spec, CycleDeVie, Cycle!Spec
=============================================================================
