-------------------------- MODULE ForfaitEnVolProofs --------------------------
(***************************************************************************)
(* Proofs about ForfaitEnVol, for any jobs, people, loans and workers.     *)
(*                                                                         *)
(* That one subscription serves one job at a time is not inductive alone.  *)
(* The take is allowed by what was read under the advisory lock, so the    *)
(* reading must stay true until the commit (ReluVrai): nobody else can     *)
(* commit a take of that subscription meanwhile, because nobody else holds *)
(* its lock (VerrousExclusifs), and no row of it comes back to life except *)
(* by a take, as long as no heartbeat revives a dead lease.  The row of    *)
(* the take itself stays as it was chosen because it is locked             *)
(* (LignesExclusives, LigneTenue).                                         *)
(*                                                                         *)
(* One fold per pause goes the same way, with the lock of the pause        *)
(* (RepliRelu), as long as no folded job is taken again: the ordinary take *)
(* of an API worker holds no lock of a pause.  When a job has one take,    *)
(* that is an invariant of its own (IUne): a folded job leaves the flight  *)
(* for good, or comes back to the queue unfolded.                          *)
(***************************************************************************)
EXTENDS ForfaitEnVol, TLAPS

\* A request past its first step is about a job, a transaction has a key.
RequeteSensee ==
  \A w \in Worker : /\ etape[w] # "libre" => en_main[w] \in Job
                    /\ EnTransaction(w) => cle[w] \in Forfait \cup Repli

\* The bounds of the takes, as in RunnerQueue.
BornesDesPrises ==
  \A j \in Job : /\ status[j] = "absent" => attempts[j] = 0
                 /\ status[j] = "pending" => attempts[j] < MaxAttempts[j]
                 /\ status[j] = "claimed" => attempts[j] \in 1 .. MaxAttempts[j]

\* Two transactions never hold the same row.
LignesExclusives ==
  \A v, w \in Worker : EnTransaction(v) /\ EnTransaction(w) /\ en_main[v] = en_main[w]
                         => v = w

\* A locked row stays as the take found it.
LigneTenue == \A w \in Worker : EnTransaction(w) => Prenable(en_main[w])

\* Two transactions never hold the same advisory lock.
VerrousExclusifs ==
  \A v, w \in Worker : /\ etape[v] \in {"verrou", "relu"}
                       /\ etape[w] \in {"verrou", "relu"}
                       /\ Verrou(cle[v]) = Verrou(cle[w])
                       => v = w

IInv == /\ TypeOK /\ RequeteSensee /\ BornesDesPrises
        /\ LignesExclusives /\ LigneTenue /\ VerrousExclusifs

\* What was read again under the lock is still true.
ReluVrai ==
  \A w \in Worker : etape[w] = "relu" /\ cle[w] \in Forfait
                      => ~AutreForfaitEnVol(en_main[w], cle[w][2])

IVol == ReluVrai /\ UnSeulParAbonnement

-----------------------------------------------------------------------------
(* The initial state, and types. *)

LEMMA InitIInv == Init => IInv /\ IVol
BY ForfaitAssumption
   DEF Init, IInv, IVol, TypeOK, Etats, RequeteSensee, EnTransaction, BornesDesPrises,
       LignesExclusives, LigneTenue, VerrousExclusifs, ReluVrai, UnSeulParAbonnement, Vit

LEMMA OffresType ==
  ASSUME NEW j \in Job, NEW sonde
  PROVE  /\ _fragments_abonnement(j, sonde) \subseteq Forfait
         /\ _jointures_de_repli(j) \subseteq Repli
<1>1. demandeur[j] \in Personne /\ orgDe[j] \in Org /\ Preteurs(j) \subseteq Personne
  BY ForfaitAssumption DEF Preteurs
<1>2. _fragments_abonnement(j, sonde) \subseteq Forfait
  BY <1>1 DEF _fragments_abonnement, Forfait
<1>3. _jointures_de_repli(j) \subseteq Repli
  <2> SUFFICES ASSUME NEW c \in _jointures_de_repli(j) PROVE c \in Repli
    OBVIOUS
  <2>1. c = <<"repli:org", orgDe[j]>> \/ c = <<"repli:sub", demandeur[j]>>
    BY DEF _jointures_de_repli
  <2>2. <<"repli:org", orgDe[j]>> \in Repli /\ <<"repli:sub", demandeur[j]>> \in Repli
    BY <1>1 DEF Repli
  <2> QED
    BY <2>1, <2>2
<1> QED
  BY <1>2, <1>3

LEMMA MenageType ==
  ASSUME TypeOK
  PROVE  Menage \in [Job -> {"absent", "pending", "claimed", "done", "failed"}]
BY DEF TypeOK, Menage

LEMMA RenduType ==
  ASSUME TypeOK, NEW j \in Job, rendre_a_la_file(j)
  PROVE  /\ status' \in [Job -> {"absent", "pending", "claimed", "done", "failed"}]
         /\ attempts' \in [Job -> Nat]
         /\ claimed_by' \in [Job -> Worker \cup {NoWorker}]
         /\ bail_vivant' \in [Job -> BOOLEAN]
BY DEF TypeOK, rendre_a_la_file, Relache

\* Types are preserved by every step.
LEMMA TypeStep == TypeOK /\ RequeteSensee /\ [Next]_vars => TypeOK'
<1> SUFFICES ASSUME TypeOK, RequeteSensee, [Next]_vars PROVE TypeOK'
  OBVIOUS
<1> USE ForfaitAssumption DEF TypeOK, Etats, lignes, gens, requetes
<1>1. ASSUME NEW w \in Worker, claim_next_job(w) PROVE TypeOK'
  BY <1>1, MenageType, OffresType DEF claim_next_job
<1>2. ASSUME NEW w \in Worker, Verrouiller(w) PROVE TypeOK'
  BY <1>2 DEF Verrouiller, Passe
<1>3. ASSUME NEW w \in Worker, Relire(w) PROVE TypeOK'
  BY <1>3 DEF Relire, Passe, Libere
<1>4. ASSUME NEW w \in Worker, Commettre(w) PROVE TypeOK'
  <2>1. en_main[w] \in Job /\ cle[w] \in Forfait \cup Repli
    BY <1>4 DEF Commettre, RequeteSensee, EnTransaction
  <2> QED
    BY <1>4, <2>1 DEF Commettre, Pris, Passe
<1>5. ASSUME NEW w \in Worker, claim_next_job_api(w) PROVE TypeOK'
  <2>1. CASE status' = Menage /\ UNCHANGED <<attempts, claimed_by, bail_vivant, requetes>>
    BY <1>5, <2>1, MenageType DEF claim_next_job_api
  <2>2. ASSUME NEW j \in Job, Pris(w, j, Menage), UNCHANGED cle,
               en_main' = [en_main EXCEPT ![w] = j],
               etape' = [etape EXCEPT ![w] = "remise"]
        PROVE  TypeOK'
    <3>1. UNCHANGED <<famille, payeur, repli, statut, anciennes>>
      BY <1>5 DEF claim_next_job_api
    <3> QED
      BY <2>2, <3>1, MenageType DEF Pris
  <2> QED
    BY <1>5, <2>1, <2>2 DEF claim_next_job_api
<1>6. ASSUME NEW w \in Worker, candidats_repli_abonnement(w) PROVE TypeOK'
  BY <1>6 DEF candidats_repli_abonnement
<1>7. ASSUME NEW w \in Worker, claim_fallback_job(w) PROVE TypeOK'
  <2>1. en_main[w] \in Job
    BY <1>7 DEF claim_fallback_job, RequeteSensee
  <2> QED
    <3>1. CASE Libere(w)
      BY <1>7, <3>1 DEF claim_fallback_job, Libere
    <3>2. ASSUME NEW c \in _jointures_de_repli(en_main[w]),
                 cle' = [cle EXCEPT ![w] = c], UNCHANGED en_main,
                 etape' = [etape EXCEPT ![w] = "prise"]
          PROVE  TypeOK'
      BY <1>7, <2>1, <3>2, OffresType DEF claim_fallback_job
    <3> QED
      BY <1>7, <3>1, <3>2 DEF claim_fallback_job
<1>8. ASSUME NEW w \in Worker, _avec_abonnement(w) PROVE TypeOK'
  <2>0. en_main[w] \in Job
    BY <1>8 DEF _avec_abonnement, RequeteSensee
  <2> USE DEF Passe, Libere, Rien, Relache
  <2>1. CASE Rien /\ (Libere(w) \/ Passe(w, "sonde") \/ Passe(w, "execute"))
    BY <1>8, <2>1 DEF _avec_abonnement
  <2>2. CASE (rendre_a_la_file(en_main[w]) \/ arreter_definitivement(en_main[w])) /\ Libere(w)
    <3>1. CASE rendre_a_la_file(en_main[w])
      BY <1>8, <2>0, <2>2, <3>1, RenduType DEF _avec_abonnement
    <3>2. CASE arreter_definitivement(en_main[w])
      BY <1>8, <2>2, <3>2 DEF _avec_abonnement, arreter_definitivement
    <3> QED
      BY <2>2, <3>1, <3>2
  <2> QED
    BY <1>8, <2>1, <2>2 DEF _avec_abonnement
<1>9. ASSUME NEW w \in Worker, _avec_cle(w) PROVE TypeOK'
  <2>0. en_main[w] \in Job
    BY <1>9 DEF _avec_cle, RequeteSensee
  <2> USE DEF Passe, Libere, Rien, Relache
  <2>1. CASE Passe(w, "execute") /\ UNCHANGED lignes
    BY <1>9, <2>1 DEF _avec_cle
  <2>2. CASE rendre_a_la_file(en_main[w]) /\ Libere(w)
    <3>1. famille' \in [Job -> {"abo", "api"}] /\ repli' \in [Job -> Repli \cup {NoForfait}]
      BY <1>9 DEF _avec_cle
    <3>2. UNCHANGED <<payeur, statut, anciennes>>
      BY <1>9 DEF _avec_cle
    <3> QED
      BY <2>0, <2>2, <3>1, <3>2, RenduType DEF Libere
  <2>3. CASE Rien /\ Libere(w)
    BY <1>9, <2>3 DEF _avec_cle
  <2> QED
    BY <1>9, <2>1, <2>2, <2>3 DEF _avec_cle
<1>10. ASSUME NEW w \in Worker, _trancher_le_forfait(w) PROVE TypeOK'
  <2>0. en_main[w] \in Job /\ UNCHANGED <<famille, payeur, repli>>
    BY <1>10 DEF _trancher_le_forfait, RequeteSensee
  <2>1. statut' \in [Personne -> Etats \cup {"disconnected"}] /\ anciennes' \in SUBSET Personne
    BY <1>10 DEF _trancher_le_forfait, marquer_statut
  <2>2. CASE Rien /\ (Libere(w) \/ Passe(w, "execute"))
    BY <1>10, <2>1, <2>2 DEF _trancher_le_forfait, Rien, Libere, Passe
  <2>3. CASE rendre_a_la_file(en_main[w]) /\ Libere(w)
    BY <2>0, <2>1, <2>3, RenduType DEF Libere
  <2> QED
    BY <1>10, <2>2, <2>3 DEF _trancher_le_forfait
<1>11. ASSUME NEW w \in Worker, NEW ok \in BOOLEAN, complete_job(w, ok) PROVE TypeOK'
  <2>1. statut' \in [Personne -> Etats \cup {"disconnected"}] /\ anciennes' \in SUBSET Personne
    BY <1>11 DEF complete_job, marquer_statut
  <2>2. CASE Rien
    BY <1>11, <2>1, <2>2 DEF complete_job, Rien, Libere
  <2>3. CASE Tient(w) /\ ok
    BY <1>11, <2>1, <2>3 DEF complete_job, Libere
  <2>4. CASE Tient(w) /\ ~ok
    BY ZenonT(40), <1>11, <2>1, <2>4 DEF complete_job, Relache, Libere, ApresEchec
  <2> QED
    BY <1>11, <2>2, <2>3, <2>4 DEF complete_job
<1>12. ASSUME NEW w \in Worker, extend_job_lease(w) PROVE TypeOK'
  BY <1>12 DEF extend_job_lease
<1>13. ASSUME NEW w \in Worker, Meurt(w) PROVE TypeOK'
  BY <1>13 DEF Meurt, Libere
<1>14. ASSUME NEW j \in Job, enqueue_job(j) \/ BailMeurt(j) PROVE TypeOK'
  <2>1. CASE enqueue_job(j)
    BY <2>1 DEF enqueue_job
  <2>2. CASE BailMeurt(j)
    BY <2>2 DEF BailMeurt
  <2> QED
    BY <1>14, <2>1, <2>2
<1>15. ASSUME NEW s \in Personne,
              _valider_code(s) \/ _retirer(s) \/ PauseFinie(s) \/ PauseAncienne(s)
       PROVE  TypeOK'
  BY <1>15 DEF _valider_code, _retirer, PauseFinie, PauseAncienne
<1>16. CASE UNCHANGED vars
  BY <1>16 DEF vars
<1> QED
  BY <1>1, <1>2, <1>3, <1>4, <1>5, <1>6, <1>7, <1>8, <1>9, <1>10, <1>11, <1>12,
     <1>13, <1>14, <1>15, <1>16 DEF Next, Prise, Travail

-----------------------------------------------------------------------------
(* What a step does to the row of one job. *)

\* Left alone; a lease may die, or be revived by a late heartbeat.
Repos(j) == /\ status'[j] = status[j] /\ attempts'[j] = attempts[j]
            /\ famille'[j] = famille[j] /\ payeur'[j] = payeur[j]
            /\ bail_vivant'[j] => bail_vivant[j] \/ (ProlongeTardif /\ ~Verrouillee(j))

Entre(j) == /\ status[j] = "absent" /\ status'[j] = "pending"
            /\ attempts'[j] = attempts[j]

Sort(j) == /\ status[j] = "claimed" /\ status'[j] \in {"done", "failed"}
           /\ attempts'[j] = attempts[j]
           /\ Verrouillee(j) => attempts[j] >= MaxAttempts[j]

Revient(j) == /\ status[j] = "claimed" /\ status'[j] = "pending" /\ ~Verrouillee(j)
              /\ \/ attempts[j] < MaxAttempts[j] /\ attempts'[j] = attempts[j]
                 \/ attempts[j] > 0 /\ attempts'[j] = attempts[j] - 1

Servi(j) == /\ Prenable(j) /\ status'[j] = "claimed" /\ attempts'[j] = attempts[j] + 1
            /\ \/ ~Verrouillee(j) /\ famille'[j] = "api"
               \/ \E w \in Worker : /\ Commettre(w) /\ en_main[w] = j
                                    /\ famille'[j] = "abo" =>
                                         cle[w] \in Forfait /\ payeur'[j] = cle[w]

Pas(j) == Repos(j) \/ Entre(j) \/ Sort(j) \/ Revient(j) \/ Servi(j)

LEMMA PasDuMenage ==
  ASSUME TypeOK, NEW j \in Job
  PROVE  \/ Menage[j] = status[j]
         \/ /\ status[j] = "claimed" /\ Menage[j] = "failed"
            /\ attempts[j] >= MaxAttempts[j]
BY DEF Menage, Epave

LEMMA PasDuRendu ==
  ASSUME TypeOK, BornesDesPrises, NEW k \in Job, status[k] = "claimed", ~Verrouillee(k),
         rendre_a_la_file(k), NEW j \in Job,
         famille'[j] = famille[j] \/ j = k, UNCHANGED payeur
  PROVE  Pas(j)
<1>1. CASE j = k
  BY <1>1, ForfaitAssumption
     DEF TypeOK, BornesDesPrises, rendre_a_la_file, Relache, Pas, Revient
<1>2. CASE j # k
  BY <1>2 DEF TypeOK, rendre_a_la_file, Relache, Pas, Repos
<1> QED
  BY <1>1, <1>2

\* The shape of every step.
LEMMA PasDeChaque ==
  ASSUME IInv, [Next]_vars, NEW j \in Job
  PROVE  Pas(j)
<1> USE ForfaitAssumption DEF IInv, TypeOK, lignes, gens, requetes
<1>1. ASSUME NEW w \in Worker, claim_next_job(w) PROVE Pas(j)
  BY <1>1, PasDuMenage DEF claim_next_job, Pas, Repos, Sort
<1>2. ASSUME NEW w \in Worker,
             \/ Verrouiller(w) \/ Relire(w) \/ candidats_repli_abonnement(w)
             \/ claim_fallback_job(w) \/ Meurt(w)
      PROVE  Pas(j)
  <2>1. UNCHANGED lignes
    BY <1>2 DEF Verrouiller, Relire, candidats_repli_abonnement, claim_fallback_job, Meurt
  <2> QED
    BY <2>1 DEF Pas, Repos
<1>3. ASSUME NEW w \in Worker, Commettre(w) PROVE Pas(j)
  <2>1. en_main[w] \in Job /\ cle[w] \in Forfait \cup Repli /\ Prenable(en_main[w])
    BY <1>3 DEF Commettre, RequeteSensee, EnTransaction, LigneTenue
  <2>2. CASE j = en_main[w]
    <3>1. status'[j] = "claimed" /\ attempts'[j] = attempts[j] + 1
      BY <1>3, <2>2 DEF Commettre, Pris
    <3>2. famille'[j] = "abo" => cle[w] \in Forfait /\ payeur'[j] = cle[w]
      BY <1>3, <2>1, <2>2 DEF Commettre
    <3> QED
      BY <1>3, <2>1, <2>2, <3>1, <3>2 DEF Pas, Servi
  <2>3. CASE j # en_main[w]
    BY <1>3, <2>3 DEF Commettre, Pris, Pas, Repos
  <2> QED
    BY <2>2, <2>3
<1>4. ASSUME NEW w \in Worker, claim_next_job_api(w) PROVE Pas(j)
  <2>1. UNCHANGED <<famille, payeur>>
    BY <1>4 DEF claim_next_job_api
  <2>2. CASE status' = Menage /\ UNCHANGED <<attempts, claimed_by, bail_vivant, requetes>>
    BY <2>1, <2>2, PasDuMenage DEF Pas, Repos, Sort
  <2>3. ASSUME NEW k \in Job, Prenable(k), famille[k] = "api", ~Verrouillee(k),
               Pris(w, k, Menage)
        PROVE  Pas(j)
    <3>1. CASE j = k
      BY <2>1, <2>3, <3>1, MenageType DEF Pris, Pas, Servi
    <3>2. CASE j # k
      BY <2>1, <2>3, <3>2, PasDuMenage, MenageType DEF Pris, Pas, Repos, Sort
    <3> QED
      BY <3>1, <3>2
  <2> QED
    BY <1>4, <2>2, <2>3 DEF claim_next_job_api
<1>5. ASSUME NEW w \in Worker, _avec_abonnement(w) PROVE Pas(j)
  <2>1. en_main[w] \in Job /\ ~Verrouillee(en_main[w]) /\ UNCHANGED <<famille, payeur>>
    BY <1>5 DEF _avec_abonnement, Libre, RequeteSensee
  <2>2. CASE Rien
    BY <2>1, <2>2 DEF Rien, Pas, Repos
  <2>3. CASE Tient(w) /\ arreter_definitivement(en_main[w])
    BY <2>1, <2>3 DEF Tient, arreter_definitivement, Pas, Repos, Sort
  <2>4. CASE Tient(w) /\ rendre_a_la_file(en_main[w])
    BY <2>1, <2>4, PasDuRendu DEF Tient
  <2> QED
    BY <1>5, <2>2, <2>3, <2>4 DEF _avec_abonnement
<1>6. ASSUME NEW w \in Worker, _avec_cle(w) PROVE Pas(j)
  <2>1. en_main[w] \in Job /\ ~Verrouillee(en_main[w])
    BY <1>6 DEF _avec_cle, Libre, RequeteSensee
  <2>2. CASE UNCHANGED lignes
    BY <2>2 DEF Pas, Repos
  <2>3. CASE Rien /\ UNCHANGED <<famille, repli, payeur>>
    BY <2>3 DEF Rien, Pas, Repos
  <2>4. CASE Tient(w) /\ rendre_a_la_file(en_main[w]) /\ UNCHANGED payeur
             /\ famille' = [famille EXCEPT ![en_main[w]] = "abo"]
    BY <2>1, <2>4, PasDuRendu DEF Tient
  <2> QED
    BY <1>6, <2>2, <2>3, <2>4 DEF _avec_cle
<1>7. ASSUME NEW w \in Worker, _trancher_le_forfait(w) PROVE Pas(j)
  <2>1. en_main[w] \in Job /\ ~Verrouillee(en_main[w]) /\ UNCHANGED <<famille, payeur>>
    BY <1>7 DEF _trancher_le_forfait, Libre, RequeteSensee
  <2>2. CASE Rien
    BY <2>1, <2>2 DEF Rien, Pas, Repos
  <2>3. CASE Tient(w) /\ rendre_a_la_file(en_main[w])
    BY <2>1, <2>3, PasDuRendu DEF Tient
  <2> QED
    BY <1>7, <2>2, <2>3 DEF _trancher_le_forfait
<1>8. ASSUME NEW w \in Worker, NEW ok \in BOOLEAN, complete_job(w, ok) PROVE Pas(j)
  <2>1. en_main[w] \in Job /\ ~Verrouillee(en_main[w]) /\ UNCHANGED <<famille, payeur>>
    BY <1>8 DEF complete_job, Libre, RequeteSensee
  <2>2. CASE Rien
    BY <2>1, <2>2 DEF Rien, Pas, Repos
  <2>3. CASE Tient(w) /\ ok
    <3>1. /\ status' = [status EXCEPT ![en_main[w]] = "done"]
          /\ UNCHANGED <<attempts, bail_vivant>>
      BY <1>8, <2>3 DEF complete_job
    <3> QED
      BY <2>1, <2>3, <3>1 DEF Tient, Pas, Repos, Sort
  <2>4. CASE Tient(w) /\ ~ok
    <3>1. /\ status' = [status EXCEPT ![en_main[w]] = ApresEchec(en_main[w])]
          /\ bail_vivant' = [bail_vivant EXCEPT ![en_main[w]] = FALSE]
          /\ UNCHANGED attempts
      BY <1>8, <2>4 DEF complete_job, Relache
    <3> QED
      BY <2>1, <2>4, <3>1 DEF Tient, ApresEchec, Pas, Repos, Sort, Revient
  <2> QED
    BY <1>8, <2>2, <2>3, <2>4 DEF complete_job
<1>9. ASSUME NEW w \in Worker, extend_job_lease(w) PROVE Pas(j)
  <2>1. ~Verrouillee(en_main[w]) /\ (bail_vivant[en_main[w]] \/ ProlongeTardif)
    BY <1>9 DEF extend_job_lease, Libre
  <2> QED
    BY <1>9, <2>1 DEF extend_job_lease, Pas, Repos
<1>10. ASSUME NEW k \in Job, enqueue_job(k) \/ BailMeurt(k) PROVE Pas(j)
  <2>1. CASE enqueue_job(k)
    BY <2>1 DEF enqueue_job, Pas, Repos, Entre
  <2>2. CASE BailMeurt(k)
    BY <2>2 DEF BailMeurt, Pas, Repos
  <2> QED
    BY <1>10, <2>1, <2>2
<1>11. ASSUME NEW s \in Personne,
              _valider_code(s) \/ _retirer(s) \/ PauseFinie(s) \/ PauseAncienne(s)
       PROVE  Pas(j)
  <2>1. UNCHANGED lignes
    BY <1>11 DEF _valider_code, _retirer, PauseFinie, PauseAncienne
  <2> QED
    BY <2>1 DEF Pas, Repos
<1>12. CASE UNCHANGED vars
  BY <1>12 DEF vars, Pas, Repos
<1> QED
  BY <1>1, <1>2, <1>3, <1>4, <1>5, <1>6, <1>7, <1>8, <1>9, <1>10, <1>11, <1>12
     DEF Next, Prise, Travail

-----------------------------------------------------------------------------
(* What a step does to the request of one worker. *)

Reste(v) == etape'[v] = etape[v] /\ en_main'[v] = en_main[v] /\ cle'[v] = cle[v]

\* No transaction begins or goes on: an end, a candidate, a handover, a run.
Dehors(v) == /\ etape'[v] \in {"libre", "candidat", "remise", "sonde", "execute"}
             /\ etape'[v] # "libre" => en_main'[v] \in Job
             /\ cle'[v] \in {cle[v], NoForfait}

Commence(v) == /\ etape'[v] = "prise" /\ en_main'[v] \in Job
               /\ Prenable(en_main'[v]) /\ ~Verrouillee(en_main'[v])
               /\ \/ cle'[v] \in Forfait
                  \/ cle'[v] \in Repli /\ cle'[v] \in _jointures_de_repli(en_main'[v])
               /\ UNCHANGED <<attempts, bail_vivant>>
               /\ status'[en_main'[v]] = status[en_main'[v]]

Attend(v) == /\ etape[v] = "prise" /\ etape'[v] = "verrou"
             /\ en_main'[v] = en_main[v] /\ cle'[v] = cle[v]
             /\ ~VerrouPris(Verrou(cle[v]))

Relit(v) == /\ etape[v] = "verrou" /\ etape'[v] = "relu"
            /\ en_main'[v] = en_main[v] /\ cle'[v] = cle[v]
            /\ ~_deja_en_vol(v) /\ UNCHANGED lignes

Avance(v) == Dehors(v) \/ Commence(v) \/ Attend(v) \/ Relit(v)

\* One request at most moves in a step.
LEMMA PasDesRequetes ==
  ASSUME IInv, [Next]_vars
  PROVE  \/ \A u \in Worker : Reste(u)
         \/ \E v \in Worker : Avance(v) /\ \A u \in Worker \ {v} : Reste(u)
<1> DEFINE Bouge(v) == Avance(v) /\ \A u \in Worker \ {v} : Reste(u)
           Immobiles == \A u \in Worker : Reste(u)
<1> SUFFICES Immobiles \/ \E v \in Worker : Bouge(v)
  OBVIOUS
<1> USE ForfaitAssumption DEF IInv, TypeOK, lignes, gens, requetes, Reste
<1>1. ASSUME NEW w \in Worker, claim_next_job(w) PROVE Immobiles \/ Bouge(w)
  <2>1. CASE UNCHANGED requetes
    BY <2>1
  <2>2. ASSUME NEW o \in Job \X Forfait, Prenable(o[1]), ~Verrouillee(o[1]),
               etape' = [etape EXCEPT ![w] = "prise"],
               en_main' = [en_main EXCEPT ![w] = o[1]],
               cle' = [cle EXCEPT ![w] = o[2]]
        PROVE  Bouge(w)
    <3>1. o[1] \in Job /\ o[2] \in Forfait
      BY <2>2
    <3>2. status'[o[1]] = status[o[1]] /\ UNCHANGED <<attempts, bail_vivant>>
      BY <1>1, <2>2, <3>1, PasDuMenage DEF claim_next_job, Prenable
    <3> QED
      BY <2>2, <3>1, <3>2 DEF Avance, Commence
  <2> QED
    BY <1>1, <2>1, <2>2 DEF claim_next_job
<1>2. ASSUME NEW w \in Worker, Verrouiller(w) PROVE Bouge(w)
  BY <1>2 DEF Verrouiller, Passe, Avance, Attend
<1>3. ASSUME NEW w \in Worker, Relire(w) PROVE Bouge(w)
  <2>1. CASE Libere(w)
    BY <2>1 DEF Libere, Avance, Dehors
  <2>2. CASE ~_deja_en_vol(w) /\ Passe(w, "relu")
    BY <1>3, <2>2 DEF Relire, Passe, Avance, Relit
  <2> QED
    BY <1>3, <2>1, <2>2 DEF Relire
<1>4. ASSUME NEW w \in Worker, NEW e \in {"remise", "sonde", "execute"},
             en_main[w] \in Job, Passe(w, e)
      PROVE  Bouge(w)
  BY <1>4 DEF Passe, Avance, Dehors
<1>5. ASSUME NEW w \in Worker, Libere(w) PROVE Bouge(w)
  BY <1>5 DEF Libere, Avance, Dehors
<1>6. ASSUME NEW w \in Worker, Commettre(w) PROVE Bouge(w)
  BY <1>4, <1>6 DEF Commettre, RequeteSensee
<1>7. ASSUME NEW w \in Worker, claim_next_job_api(w) PROVE Immobiles \/ Bouge(w)
  <2>1. CASE UNCHANGED requetes
    BY <2>1
  <2>2. ASSUME NEW j \in Job, UNCHANGED cle, en_main' = [en_main EXCEPT ![w] = j],
               etape' = [etape EXCEPT ![w] = "remise"]
        PROVE  Bouge(w)
    BY <2>2 DEF Avance, Dehors
  <2> QED
    BY <1>7, <2>1, <2>2 DEF claim_next_job_api
<1>8. ASSUME NEW w \in Worker, candidats_repli_abonnement(w) PROVE Bouge(w)
  BY <1>8 DEF candidats_repli_abonnement, Avance, Dehors
<1>9. ASSUME NEW w \in Worker, claim_fallback_job(w) PROVE Bouge(w)
  <2>1. en_main[w] \in Job
    BY <1>9 DEF claim_fallback_job, RequeteSensee
  <2>2. ASSUME NEW c \in _jointures_de_repli(en_main[w]), Repliable(en_main[w]),
               cle' = [cle EXCEPT ![w] = c], UNCHANGED en_main,
               etape' = [etape EXCEPT ![w] = "prise"]
        PROVE  Bouge(w)
    <3>1. c \in Repli
      BY <2>1, <2>2, OffresType
    <3>2. Prenable(en_main[w]) /\ ~Verrouillee(en_main[w]) /\ UNCHANGED lignes
      BY <1>9, <2>2 DEF claim_fallback_job, Repliable, Prenable
    <3> QED
      BY <2>1, <2>2, <3>1, <3>2 DEF Avance, Commence
  <2> QED
    BY <1>5, <1>9, <2>2 DEF claim_fallback_job
<1>10. ASSUME NEW w \in Worker, _avec_abonnement(w) PROVE Bouge(w)
  <2>1. en_main[w] \in Job
    BY <1>10 DEF _avec_abonnement, RequeteSensee
  <2> QED
    BY <1>4, <1>5, <1>10, <2>1 DEF _avec_abonnement
<1>11. ASSUME NEW w \in Worker, _avec_cle(w) PROVE Bouge(w)
  BY <1>4, <1>5, <1>11 DEF _avec_cle, RequeteSensee
<1>12. ASSUME NEW w \in Worker, _trancher_le_forfait(w) PROVE Bouge(w)
  BY <1>4, <1>5, <1>12 DEF _trancher_le_forfait, RequeteSensee
<1>13. ASSUME NEW w \in Worker, NEW ok \in BOOLEAN, complete_job(w, ok) PROVE Bouge(w)
  BY <1>5, <1>13 DEF complete_job
<1>14. ASSUME NEW w \in Worker, extend_job_lease(w) PROVE Immobiles
  BY <1>14 DEF extend_job_lease
<1>15. ASSUME NEW w \in Worker, Meurt(w) PROVE Bouge(w)
  BY <1>5, <1>15 DEF Meurt
<1>16. ASSUME NEW j \in Job, enqueue_job(j) \/ BailMeurt(j) PROVE Immobiles
  BY <1>16 DEF enqueue_job, BailMeurt
<1>17. ASSUME NEW s \in Personne,
              _valider_code(s) \/ _retirer(s) \/ PauseFinie(s) \/ PauseAncienne(s)
       PROVE  Immobiles
  BY <1>17 DEF _valider_code, _retirer, PauseFinie, PauseAncienne
<1>18. CASE UNCHANGED vars
  BY <1>18 DEF vars
<1> HIDE DEF Bouge, Immobiles
<1> QED
  BY <1>1, <1>2, <1>3, <1>6, <1>7, <1>8, <1>9, <1>10, <1>11, <1>12, <1>13, <1>14,
     <1>15, <1>16, <1>17, <1>18 DEF Next, Prise, Travail

-----------------------------------------------------------------------------
(* The inductive invariant. *)

\* Each request after a step: it moved, or it did not.
LEMMA ChaqueRequete ==
  ASSUME IInv, [Next]_vars, NEW w \in Worker
  PROVE  Reste(w) \/ Avance(w)
BY PasDesRequetes

\* A commit ends the transaction of the worker that makes it.
LEMMA CommisSort ==
  ASSUME TypeOK, NEW w \in Worker, Commettre(w)
  PROVE  etape[w] = "relu" /\ etape'[w] = "remise"
BY DEF TypeOK, Commettre, Passe

LEMMA IInvStep == IInv /\ [Next]_vars => IInv'
<1> SUFFICES ASSUME IInv, [Next]_vars PROVE IInv'
  OBVIOUS
<1> USE ForfaitAssumption
<1>1. TypeOK'
  BY TypeStep DEF IInv
<1>2. RequeteSensee'
  <2> SUFFICES ASSUME NEW w \in Worker
               PROVE  /\ etape'[w] # "libre" => en_main'[w] \in Job
                      /\ EnTransaction(w)' => cle'[w] \in Forfait \cup Repli
    BY DEF RequeteSensee
  <2>1. CASE Reste(w)
    BY <2>1 DEF Reste, IInv, RequeteSensee, EnTransaction
  <2>2. CASE Avance(w)
    BY <2>2 DEF Avance, Dehors, Commence, Attend, Relit, IInv, RequeteSensee,
                EnTransaction
  <2> QED
    BY <2>1, <2>2, ChaqueRequete
<1>3. BornesDesPrises'
  <2> SUFFICES ASSUME NEW j \in Job
               PROVE  /\ status'[j] = "absent" => attempts'[j] = 0
                      /\ status'[j] = "pending" => attempts'[j] < MaxAttempts[j]
                      /\ status'[j] = "claimed" => attempts'[j] \in 1 .. MaxAttempts[j]
    BY DEF BornesDesPrises
  <2>1. Pas(j) /\ attempts[j] \in Nat /\ MaxAttempts[j] \in Nat \ {0}
    BY PasDeChaque DEF IInv, TypeOK
  <2> QED
    BY <2>1 DEF IInv, BornesDesPrises, Pas, Repos, Entre, Sort, Revient, Servi, Prenable
<1>4. ASSUME NEW w \in Worker, EnTransaction(w), EnTransaction(w)',
             en_main'[w] = en_main[w]
      PROVE  Prenable(en_main[w])'
  <2> DEFINE j == en_main[w]
  <2>1. j \in Job /\ Prenable(j) /\ Verrouillee(j)
    BY <1>4 DEF IInv, RequeteSensee, EnTransaction, LigneTenue, Verrouillee
  <2>2. attempts[j] \in Nat /\ MaxAttempts[j] \in Nat
    BY <2>1 DEF IInv, TypeOK
  <2>3. Pas(j)
    BY <2>1, PasDeChaque
  <2>4. ASSUME NEW u \in Worker, Commettre(u), en_main[u] = j PROVE FALSE
    <3>1. EnTransaction(u) /\ etape'[u] = "remise"
      BY <2>4, CommisSort DEF IInv, EnTransaction
    <3>2. u = w
      BY <1>4, <2>4, <3>1 DEF IInv, LignesExclusives
    <3> QED
      BY <1>4, <3>1, <3>2 DEF EnTransaction
  <2>5. Repos(j)
    BY <2>1, <2>2, <2>3, <2>4 DEF Pas, Entre, Sort, Revient, Servi, Prenable
  <2> QED
    BY <1>4, <2>1, <2>5 DEF Repos, Prenable
<1>5. LigneTenue'
  <2> SUFFICES ASSUME NEW w \in Worker, EnTransaction(w)'
               PROVE  Prenable(en_main[w])'
    BY DEF LigneTenue
  <2>1. CASE Commence(w)
    BY <2>1 DEF Commence, Prenable
  <2>2. CASE Reste(w) \/ Attend(w) \/ Relit(w)
    BY <1>4, <2>2 DEF Reste, Attend, Relit, EnTransaction
  <2>3. ~Dehors(w)
    BY DEF Dehors, EnTransaction
  <2> QED
    BY <2>1, <2>2, <2>3, ChaqueRequete DEF Avance
<1>6. LignesExclusives'
  <2> SUFFICES ASSUME NEW v \in Worker, NEW w \in Worker, v # w,
                      EnTransaction(v)', EnTransaction(w)'
               PROVE  en_main'[v] # en_main'[w]
    BY DEF LignesExclusives
  <2>1. ASSUME NEW x \in Worker, NEW y \in Worker, x # y, Reste(x), Avance(y),
               EnTransaction(x)', EnTransaction(y)'
        PROVE  en_main'[x] # en_main'[y]
    <3>1. EnTransaction(x) /\ en_main'[x] = en_main[x]
      BY <2>1 DEF Reste, EnTransaction
    <3>2. CASE Commence(y)
      BY <3>1, <3>2 DEF Commence, Verrouillee
    <3>3. CASE Attend(y) \/ Relit(y)
      BY <2>1, <3>1, <3>3 DEF Attend, Relit, EnTransaction, IInv, LignesExclusives
    <3>4. ~Dehors(y)
      BY <2>1 DEF Dehors, EnTransaction
    <3> QED
      BY <2>1, <3>2, <3>3, <3>4 DEF Avance
  <2>2. CASE Reste(v) /\ Reste(w)
    BY <2>2 DEF Reste, EnTransaction, IInv, LignesExclusives
  <2> QED
    BY <2>1, <2>2, PasDesRequetes
<1>7. VerrousExclusifs'
  <2> SUFFICES ASSUME NEW v \in Worker, NEW w \in Worker, v # w,
                      etape'[v] \in {"verrou", "relu"}, etape'[w] \in {"verrou", "relu"}
               PROVE  Verrou(cle'[v]) # Verrou(cle'[w])
    BY DEF VerrousExclusifs, Verrou
  <2>1. ASSUME NEW x \in Worker, NEW y \in Worker, x # y, Reste(x), Avance(y),
               etape'[x] \in {"verrou", "relu"}, etape'[y] \in {"verrou", "relu"}
        PROVE  Verrou(cle'[x]) # Verrou(cle'[y])
    <3>1. etape[x] \in {"verrou", "relu"} /\ cle'[x] = cle[x]
      BY <2>1 DEF Reste
    <3>2. CASE Attend(y)
      BY <3>1, <3>2 DEF Attend, VerrouPris
    <3>3. CASE Relit(y)
      BY <2>1, <3>1, <3>3 DEF Relit, IInv, VerrousExclusifs
    <3>4. ~Dehors(y) /\ ~Commence(y)
      BY <2>1 DEF Dehors, Commence
    <3> QED
      BY <2>1, <3>2, <3>3, <3>4 DEF Avance
  <2>2. CASE Reste(v) /\ Reste(w)
    BY <2>2 DEF Reste, IInv, VerrousExclusifs
  <2> QED
    BY <2>1, <2>2, PasDesRequetes
<1> QED
  BY <1>1, <1>2, <1>3, <1>5, <1>6, <1>7 DEF IInv

THEOREM Inductive == Spec => []IInv
<1>1. Init => IInv
  BY InitIInv
<1>2. IInv /\ [Next]_vars => IInv'
  BY IInvStep
<1> QED
  BY <1>1, <1>2, PTL DEF Spec

\* Every row, every subscription and every request keeps its type, whatever the
\* takes, folds and disconnections (claim_next_job, claim_fallback_job).
THEOREM TypeCorrect == Spec => []TypeOK
<1>1. IInv => TypeOK
  BY DEF IInv
<1> QED
  BY <1>1, Inductive, PTL

-----------------------------------------------------------------------------
(* One job at a time per subscription. *)

\* A job served by a subscription after a step was served by it before, or has
\* just been committed by the holder of its lock.
LEMMA OrigineDuVol ==
  ASSUME IInv, [Next]_vars, ProlongeTardif = FALSE, NEW j \in Job,
         Vit(j)', famille'[j] = "abo"
  PROVE  \/ Vit(j) /\ famille[j] = "abo" /\ _FORFAIT_SQL(j)' = _FORFAIT_SQL(j)
         \/ \E w \in Worker : /\ Commettre(w) /\ en_main[w] = j /\ cle[w] \in Forfait
                              /\ _FORFAIT_SQL(j)' = cle[w][2]
<1> USE ForfaitAssumption
<1>1. Pas(j)
  BY PasDeChaque
<1>2. CASE Repos(j)
  BY <1>2 DEF Repos, Vit, _FORFAIT_SQL
<1>3. CASE Servi(j)
  <2>1. PICK w \in Worker : /\ Commettre(w) /\ en_main[w] = j
                            /\ famille'[j] = "abo" =>
                                 cle[w] \in Forfait /\ payeur'[j] = cle[w]
    BY <1>3 DEF Servi
  <2>2. cle[w] \in Forfait /\ payeur'[j] = cle[w] /\ cle[w] # NoForfait
    BY <2>1
  <2> QED
    BY <2>1, <2>2 DEF _FORFAIT_SQL
<1> QED
  BY <1>1, <1>2, <1>3 DEF Pas, Entre, Sort, Revient, Vit

\* Two commits are not made in one step.
LEMMA UnSeulCommet ==
  ASSUME IInv, NEW v \in Worker, NEW w \in Worker, Commettre(v), Commettre(w)
  PROVE  v = w
<1>1. etape[v] = "relu" /\ etape'[v] = "remise"
  BY CommisSort DEF IInv
<1> QED
  BY <1>1 DEF Commettre, Passe, IInv, TypeOK

LEMMA IVolStep ==
  ASSUME ProlongeTardif = FALSE
  PROVE  IInv /\ IVol /\ [Next]_vars => IVol'
<1> SUFFICES ASSUME IInv, IVol, [Next]_vars PROVE IVol'
  OBVIOUS
<1> USE ForfaitAssumption
<1>1. ReluVrai'
  <2> SUFFICES ASSUME NEW w \in Worker, etape'[w] = "relu", cle'[w] \in Forfait,
                      NEW k \in Job \ {en_main'[w]}, Vit(k)', famille'[k] = "abo",
                      _FORFAIT_SQL(k)' = cle'[w][2]
               PROVE  FALSE
    BY DEF ReluVrai, AutreForfaitEnVol
  <2>1. en_main'[w] = en_main[w] /\ cle'[w] = cle[w] /\ etape[w] \in {"verrou", "relu"}
    BY ChaqueRequete DEF Reste, Avance, Dehors, Commence, Attend, Relit
  <2>2. cle[w] \notin Repli
    BY <2>1 DEF Forfait, Repli
  <2>3. CASE Relit(w)
    <3>1. ~AutreForfaitEnVol(en_main[w], cle[w][2])
      BY <2>2, <2>3 DEF Relit, _deja_en_vol
    <3>2. Vit(k) /\ famille[k] = "abo" /\ _FORFAIT_SQL(k) = cle[w][2]
      BY <2>1, <2>3 DEF Relit, lignes, Vit, _FORFAIT_SQL
    <3> QED
      BY <2>1, <3>1, <3>2 DEF AutreForfaitEnVol
  <2>4. CASE Reste(w)
    <3>1. ~AutreForfaitEnVol(en_main[w], cle[w][2])
      BY <2>1, <2>4 DEF Reste, IVol, ReluVrai
    <3>2. ASSUME NEW u \in Worker, Commettre(u), cle[u] \in Forfait,
                 cle[u][2] = cle[w][2]
          PROVE  FALSE
      <4>1. etape[u] = "relu" /\ etape'[u] = "remise"
        BY <3>2, CommisSort DEF IInv
      <4>2. Verrou(cle[u]) = Verrou(cle[w])
        <5>1. cle[u] \notin Repli
          BY <3>2 DEF Forfait, Repli
        <5> QED
          BY <2>2, <3>2, <5>1 DEF Verrou
      <4>3. u = w
        BY <2>1, <4>1, <4>2 DEF IInv, VerrousExclusifs
      <4> QED
        BY <4>1, <4>3
    <3> QED
      BY ZenonT(40), <2>1, <3>1, <3>2, OrigineDuVol DEF AutreForfaitEnVol
  <2> QED
    BY <2>3, <2>4, ChaqueRequete DEF Avance, Dehors, Commence, Attend
<1>2. UnSeulParAbonnement'
  <2> SUFFICES ASSUME NEW j \in Job, NEW k \in Job, j # k,
                      Vit(j)', famille'[j] = "abo", Vit(k)', famille'[k] = "abo",
                      _FORFAIT_SQL(j)' = _FORFAIT_SQL(k)'
               PROVE  FALSE
    BY DEF UnSeulParAbonnement, Vit, _FORFAIT_SQL
  <2> DEFINE Ancien(i) == /\ Vit(i) /\ famille[i] = "abo"
                          /\ _FORFAIT_SQL(i)' = _FORFAIT_SQL(i)
             Neuf(i, w) == /\ Commettre(w) /\ en_main[w] = i /\ cle[w] \in Forfait
                           /\ _FORFAIT_SQL(i)' = cle[w][2]
  <2>1. Ancien(j) \/ \E w \in Worker : Neuf(j, w)
    BY OrigineDuVol
  <2>2. Ancien(k) \/ \E w \in Worker : Neuf(k, w)
    BY OrigineDuVol
  <2>3. CASE Ancien(j) /\ Ancien(k)
    BY <2>3 DEF IVol, UnSeulParAbonnement
  <2>4. ASSUME NEW x \in Job, NEW y \in Job, x # y, Ancien(x),
               NEW w \in Worker, Neuf(y, w), _FORFAIT_SQL(x)' = _FORFAIT_SQL(y)'
        PROVE  FALSE
    <3>1. ~AutreForfaitEnVol(y, cle[w][2])
      BY <2>4, CommisSort DEF IVol, ReluVrai, IInv
    <3> QED
      BY <2>4, <3>1 DEF AutreForfaitEnVol
  <2>5. ASSUME NEW v \in Worker, Neuf(j, v), NEW w \in Worker, Neuf(k, w)
        PROVE  FALSE
    BY <2>5, UnSeulCommet
  <2> QED
    BY <2>1, <2>2, <2>3, <2>4, <2>5
<1> QED
  BY <1>1, <1>2 DEF IVol

\* Two jobs are never in flight on one subscription, whatever the paths that led
\* them to it, provided that no heartbeat revives a dead lease
\* (_fragments_abonnement, _deja_en_vol).
THEOREM OneJobPerSubscription ==
  ASSUME ProlongeTardif = FALSE
  PROVE  Spec => []UnSeulParAbonnement
<1>1. Init => IVol
  BY InitIInv
<1>2. IInv /\ IVol /\ [Next]_vars => IVol'
  BY IVolStep
<1>3. IVol => UnSeulParAbonnement
  BY DEF IVol
<1> QED
  BY <1>1, <1>2, <1>3, Inductive, PTL DEF Spec

-----------------------------------------------------------------------------
(* One fold per pause. *)

\* A job is of the API family exactly while it is folded.
RepliOuAbonnement == \A j \in Job : famille[j] = "abo" <=> repli[j] = NoForfait

\* What a fold has read again under the lock is still true.
RepliRelu ==
  \A w \in Worker : etape[w] = "relu" /\ cle[w] \in Repli
                      => ~_REPLI_EN_VOL(en_main[w], cle[w])

IRepli == RepliOuAbonnement /\ RepliRelu /\ UnSeulRepliParForfait

\* A folded job is not taken again: its lease may end, it stays where it is.
PasRepris == \A j \in Job : repli[j] # NoForfait => attempts'[j] <= attempts[j]

LEMMA InitIRepli == Init => IRepli
BY ForfaitAssumption
   DEF Init, IRepli, RepliOuAbonnement, RepliRelu, UnSeulRepliParForfait, Vit

\* What a step does to the fold of one job: nothing, a commit, or the job is
\* unfolded.
Plie(j, w) == /\ Commettre(w) /\ en_main[w] = j /\ cle[w] \in Repli
              /\ repli'[j] = cle[w] /\ famille'[j] = "api"

PasDuRepli(j) == \/ repli'[j] = repli[j] /\ famille'[j] = famille[j]
                 \/ \E w \in Worker : Plie(j, w)
                 \/ repli'[j] = NoForfait /\ famille'[j] = "abo"

LEMMA RepliDeChaque ==
  ASSUME IInv, [Next]_vars, NEW j \in Job
  PROVE  PasDuRepli(j)
<1> USE DEF IInv, TypeOK, lignes
<1>1. ASSUME UNCHANGED <<famille, repli>> PROVE PasDuRepli(j)
  BY <1>1 DEF PasDuRepli
<1>2. ASSUME NEW w \in Worker, Commettre(w) PROVE PasDuRepli(j)
  <2>1. CASE cle[w] \in Repli /\ j = en_main[w]
    BY <1>2, <2>1 DEF Commettre, PasDuRepli, Plie
  <2>2. CASE cle[w] \in Repli /\ j # en_main[w]
    BY <1>2, <2>2 DEF Commettre, PasDuRepli
  <2>3. CASE cle[w] \notin Repli
    BY <1>1, <1>2, <2>3 DEF Commettre
  <2> QED
    BY <2>1, <2>2, <2>3
<1>3. ASSUME NEW w \in Worker, Prise(w), ~Commettre(w) PROVE PasDuRepli(j)
  BY <1>1, <1>3 DEF Prise, claim_next_job, claim_next_job_api,
     candidats_repli_abonnement, claim_fallback_job, Verrouiller, Relire
<1>4. ASSUME NEW w \in Worker, _avec_cle(w) PROVE PasDuRepli(j)
  <2>1. \/ UNCHANGED <<famille, repli>>
        \/ /\ famille' = [famille EXCEPT ![en_main[w]] = "abo"]
           /\ repli' = [repli EXCEPT ![en_main[w]] = NoForfait]
    BY <1>4 DEF _avec_cle
  <2> QED
    BY <2>1 DEF PasDuRepli
<1>5. ASSUME NEW w \in Worker, Travail(w), ~_avec_cle(w) PROVE PasDuRepli(j)
  BY <1>1, <1>5 DEF Travail, _avec_abonnement, _trancher_le_forfait, complete_job,
     extend_job_lease
<1>6. ASSUME NEW w \in Worker, Meurt(w) PROVE PasDuRepli(j)
  BY <1>1, <1>6 DEF Meurt
<1>7. ASSUME NEW k \in Job, enqueue_job(k) \/ BailMeurt(k) PROVE PasDuRepli(j)
  BY <1>1, <1>7 DEF enqueue_job, BailMeurt
<1>8. ASSUME NEW s \in Personne,
             _valider_code(s) \/ _retirer(s) \/ PauseFinie(s) \/ PauseAncienne(s)
      PROVE  PasDuRepli(j)
  BY <1>1, <1>8 DEF _valider_code, _retirer, PauseFinie, PauseAncienne
<1>9. CASE UNCHANGED vars
  BY <1>1, <1>9 DEF vars
<1> QED
  BY <1>2, <1>3, <1>4, <1>5, <1>6, <1>7, <1>8, <1>9 DEF Next

\* A fold in flight after a step was in flight before it, or has just been
\* committed by the holder of its lock.
LEMMA OrigineDuRepli ==
  ASSUME ProlongeTardif = FALSE, NEW j \in Job, IInv, [Next]_vars, RepliOuAbonnement,
         PasRepris, Vit(j)', repli'[j] # NoForfait
  PROVE  \/ Vit(j) /\ repli[j] = repli'[j]
         \/ \E w \in Worker : Plie(j, w)
<1> USE ForfaitAssumption
<1>1. Pas(j) /\ PasDuRepli(j)
  BY PasDeChaque, RepliDeChaque
<1>2. SUFFICES ASSUME repli'[j] = repli[j], famille'[j] = famille[j] PROVE Vit(j)
  BY <1>1 DEF PasDuRepli
<1>3. famille'[j] # "abo" /\ attempts'[j] <= attempts[j] /\ attempts[j] \in Nat
  BY <1>2 DEF RepliOuAbonnement, PasRepris, IInv, TypeOK
<1>4. ~Servi(j)
  BY <1>3 DEF Servi
<1> QED
  BY <1>1, <1>4 DEF Pas, Repos, Entre, Sort, Revient, Vit

LEMMA IRepliStep ==
  ASSUME ProlongeTardif = FALSE
  PROVE  IInv /\ IRepli /\ PasRepris /\ [Next]_vars => IRepli'
<1> SUFFICES ASSUME IInv, IRepli, PasRepris, [Next]_vars PROVE IRepli'
  OBVIOUS
<1> USE ForfaitAssumption
<1>0. NoForfait \notin Repli
  OBVIOUS
<1>1. RepliOuAbonnement'
  <2> SUFFICES ASSUME NEW j \in Job PROVE famille'[j] = "abo" <=> repli'[j] = NoForfait
    BY DEF RepliOuAbonnement
  <2> QED
    BY <1>0, RepliDeChaque DEF PasDuRepli, Plie, IRepli, RepliOuAbonnement
<1>2. RepliRelu'
  <2> SUFFICES ASSUME NEW w \in Worker, etape'[w] = "relu", cle'[w] \in Repli,
                      NEW k \in Job \ {en_main'[w]}, Vit(k)', repli'[k] = cle'[w]
               PROVE  FALSE
    BY DEF RepliRelu, _REPLI_EN_VOL
  <2>1. en_main'[w] = en_main[w] /\ cle'[w] = cle[w] /\ etape[w] \in {"verrou", "relu"}
    BY ChaqueRequete DEF Reste, Avance, Dehors, Commence, Attend, Relit
  <2>2. CASE Relit(w)
    <3>1. ~_REPLI_EN_VOL(en_main[w], cle[w]) /\ Vit(k) /\ repli[k] = cle[w]
      BY <2>1, <2>2 DEF Relit, _deja_en_vol, lignes, Vit
    <3> QED
      BY <2>1, <3>1 DEF _REPLI_EN_VOL
  <2>3. CASE Reste(w)
    <3>1. ~_REPLI_EN_VOL(en_main[w], cle[w])
      BY <2>1, <2>3 DEF Reste, IRepli, RepliRelu
    <3>2. ASSUME NEW u \in Worker, Plie(k, u) PROVE FALSE
      <4>1. etape[u] = "relu" /\ etape'[u] = "remise" /\ Verrou(cle[u]) = Verrou(cle[w])
        BY <2>1, <3>2, CommisSort DEF IInv, Plie
      <4>2. u = w
        BY <2>1, <4>1 DEF IInv, VerrousExclusifs
      <4> QED
        BY <4>1, <4>2
    <3>3. Vit(k) /\ repli[k] = repli'[k]
      BY <1>0, <3>2, OrigineDuRepli DEF IRepli
    <3> QED
      BY <2>1, <3>1, <3>3 DEF _REPLI_EN_VOL
  <2> QED
    BY <2>2, <2>3, ChaqueRequete DEF Avance, Dehors, Commence, Attend
<1>3. UnSeulRepliParForfait'
  <2> SUFFICES ASSUME NEW j \in Job, NEW k \in Job, j # k, Vit(j)', Vit(k)',
                      repli'[j] # NoForfait, repli'[j] = repli'[k]
               PROVE  FALSE
    BY DEF UnSeulRepliParForfait, Vit
  <2> DEFINE Ancien(i) == Vit(i) /\ repli[i] = repli'[i]
  <2>1. Ancien(j) \/ \E w \in Worker : Plie(j, w)
    BY OrigineDuRepli DEF IRepli
  <2>2. Ancien(k) \/ \E w \in Worker : Plie(k, w)
    BY OrigineDuRepli DEF IRepli
  <2>3. CASE Ancien(j) /\ Ancien(k)
    BY <2>3 DEF IRepli, UnSeulRepliParForfait
  <2>4. ASSUME NEW x \in Job, NEW y \in Job, x # y, Ancien(x), repli'[x] = repli'[y],
               NEW w \in Worker, Plie(y, w)
        PROVE  FALSE
    <3>1. ~_REPLI_EN_VOL(y, cle[w])
      BY <2>4, CommisSort DEF Plie, IRepli, RepliRelu, IInv
    <3> QED
      BY <2>4, <3>1 DEF Plie, _REPLI_EN_VOL
  <2>5. ASSUME NEW v \in Worker, Plie(j, v), NEW w \in Worker, Plie(k, w)
        PROVE  FALSE
    BY <2>5, UnSeulCommet DEF Plie
  <2> QED
    BY <2>1, <2>2, <2>3, <2>4, <2>5
<1> QED
  BY <1>1, <1>2, <1>3 DEF IRepli

\* Two folds of one pause are never in flight together in a behaviour where no
\* folded job is taken again, and no heartbeat revives a dead lease
\* (claim_fallback_job).
THEOREM OneFoldUnlessRetaken ==
  ASSUME ProlongeTardif = FALSE
  PROVE  Spec /\ [][PasRepris]_vars => []UnSeulRepliParForfait
<1>1. Init => IRepli
  BY InitIRepli
<1>2. IInv /\ IRepli /\ [Next]_vars /\ [PasRepris]_vars => IRepli'
  <2>1. CASE UNCHANGED vars
    BY <2>1, ForfaitAssumption DEF vars, IRepli, RepliOuAbonnement, RepliRelu,
       UnSeulRepliParForfait, _REPLI_EN_VOL, Vit
  <2>2. CASE PasRepris
    BY <2>2, IRepliStep
  <2> QED
    BY <2>1, <2>2
<1>3. IRepli => UnSeulRepliParForfait
  BY DEF IRepli
<1> QED
  BY <1>1, <1>2, <1>3, Inductive, PTL DEF Spec

\* When every job is taken once at most, a folded job is handed back only
\* unfolded: what a request holds under a subscription was not folded.
RepliPris == \A j \in Job : repli[j] # NoForfait => status[j] \notin {"absent", "pending"}
TenuSousForfait ==
  \A w \in Worker : /\ etape[w] = "sonde" => cle[w] \in Forfait
                    /\ /\ etape[w] \in {"remise", "sonde"} /\ cle[w] \in Forfait
                       /\ Tient(w)
                       => repli[en_main[w]] = NoForfait
IUne == RepliPris /\ TenuSousForfait

\* A folded job of one take is offered to nobody any more.
LEMMA FoldedNotOffered ==
  ASSUME \A j \in Job : MaxAttempts[j] = 1
  PROVE  \A j \in Job : IInv /\ RepliPris /\ Prenable(j) => repli[j] = NoForfait
BY DEF RepliPris, IInv, TypeOK, BornesDesPrises, Prenable

\* A worker comes to its handover by a take of its own.
LEMMA ArriveeDeChaque ==
  ASSUME NEW w \in Worker, IInv, [Next]_vars, etape'[w] \in {"remise", "sonde"}
  PROVE  \/ Reste(w)
         \/ Commettre(w) /\ etape'[w] = "remise"
         \/ /\ etape'[w] = "remise" /\ en_main'[w] \in Job
            /\ Prenable(en_main'[w]) /\ famille[en_main'[w]] = "api"
            /\ UNCHANGED repli
         \/ /\ etape[w] = "remise" /\ cle[w] \in Forfait
            /\ en_main'[w] = en_main[w] /\ cle'[w] = cle[w] /\ UNCHANGED lignes
<1> DEFINE Arrive == \/ Reste(w)
                     \/ Commettre(w) /\ etape'[w] = "remise"
                     \/ /\ etape'[w] = "remise" /\ en_main'[w] \in Job
                        /\ Prenable(en_main'[w]) /\ famille[en_main'[w]] = "api"
                        /\ UNCHANGED repli
                     \/ /\ etape[w] = "remise" /\ cle[w] \in Forfait
                        /\ en_main'[w] = en_main[w] /\ cle'[w] = cle[w]
                        /\ UNCHANGED lignes
<1> USE DEF IInv, TypeOK, lignes, gens, requetes, Reste, Passe, Libere
<1>1. ASSUME NEW u \in Worker, Commettre(u) PROVE Arrive
  BY <1>1 DEF Commettre
<1>2. ASSUME NEW u \in Worker, claim_next_job_api(u) PROVE Arrive
  BY <1>2 DEF claim_next_job_api
<1>3. ASSUME NEW u \in Worker, Prise(u), ~Commettre(u), ~claim_next_job_api(u)
      PROVE  Arrive
  BY <1>3 DEF Prise, claim_next_job, candidats_repli_abonnement, claim_fallback_job,
     Verrouiller, Relire
<1>4. ASSUME NEW u \in Worker, _avec_abonnement(u) PROVE Arrive
  BY <1>4 DEF _avec_abonnement, Rien
<1>5. ASSUME NEW u \in Worker, Travail(u), ~_avec_abonnement(u) PROVE Arrive
  BY <1>5 DEF Travail, _avec_cle, _trancher_le_forfait, complete_job, extend_job_lease
<1>6. ASSUME NEW u \in Worker, Meurt(u) PROVE Arrive
  BY <1>6 DEF Meurt
<1>7. ASSUME NEW k \in Job, enqueue_job(k) \/ BailMeurt(k) PROVE Arrive
  BY <1>7 DEF enqueue_job, BailMeurt
<1>8. ASSUME NEW s \in Personne,
             _valider_code(s) \/ _retirer(s) \/ PauseFinie(s) \/ PauseAncienne(s)
      PROVE  Arrive
  BY <1>8 DEF _valider_code, _retirer, PauseFinie, PauseAncienne
<1>9. ASSUME UNCHANGED vars PROVE Arrive
  BY <1>9 DEF vars
<1> HIDE DEF Arrive
<1>10. ASSUME NEW u \in Worker, Prise(u) \/ Travail(u) \/ Meurt(u) PROVE Arrive
  BY <1>1, <1>2, <1>3, <1>4, <1>5, <1>6, <1>10
<1>11. Arrive
  BY ONLY [Next]_vars, <1>7, <1>8, <1>9, <1>10 DEF Next
<1> QED
  BY <1>11 DEF Arrive

\* A job that a waiting request holds after a step, it held before.
LEMMA TenueDeChaque ==
  ASSUME NEW w \in Worker, IInv, [Next]_vars, Reste(w), en_main[w] \in Job, Tient(w)'
  PROVE  Tient(w)
<1> USE ForfaitAssumption DEF IInv, TypeOK, lignes, gens, requetes, Reste, Tient
<1>1. CASE UNCHANGED <<status, claimed_by>>
  BY <1>1
<1>2. ASSUME NEW u \in Worker, NEW j \in Job, NEW m, Pris(u, j, m), etape'[u] # etape[u],
             m \in [Job -> {"absent", "pending", "claimed", "done", "failed"}],
             \A k \in Job : m[k] = "claimed" => status[k] = "claimed"
      PROVE  Tient(w)
  <2>1. u # w
    BY <1>2
  <2> QED
    BY <1>2, <2>1 DEF Pris
<1>3. \A k \in Job : Menage[k] = "claimed" => status[k] = "claimed"
  BY DEF Menage, Epave
<1>4. ASSUME NEW u \in Worker, Prise(u) PROVE Tient(w)
  <2>1. CASE Commettre(u)
    <3>1. etape[u] # etape'[u]
      BY <2>1, CommisSort
    <3> QED
      BY <1>2, <2>1, <3>1 DEF Commettre, RequeteSensee
  <2>2. CASE claim_next_job_api(u)
    <3>1. CASE status' = Menage /\ UNCHANGED claimed_by
      BY <1>3, <3>1
    <3>2. ASSUME NEW j \in Job, Pris(u, j, Menage), etape' = [etape EXCEPT ![u] = "remise"]
          PROVE  Tient(w)
      <4>1. etape'[u] # etape[u]
        BY <2>2, <3>2 DEF claim_next_job_api
      <4> QED
        BY <1>2, <1>3, <3>2, <4>1, MenageType
    <3> QED
      BY <2>2, <3>1, <3>2 DEF claim_next_job_api
  <2>3. CASE claim_next_job(u)
    BY <1>3, <2>3 DEF claim_next_job
  <2> QED
    BY <1>1, <1>4, <2>1, <2>2, <2>3 DEF Prise, candidats_repli_abonnement,
       claim_fallback_job, Verrouiller, Relire
<1>5. ASSUME NEW u \in Worker, Travail(u) PROVE Tient(w)
  <2>1. CASE Rien
    BY <1>1, <2>1 DEF Rien
  <2>2. CASE \E k : rendre_a_la_file(k)
    BY <2>2 DEF rendre_a_la_file, Relache
  <2>3. CASE \E k : arreter_definitivement(k)
    BY <2>3 DEF arreter_definitivement
  <2>4. ASSUME NEW k, NEW x \in {"done", "failed", "pending"},
               status' = [status EXCEPT ![k] = x], Relache(k) \/ UNCHANGED claimed_by
        PROVE  Tient(w)
    BY <2>4 DEF Relache
  <2>5. ASSUME NEW ok \in BOOLEAN, complete_job(u, ok) PROVE Tient(w)
    BY <2>1, <2>4, <2>5 DEF complete_job, ApresEchec
  <2> QED
    BY <1>1, <1>5, <2>1, <2>2, <2>3, <2>5 DEF Travail, _avec_abonnement, _avec_cle,
       _trancher_le_forfait, extend_job_lease
<1>6. ASSUME NEW u \in Worker, Meurt(u) PROVE Tient(w)
  BY <1>1, <1>6 DEF Meurt
<1>7. ASSUME NEW k \in Job, enqueue_job(k) \/ BailMeurt(k) PROVE Tient(w)
  BY <1>7 DEF enqueue_job, BailMeurt
<1>8. ASSUME NEW s \in Personne,
             _valider_code(s) \/ _retirer(s) \/ PauseFinie(s) \/ PauseAncienne(s)
      PROVE  Tient(w)
  BY <1>1, <1>8 DEF _valider_code, _retirer, PauseFinie, PauseAncienne
<1>9. CASE UNCHANGED vars
  BY <1>1, <1>9 DEF vars
<1> QED
  BY <1>4, <1>5, <1>6, <1>7, <1>8, <1>9 DEF Next

\* A job that was claimed and is pending after a step was handed back by a
\* request that held it, or had its last take refused.
LEMMA RetourDeChaque ==
  ASSUME NEW j \in Job, IInv, [Next]_vars, status[j] # "pending", status[j] # "absent",
         status'[j] = "pending"
  PROVE  \/ repli'[j] = NoForfait
         \/ attempts[j] < MaxAttempts[j]
         \/ \E w \in Worker : /\ etape[w] = "sonde" \/ (etape[w] = "remise" /\ cle[w] \in Forfait)
                              /\ Tient(w) /\ en_main[w] = j
<1> DEFINE Retour == \/ repli'[j] = NoForfait
                     \/ attempts[j] < MaxAttempts[j]
                     \/ \E w \in Worker :
                          /\ etape[w] = "sonde" \/ (etape[w] = "remise" /\ cle[w] \in Forfait)
                          /\ Tient(w) /\ en_main[w] = j
<1> USE ForfaitAssumption DEF IInv, TypeOK, lignes, gens
<1>1. Menage[j] # "pending"
  BY DEF Menage
<1>2. ASSUME NEW u \in Worker, Prise(u) PROVE FALSE
  BY <1>1, <1>2, MenageType DEF Prise, claim_next_job, claim_next_job_api, Pris, Commettre,
     candidats_repli_abonnement, claim_fallback_job, Verrouiller, Relire
<1>3. ASSUME NEW u \in Worker, Travail(u) PROVE Retour
  <2>1. CASE Rien
    BY <2>1 DEF Rien
  <2>2. ASSUME NEW k, rendre_a_la_file(k) PROVE k = j
    BY <2>2 DEF rendre_a_la_file
  <2>3. CASE _avec_abonnement(u)
    BY <2>1, <2>2, <2>3 DEF _avec_abonnement, arreter_definitivement
  <2>4. CASE _avec_cle(u)
    BY <2>1, <2>2, <2>4 DEF _avec_cle
  <2>5. CASE _trancher_le_forfait(u)
    BY <2>1, <2>2, <2>5 DEF _trancher_le_forfait
  <2>6. ASSUME NEW ok \in BOOLEAN, complete_job(u, ok) PROVE Retour
    <3>1. CASE status' = [status EXCEPT ![en_main[u]] = "done"]
      BY <3>1
    <3>2. CASE status' = [status EXCEPT ![en_main[u]] = ApresEchec(en_main[u])]
      BY <3>2 DEF ApresEchec
    <3> QED
      BY <2>1, <2>6, <3>1, <3>2 DEF complete_job
  <2>7. CASE extend_job_lease(u)
    BY <2>7 DEF extend_job_lease
  <2> QED
    BY <1>3, <2>3, <2>4, <2>5, <2>6, <2>7 DEF Travail
<1>4. ASSUME NEW u \in Worker, Meurt(u) PROVE FALSE
  BY <1>4 DEF Meurt
<1>5. ASSUME NEW k \in Job, enqueue_job(k) \/ BailMeurt(k) PROVE FALSE
  BY <1>5 DEF enqueue_job, BailMeurt
<1>6. ASSUME NEW s \in Personne,
             _valider_code(s) \/ _retirer(s) \/ PauseFinie(s) \/ PauseAncienne(s)
      PROVE  FALSE
  BY <1>6 DEF _valider_code, _retirer, PauseFinie, PauseAncienne
<1>7. ~UNCHANGED vars
  BY DEF vars
<1> HIDE DEF Retour
<1>8. Retour
  BY <1>2, <1>3, <1>4, <1>5, <1>6, <1>7 DEF Next
<1> QED
  BY <1>8 DEF Retour

LEMMA IUneStep ==
  ASSUME \A j \in Job : MaxAttempts[j] = 1
  PROVE  IInv /\ RepliOuAbonnement /\ IUne /\ [Next]_vars => IUne' /\ PasRepris
<1> SUFFICES ASSUME IInv, RepliOuAbonnement, IUne, [Next]_vars PROVE IUne' /\ PasRepris
  OBVIOUS
<1> USE ForfaitAssumption
<1>1. \A j \in Job : Prenable(j) => repli[j] = NoForfait
  BY FoldedNotOffered DEF IUne
<1>2. PasRepris
  <2> SUFFICES ASSUME NEW j \in Job, repli[j] # NoForfait PROVE attempts'[j] <= attempts[j]
    BY DEF PasRepris
  <2>1. Pas(j) /\ ~Servi(j) /\ attempts[j] \in Nat
    BY <1>1, PasDeChaque DEF Servi, IInv, TypeOK
  <2> QED
    BY <2>1 DEF Pas, Repos, Entre, Sort, Revient
<1>3. RepliPris'
  <2> SUFFICES ASSUME NEW j \in Job, repli'[j] # NoForfait
               PROVE  status'[j] \notin {"absent", "pending"}
    BY DEF RepliPris
  <2>1. Pas(j) /\ PasDuRepli(j)
    BY PasDeChaque, RepliDeChaque
  <2>2. CASE \E w \in Worker : Plie(j, w)
    BY <2>2 DEF Plie, Commettre, Pris, IInv, TypeOK
  <2>3. CASE repli'[j] = repli[j]
    <3>1. status[j] \notin {"absent", "pending"}
      BY <2>3 DEF IUne, RepliPris
    <3>2. status'[j] # "absent"
      BY <2>1, <3>1 DEF Pas, Repos, Entre, Sort, Revient, Servi
    <3>3. status'[j] # "pending"
      <4> SUFFICES ASSUME status'[j] = "pending" PROVE FALSE
        OBVIOUS
      <4>1. status[j] = "claimed" /\ ~(attempts[j] < MaxAttempts[j])
        <5>1. status[j] = "claimed"
          BY <2>1, <3>1 DEF Pas, Repos, Entre, Sort, Revient, Servi
        <5> QED
          BY <5>1 DEF IInv, BornesDesPrises
      <4>2. PICK w \in Worker :
              /\ etape[w] = "sonde" \/ (etape[w] = "remise" /\ cle[w] \in Forfait)
              /\ Tient(w) /\ en_main[w] = j
        BY <3>1, <4>1, RetourDeChaque
      <4> QED
        BY <2>3, <4>2 DEF IUne, TenuSousForfait
    <3> QED
      BY <3>2, <3>3
  <2> QED
    BY <2>1, <2>2, <2>3 DEF PasDuRepli
<1>4. TenuSousForfait'
  <2> SUFFICES ASSUME NEW w \in Worker, etape'[w] \in {"remise", "sonde"}
               PROVE  /\ etape'[w] = "sonde" => cle'[w] \in Forfait
                      /\ cle'[w] \in Forfait /\ Tient(w)' => repli'[en_main'[w]] = NoForfait
    BY DEF TenuSousForfait, Tient
  <2>1. CASE Reste(w)
    <3>1. en_main[w] \in Job /\ etape[w] \in {"remise", "sonde"}
      BY <2>1 DEF Reste, IInv, RequeteSensee
    <3>2. ASSUME NEW u \in Worker, Plie(en_main[w], u), Tient(w)' PROVE FALSE
      <4>1. claimed_by'[en_main[w]] = u /\ etape[u] = "relu"
        BY <3>1, <3>2 DEF Plie, Commettre, Pris, IInv, TypeOK
      <4> QED
        BY <2>1, <3>1, <3>2, <4>1 DEF Tient, Reste
    <3>3. Tient(w)' => Tient(w)
      BY <2>1, <3>1, TenueDeChaque
    <3>4. PasDuRepli(en_main[w])
      BY <3>1, RepliDeChaque
    <3> QED
      BY <2>1, <3>1, <3>2, <3>3, <3>4 DEF PasDuRepli, Reste, IUne, TenuSousForfait
  <2>2. CASE Commettre(w) /\ etape'[w] = "remise"
    <3>1. en_main[w] \in Job /\ Prenable(en_main[w])
      BY <2>2 DEF Commettre, IInv, RequeteSensee, LigneTenue, EnTransaction
    <3>2. en_main'[w] = en_main[w] /\ cle'[w] = cle[w]
      BY <2>2 DEF Commettre, Passe
    <3>3. cle[w] \in Forfait => UNCHANGED repli
      BY <2>2 DEF Commettre, Forfait, Repli
    <3> QED
      BY <1>1, <2>2, <3>1, <3>2, <3>3
  <2>3. CASE /\ etape'[w] = "remise" /\ en_main'[w] \in Job
             /\ Prenable(en_main'[w]) /\ famille[en_main'[w]] = "api"
             /\ UNCHANGED repli
    BY <1>1, <2>3
  <2>4. CASE /\ etape[w] = "remise" /\ cle[w] \in Forfait
             /\ en_main'[w] = en_main[w] /\ cle'[w] = cle[w] /\ UNCHANGED lignes
    BY <2>4 DEF lignes, Tient, IUne, TenuSousForfait
  <2> QED
    BY <2>1, <2>2, <2>3, <2>4, ArriveeDeChaque
<1> QED
  BY <1>2, <1>3, <1>4 DEF IUne

\* When every job is taken once at most, two folds of one pause are never in
\* flight together, on whatever paths and with whatever workers and loans
\* (claim_fallback_job, _deja_en_vol).
THEOREM OneFoldPerPause ==
  ASSUME ProlongeTardif = FALSE, \A j \in Job : MaxAttempts[j] = 1
  PROVE  Spec => []UnSeulRepliParForfait
<1>1. Init => IRepli /\ IUne
  <2>1. Init => IUne
    BY DEF Init, IUne, RepliPris, TenuSousForfait
  <2> QED
    BY <2>1, InitIRepli
<1>2. IInv /\ IRepli /\ IUne /\ [Next]_vars => IRepli' /\ IUne'
  BY IRepliStep, IUneStep DEF IRepli
<1>3. IRepli => UnSeulRepliParForfait
  BY DEF IRepli
<1> QED
  BY <1>1, <1>2, <1>3, Inductive, PTL DEF Spec

-----------------------------------------------------------------------------
(* Refinement, and what a step may never do. *)

LEMMA InitRefines == Init => Cycle!Init
BY DEF Init, Cycle!Init

LEMMA StepRefines == IInv /\ [Next]_vars => [Cycle!Next]_(Cycle!vars)
<1> SUFFICES ASSUME IInv, [Next]_vars PROVE Cycle!Next
  OBVIOUS
<1>1. status' \in [Job -> Cycle!Status] /\ attempts' \in [Job -> Nat]
  <2>1. TypeOK'
    BY TypeStep DEF IInv
  <2> QED
    BY <2>1 DEF TypeOK, Cycle!Status, Cycle!Terminal
<1>2. ASSUME NEW j \in Job
      PROVE  \/ Cycle!Moves(j) \/ Cycle!Taken(j) \/ Cycle!Retried(j)
             \/ Cycle!HandedBack(j) \/ Cycle!Rests(j)
  <2>1. Pas(j)
    BY PasDeChaque
  <2>2. CASE Repos(j)
    BY <2>2 DEF Repos, Cycle!Rests
  <2>3. CASE Entre(j) \/ Sort(j)
    BY <2>3 DEF Entre, Sort, Cycle!Moves, Cycle!Follows
  <2>4. CASE Servi(j)
    BY <2>4 DEF Servi, Prenable, Cycle!Taken
  <2>5. CASE Revient(j)
    BY <2>5 DEF Revient, Cycle!Retried, Cycle!HandedBack
  <2> QED
    BY <2>1, <2>2, <2>3, <2>4, <2>5 DEF Pas
<1> QED
  BY <1>1, <1>2 DEF Cycle!Next

\* The row of a job goes through the same life cycle when its take is a
\* transaction of several statements, undone or not (claim_next_job).
THEOREM Refinement == Spec => CycleDeVie
<1> QED
  BY InitRefines, StepRefines, Inductive, PTL
     DEF Spec, CycleDeVie, Cycle!Spec

\* A fold is taken only while every subscription it gives up holds a pause: the
\* take reads the pause again, whatever its candidates were (claim_fallback_job).
THEOREM FoldsOnlyUnderPause == Spec => RepliSousPause
<1>1. IInv /\ [Next]_vars =>
        [\A w \in Worker : cle[w] = NoForfait /\ cle'[w] \in Repli =>
           \A s \in Personne : cle'[w] = <<"repli:sub", s>> \/ (/\ cle'[w][1] = "repli:org"
                                                              /\ <<s, cle'[w][2]>> \in prets)
                                => statut[s] = "paused_limit"]_vars
  <2> SUFFICES ASSUME IInv, [Next]_vars, NEW w \in Worker, NEW s \in Personne,
                      cle[w] = NoForfait, cle'[w] \in Repli,
                      \/ cle'[w] = <<"repli:sub", s>>
                      \/ cle'[w][1] = "repli:org" /\ <<s, cle'[w][2]>> \in prets
               PROVE  statut[s] = "paused_limit"
    OBVIOUS
  <2>1. NoForfait \notin Repli
    BY ForfaitAssumption
  <2>2. cle'[w] \notin Forfait
    BY DEF Forfait, Repli
  <2>3. Commence(w)
    BY <2>1, ChaqueRequete DEF Reste, Avance, Dehors, Attend, Relit
  <2>4. cle'[w] \in _jointures_de_repli(en_main'[w])
    BY <2>2, <2>3 DEF Commence
  <2>5. CASE sql_par_le_pool(en_main'[w], FALSE)
    <3>1. /\ cle'[w] = <<"repli:org", orgDe[en_main'[w]]>>
          /\ \A p \in Preteurs(en_main'[w]) : statut[p] = "paused_limit"
      BY <2>4, <2>5 DEF _jointures_de_repli
    <3> QED
      BY <3>1 DEF Preteurs
  <2>6. CASE ~sql_par_le_pool(en_main'[w], FALSE)
    <3>1. /\ cle'[w] = <<"repli:sub", demandeur[en_main'[w]]>>
          /\ statut[demandeur[en_main'[w]]] = "paused_limit"
      BY <2>4, <2>6 DEF _jointures_de_repli
    <3> QED
      BY <3>1
  <2> QED
    BY <2>5, <2>6
<1> QED
  BY <1>1, Inductive, PTL DEF Spec, RepliSousPause

\* What a worker observes never undoes a disconnection: only its author does
\* (marquer_statut with observe=True).
THEOREM DisconnectionHolds == Spec => DeconnexionTenue
<1>1. IInv /\ [Next]_vars =>
        [\A s \in Personne : statut[s] = "disconnected" /\ statut'[s] # "disconnected"
           => _valider_code(s)]_vars
  <2> SUFFICES ASSUME IInv, Next, NEW s \in Personne, statut[s] = "disconnected",
                      statut'[s] # "disconnected"
               PROVE  _valider_code(s)
    BY DEF vars
  <2> USE DEF lignes, gens, requetes
  <2>1. statut \in [Personne -> Etats \cup {"disconnected"}]
    BY DEF IInv, TypeOK
  <2>2. ASSUME NEW w \in Worker, Prise(w) \/ Meurt(w) PROVE FALSE
    BY <2>2 DEF Prise, claim_next_job, claim_next_job_api, candidats_repli_abonnement,
                claim_fallback_job, Verrouiller, Relire, Commettre, Meurt
  <2>3. ASSUME NEW w \in Worker, Travail(w) PROVE FALSE
    <3>1. CASE UNCHANGED statut
      BY <3>1
    <3>2. CASE \E p, vu : marquer_statut(p, vu)
      BY <2>1, <3>2 DEF marquer_statut
    <3> QED
      BY <2>3, <3>1, <3>2 DEF Travail, _avec_abonnement, _avec_cle,
           _trancher_le_forfait, complete_job, extend_job_lease
  <2>4. ASSUME NEW j \in Job, enqueue_job(j) \/ BailMeurt(j) PROVE FALSE
    BY <2>4 DEF enqueue_job, BailMeurt
  <2>5. ASSUME NEW p \in Personne, _retirer(p) \/ PauseFinie(p) \/ PauseAncienne(p)
        PROVE  FALSE
    BY <2>1, <2>5 DEF _retirer, PauseFinie, PauseAncienne
  <2>6. ASSUME NEW p \in Personne, _valider_code(p) PROVE p = s
    BY <2>1, <2>6 DEF _valider_code
  <2> QED
    BY <2>2, <2>3, <2>4, <2>5, <2>6 DEF Next
<1> QED
  BY <1>1, Inductive, PTL DEF Spec, DeconnexionTenue
=============================================================================
