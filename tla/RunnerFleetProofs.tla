--------------------------- MODULE RunnerFleetProofs ---------------------------
(***************************************************************************)
(* Proofs about RunnerFleet, for any fleets, workers, requests,            *)
(* orchestrators and bounds.                                               *)
(*                                                                         *)
(* The two bounds of a fleet are not inductive: a poll adds its job at the *)
(* commit, long after it counted.  What carries them from the count to the *)
(* commit is the lock: an INSERT in progress leaves room for its job       *)
(* (Place), because nobody else holds the lock of its fleet                *)
(* (VerrouExclusif) and no other step makes a produced job appear          *)
(* (PasDesTravaux).                                                        *)
(*                                                                         *)
(* The failures of a fleet are bounded in every series at once             *)
(* (SeriesBornees): for each job s from which the fleet has only failed,   *)
(* the jobs its polls produced since s, and the polls that are late, whose *)
(* reading of the failures is behind them, do not exceed the bound         *)
(* together.  A poll that inserts stops being late, a poll that looks does *)
(* not become late (TardifsReste), and an arming makes every poll late at  *)
(* most once.                                                              *)
(*                                                                         *)
(* The refinement of FleetLifecycle rests on what a poll read and writes   *)
(* later.  Failures and rows produced are never taken back, so a fleet     *)
(* read as failing or as finished still is at the write (Lectures), and    *)
(* the status is looked at again (EcritAvance); a job is new, and within   *)
(* the bounds, at the commit of its INSERT (Place), and a fleet somebody   *)
(* produces for or holds has been launched (Lancees).                      *)
(***************************************************************************)
EXTENDS RunnerFleet, SumTheorems

EnVerrou == {"choisi", "verrou", "insere"}

\* Two polls never hold the lock of one fleet.
VerrouExclusif ==
  \A v, w \in Worker : /\ etape[v] \in EnVerrou /\ etape[w] \in EnVerrou
                       /\ vise[v] = vise[w]
                       => v = w

\* The job of an INSERT not yet committed is its own, and of the fleet it is for;
\* a row the sequence has not given belongs to no request.
InsertionsSensees ==
  /\ \A w \in Worker : etape[w] = "insere" =>
       /\ travail[insere[w]] = "insere" /\ flotte[insere[w]] = vise[w]
       /\ voie[insere[w]] = "produit"
  /\ \A v, w \in Worker : etape[v] = "insere" /\ etape[w] = "insere"
                          /\ insere[v] = insere[w] => v = w
  /\ \A j \in Job : travail[j] = "absent" => voie[j] = "produit"

\* The fleet whose row a request holds can be stopped.
GardeSert == \A a \in Appelant : garde[a] # NoFleet => status[garde[a]] \in Servent

Socle == TypeOK /\ VerrouExclusif /\ InsertionsSensees

\* The jobs that polls produced for f and that are in flight, and the room an
\* INSERT in progress leaves.
VolDesSondages(f) == {j \in EnVol(f) : voie[j] = "produit"}
Insertion(f) == \E w \in Worker : etape[w] = "insere" /\ vise[w] = f
Place == \A f \in Fleet : Insertion(f) =>
           /\ Cardinality(DesSondages(f)) < max_rows[f]
           /\ Cardinality(VolDesSondages(f)) < workers[f]

USE DEF Servent, Etapes

-----------------------------------------------------------------------------
(* The steps of a poll, seen from its own state. *)

\* A poll moves alone, and enters a lock only when nobody holds it.
LEMMA PasDuSondage ==
  ASSUME TypeOK, NEW w \in Worker, _produire_pour_une_campagne(w) \/ Tombe(w)
  PROVE  \E e \in Etapes :
           /\ etape' = [etape EXCEPT ![w] = e]
           /\ \A v \in Worker \ {w} : vise'[v] = vise[v] /\ insere'[v] = insere[v]
           /\ e \in EnVerrou => \/ etape[w] \in EnVerrou /\ vise'[w] = vise[w]
                                \/ ~Verrouillee(vise'[w])
           /\ e = "insere" => etape[w] = "verrou" /\ Insere(w)
<1> USE DEF TypeOK, EnVerrou
<1>1. CASE une_campagne_vit(w)
  BY <1>1 DEF une_campagne_vit, Vers
<1>2. CASE arreter_campagnes_epuisees(w)
  BY <1>2 DEF arreter_campagnes_epuisees, Lit, Ecrit, Vers
<1>3. CASE accuser_arrets_effectifs(w)
  BY <1>3 DEF accuser_arrets_effectifs, Lit, Ecrit, Vers
<1>4. CASE clore_campagnes_terminees(w)
  BY <1>4 DEF clore_campagnes_terminees, Lit, Ecrit, Vers
<1>5. CASE campagne_a_servir(w)
  BY <1>5 DEF campagne_a_servir, Lit, Candidates, Vers, Rentre
<1>6. CASE Verrouille(w)
  BY <1>6 DEF Verrouille, Vers, Rentre
<1>7. CASE Insere(w)
  BY <1>7 DEF Insere, Vers, Rentre
<1>8. CASE Valide(w)
  BY <1>8 DEF Valide, Vers
<1>9. CASE marquer_demarree(w)
  BY <1>9 DEF marquer_demarree, Vers, Rentre
<1>10. CASE Tombe(w)
  BY <1>10 DEF Tombe, Vers, Rentre
<1> QED
  BY <1>1, <1>2, <1>3, <1>4, <1>5, <1>6, <1>7, <1>8, <1>9, <1>10
     DEF _produire_pour_une_campagne, _poser_si_servable

-----------------------------------------------------------------------------
(* Types. *)

LEMMA InitSocle == Init => Socle /\ GardeSert /\ Place /\ PreneurDuPassage
BY FleetAssumption DEF Init, Socle, TypeOK, VerrouExclusif, EnVerrou, InsertionsSensees,
                       GardeSert, Place, Insertion, PreneurDuPassage

\* What the moves of a poll do to the variables of the polls.
LEMMA VersType ==
  ASSUME TypeOK, NEW w \in Worker, NEW e \in Etapes, Vers(w, e)
  PROVE  /\ etape' \in [Worker -> Etapes] /\ lu' \in [Worker -> BOOLEAN]
         /\ instantane' \in [Worker -> SUBSET Fleet]
         /\ etape'[w] = e /\ \A v \in Worker \ {w} : etape'[v] = etape[v]
BY DEF TypeOK, Vers

LEMMA RentreType ==
  ASSUME TypeOK, NEW w \in Worker, Rentre(w)
  PROVE  /\ etape' \in [Worker -> Etapes] /\ lu' \in [Worker -> BOOLEAN]
         /\ instantane' \in [Worker -> SUBSET Fleet]
         /\ vise' \in [Worker -> Fleet \cup {NoFleet}]
         /\ insere' \in [Worker -> Job \cup {NoJob}]
         /\ etape'[w] = "libre"
         /\ \A v \in Worker \ {w} : /\ etape'[v] = etape[v] /\ vise'[v] = vise[v]
                                    /\ insere'[v] = insere[v]
<1>1. Vers(w, "libre")
  BY DEF Rentre
<1> QED
  BY <1>1, VersType DEF Rentre, TypeOK

LEMMA LitType ==
  ASSUME TypeOK, NEW w \in Worker, NEW S \in SUBSET Fleet, Lit(w, S)
  PROVE  TypeOK'
BY DEF Lit, TypeOK, campagnes, travaux

LEMMA EcritType ==
  ASSUME TypeOK, NEW w \in Worker, NEW depart, NEW arrivee \in {"stopped", "done"},
         NEW suite \in {"arrets", "fins", "choix"}, Ecrit(w, depart, arrivee, suite)
  PROVE  TypeOK'
<1>1. Vers(w, suite)
  BY DEF Ecrit
<1>2. status' \in [Fleet -> {"draft", "armed", "running", "stopping", "stopped", "done"}]
  BY DEF Ecrit, TypeOK
<1> QED
  BY <1>1, <1>2, VersType DEF Ecrit, TypeOK, travaux

\* Types are preserved by every step of a poll.
LEMMA TypeSondage ==
  ASSUME TypeOK, NEW w \in Worker, _produire_pour_une_campagne(w) \/ Tombe(w)
  PROVE  TypeOK'
<1> USE DEF campagnes, travaux
<1>1. CASE une_campagne_vit(w)
  <2>1. Vers(w, "epuisees")
    BY <1>1 DEF une_campagne_vit
  <2> QED
    BY <1>1, <2>1, VersType DEF une_campagne_vit, TypeOK
<1>2. CASE arreter_campagnes_epuisees(w)
  BY <1>2, LitType, EcritType DEF arreter_campagnes_epuisees
<1>3. CASE accuser_arrets_effectifs(w)
  BY <1>3, LitType, EcritType DEF accuser_arrets_effectifs
<1>4. CASE clore_campagnes_terminees(w)
  BY <1>4, LitType, EcritType DEF clore_campagnes_terminees
<1>5. CASE campagne_a_servir(w)
  <2>1. CASE Lit(w, {f \in Fleet : _ELIGIBLE(f)})
    BY <2>1, LitType
  <2>2. ASSUME NEW f \in Candidates(w), vise' = [vise EXCEPT ![w] = f], Vers(w, "choisi"),
               UNCHANGED insere, UNCHANGED <<campagnes, travaux, chutes, garde, decides>>
        PROVE  TypeOK'
    <3>1. f \in Fleet
      BY <2>2 DEF Candidates, TypeOK
    <3> QED
      BY <2>2, <3>1, VersType DEF TypeOK
  <2>3. CASE Rentre(w) /\ UNCHANGED <<campagnes, travaux, chutes, garde, decides>>
    BY <2>3, RentreType DEF TypeOK
  <2>4. CASE /\ etape[w] = "choisi" /\ Vers(w, "enfiler")
             /\ UNCHANGED <<campagnes, travaux, vise, insere, chutes, garde, decides>>
    BY <2>4, VersType DEF TypeOK
  <2> QED
    BY <1>5, <2>1, <2>2, <2>3, <2>4 DEF campagne_a_servir
<1>6. CASE Verrouille(w)
  <2>1. CASE Rentre(w)
    BY <1>6, <2>1, RentreType DEF Verrouille, TypeOK
  <2>2. CASE Vers(w, "verrou") /\ UNCHANGED <<vise, insere>>
    BY <1>6, <2>2, VersType DEF Verrouille, TypeOK
  <2> QED
    BY <1>6, <2>1, <2>2 DEF Verrouille
<1>7. CASE Insere(w)
  <2>1. CASE Rentre(w) /\ UNCHANGED travaux
    BY <1>7, <2>1, RentreType DEF Insere, TypeOK
  <2>2. ASSUME NEW j \in Job, travail' = [travail EXCEPT ![j] = "insere"],
               flotte' = [flotte EXCEPT ![j] = vise[w]], insere' = [insere EXCEPT ![w] = j],
               Vers(w, "insere"), UNCHANGED <<voie, vise>>
        PROVE  TypeOK'
    BY <1>7, <2>2, VersType DEF Insere, TypeOK
  <2> QED
    BY <1>7, <2>1, <2>2 DEF Insere
<1>8. CASE Valide(w)
  <2>1. Vers(w, "marquer")
    BY <1>8 DEF Valide
  <2> QED
    BY <1>8, <2>1, VersType DEF Valide, TypeOK
<1>9. CASE marquer_demarree(w)
  <2>1. Rentre(w)
    BY <1>9 DEF marquer_demarree
  <2> QED
    BY SMTT(20), <1>9, <2>1, RentreType DEF marquer_demarree, TypeOK
<1>10. CASE Tombe(w)
  <2>1. Rentre(w)
    BY <1>10 DEF Tombe
  <2> QED
    BY <1>10, <2>1, RentreType, FleetAssumption DEF Tombe, TypeOK
<1> QED
  BY <1>1, <1>2, <1>3, <1>4, <1>5, <1>6, <1>7, <1>8, <1>9, <1>10
     DEF _produire_pour_une_campagne, _poser_si_servable

\* Types are preserved by every step.
LEMMA TypeStep == TypeOK /\ [Next]_vars => TypeOK'
<1> SUFFICES ASSUME TypeOK, [Next]_vars PROVE TypeOK'
  OBVIOUS
<1> USE FleetAssumption DEF TypeOK, campagnes, travaux, sondages
<1>1. ASSUME NEW a \in Appelant, verrouiller_la_flotte(a) PROVE TypeOK'
  BY <1>1 DEF verrouiller_la_flotte
<1>2. ASSUME NEW a \in Appelant, enqueue_job(a) PROVE TypeOK'
  BY <1>2 DEF enqueue_job
<1>3. ASSUME NEW a \in Appelant, Renonce(a) PROVE TypeOK'
  BY <1>3 DEF Renonce
<1>4. ASSUME NEW f \in Fleet, launch(f) \/ demander_arret(f) PROVE TypeOK'
  BY <1>4 DEF launch, demander_arret
<1>5. ASSUME NEW f \in Fleet, armer(f) PROVE TypeOK'
  BY <1>5 DEF armer
<1>6. ASSUME NEW f \in Fleet, NEW o \in Ordonnanceur, prendre(o, f) \/ accuser_arret(o, f)
       PROVE TypeOK'
  BY <1>6 DEF prendre, accuser_arret
<1>7. ASSUME NEW j \in Job, claim_next_job(j) \/ Finit(j) \/ Revient(j) PROVE TypeOK'
  BY <1>7 DEF claim_next_job, Finit, Revient
<1>8. CASE UNCHANGED vars
  BY <1>8 DEF vars
<1> QED
  BY <1>1, <1>2, <1>3, <1>4, <1>5, <1>6, <1>7, <1>8, TypeSondage DEF Next

-----------------------------------------------------------------------------
(* The lock of a fleet. *)

\* What is not a step of a poll leaves the polls alone.
LEMMA HorsSondage ==
  ASSUME [Next]_vars
  PROVE  \/ \E w \in Worker : _produire_pour_une_campagne(w) \/ Tombe(w)
         \/ UNCHANGED <<etape, vise, insere>>
BY DEF Next, vars, sondages, campagnes, verrouiller_la_flotte, enqueue_job, Renonce, launch,
       armer, demander_arret, prendre, accuser_arret, claim_next_job, Finit, Revient

LEMMA VerrouStep == TypeOK /\ VerrouExclusif /\ [Next]_vars => VerrouExclusif'
<1> SUFFICES ASSUME TypeOK, VerrouExclusif, [Next]_vars PROVE VerrouExclusif'
  OBVIOUS
<1>1. CASE UNCHANGED <<etape, vise, insere>>
  BY <1>1 DEF VerrouExclusif
<1>2. ASSUME NEW w \in Worker, _produire_pour_une_campagne(w) \/ Tombe(w)
      PROVE  VerrouExclusif'
  <2>1. PICK e \in Etapes :
          /\ etape' = [etape EXCEPT ![w] = e]
          /\ \A v \in Worker \ {w} : vise'[v] = vise[v] /\ insere'[v] = insere[v]
          /\ e \in EnVerrou => \/ etape[w] \in EnVerrou /\ vise'[w] = vise[w]
                               \/ ~Verrouillee(vise'[w])
    BY <1>2, PasDuSondage
  <2>2. \A v \in Worker : etape'[v] = IF v = w THEN e ELSE etape[v]
    BY <2>1 DEF TypeOK
  <2>3. ASSUME NEW v \in Worker \ {w}, etape'[v] \in EnVerrou, etape'[w] \in EnVerrou,
               vise'[v] = vise'[w]
        PROVE  FALSE
    BY <2>1, <2>2, <2>3 DEF VerrouExclusif, Verrouillee, EnVerrou
  <2> QED
    BY <2>1, <2>2, <2>3 DEF VerrouExclusif
<1> QED
  BY <1>1, <1>2, HorsSondage

-----------------------------------------------------------------------------
(* The inserts in progress. *)

\* Four ways a step may change the jobs: not at all, by the INSERT of a poll, by
\* the end of one (commit or cut), or elsewhere than at an INSERT in progress.
LEMMA PasDesTravaux ==
  ASSUME TypeOK, [Next]_vars
  PROVE  \/ UNCHANGED travaux
         \/ \E w \in Worker : Insere(w) \/ Valide(w) \/ (Tombe(w) /\ etape[w] = "insere")
         \/ \E a \in Appelant : enqueue_job(a)
         \/ \E j \in Job : claim_next_job(j) \/ Finit(j) \/ Revient(j)
<1>1. ASSUME NEW w \in Worker, _produire_pour_une_campagne(w)
      PROVE  UNCHANGED travaux \/ Insere(w) \/ Valide(w)
  BY <1>1 DEF _produire_pour_une_campagne, _poser_si_servable, une_campagne_vit, Lit, Ecrit,
       arreter_campagnes_epuisees, accuser_arrets_effectifs, clore_campagnes_terminees,
       campagne_a_servir, Verrouille, marquer_demarree
<1>2. ASSUME NEW w \in Worker, Tombe(w), etape[w] # "insere"
      PROVE  UNCHANGED travaux
  BY <1>2 DEF Tombe, TypeOK, travaux
<1>3. ASSUME NEW a \in Appelant, verrouiller_la_flotte(a) \/ Renonce(a)
      PROVE  UNCHANGED travaux
  BY <1>3 DEF verrouiller_la_flotte, Renonce
<1>4. ASSUME NEW f \in Fleet, launch(f) \/ armer(f) \/ demander_arret(f)
      PROVE  UNCHANGED travaux
  BY <1>4 DEF launch, armer, demander_arret
<1>5. ASSUME NEW f \in Fleet, NEW o \in Ordonnanceur, prendre(o, f) \/ accuser_arret(o, f)
      PROVE  UNCHANGED travaux
  BY <1>5 DEF prendre, accuser_arret
<1>6. CASE UNCHANGED vars
  BY <1>6 DEF vars
<1> QED
  BY <1>1, <1>2, <1>3, <1>4, <1>5, <1>6 DEF Next

\* An INSERT in progress began with the INSERT of its poll.
LEMMA InsertionsReste ==
  ASSUME TypeOK, [Next]_vars, NEW w \in Worker, etape'[w] = "insere", ~Insere(w)
  PROVE  /\ etape[w] = "insere" /\ insere'[w] = insere[w] /\ vise'[w] = vise[w]
<1>1. CASE UNCHANGED <<etape, vise, insere>>
  BY <1>1
<1>2. ASSUME NEW v \in Worker, v # w, _produire_pour_une_campagne(v) \/ Tombe(v)
      PROVE  /\ etape[w] = "insere" /\ insere'[w] = insere[w] /\ vise'[w] = vise[w]
  BY <1>2, PasDuSondage DEF TypeOK
<1>3. CASE _produire_pour_une_campagne(w) \/ Tombe(w)
  BY <1>3, PasDuSondage DEF TypeOK
<1> QED
  BY <1>1, <1>2, <1>3, HorsSondage

\* The inserts in progress keep their rows, whatever the step.
LEMMA InsertionsStep == Socle /\ [Next]_vars => InsertionsSensees'
<1> SUFFICES ASSUME Socle, [Next]_vars PROVE InsertionsSensees'
  OBVIOUS
<1> USE DEF Socle
<1>1. \A w \in Worker : etape'[w] = "insere" /\ ~Insere(w) =>
        /\ etape[w] = "insere" /\ insere'[w] = insere[w] /\ vise'[w] = vise[w]
  BY InsertionsReste
<1>2. CASE UNCHANGED travaux
  <2>1. \A w \in Worker : ~Insere(w) \/ etape'[w] # "insere"
    BY <1>2 DEF Insere, travaux, TypeOK, Prochain, Libres, Vers, Rentre
  <2> QED
    BY <1>1, <1>2, <2>1 DEF InsertionsSensees, travaux
<1>3. ASSUME NEW w \in Worker, Insere(w), ~(UNCHANGED travaux)
      PROVE  InsertionsSensees'
  <2>1. PICK j \in Job : /\ Prochain(j)
                         /\ travail' = [travail EXCEPT ![j] = "insere"]
                         /\ flotte' = [flotte EXCEPT ![j] = vise[w]]
                         /\ insere' = [insere EXCEPT ![w] = j]
                         /\ Vers(w, "insere") /\ UNCHANGED <<voie, vise>>
    BY <1>3 DEF Insere
  <2>2. travail[j] = "absent"
    BY <2>1 DEF Prochain, Libres, TypeOK, Job
  <2>3. \A v \in Worker \ {w} : etape'[v] = etape[v] /\ insere'[v] = insere[v]
    BY <2>1, VersType DEF TypeOK
  <2>4. insere'[w] = j /\ travail'[j] = "insere" /\ flotte'[j] = vise[w] /\ voie[j] = "produit"
    BY <2>1, <2>2 DEF TypeOK, InsertionsSensees
  <2>5. \A v \in Worker : etape[v] = "insere" => insere[v] \in Job /\ insere[v] # j
    BY <2>2 DEF InsertionsSensees, TypeOK
  <2>6. \A k \in Job \ {j} : travail'[k] = travail[k] /\ flotte'[k] = flotte[k]
    BY <2>1 DEF TypeOK
  <2> QED
    BY <2>1, <2>2, <2>3, <2>4, <2>5, <2>6 DEF InsertionsSensees
<1>4. ASSUME NEW w \in Worker, Valide(w) \/ (Tombe(w) /\ etape[w] = "insere")
      PROVE  InsertionsSensees'
  <2>1. /\ insere[w] \in Job
        /\ UNCHANGED <<flotte, voie>>
        /\ \A k \in Job \ {insere[w]} : travail'[k] = travail[k]
        /\ travail'[insere[w]] \in {"pending", "annule"}
    BY <1>4 DEF Valide, Tombe, TypeOK
  <2>2. /\ etape'[w] # "insere"
        /\ \A v \in Worker \ {w} : /\ etape'[v] = etape[v] /\ vise'[v] = vise[v]
                                   /\ insere'[v] = insere[v]
    BY <1>4, VersType, RentreType DEF Valide, Tombe
  <2>3. etape[w] = "insere"
    BY <1>4 DEF Valide
  <2>4. \A v \in Worker \ {w} : etape[v] = "insere" => insere[v] \in Job \ {insere[w]}
    BY <2>3 DEF InsertionsSensees, TypeOK
  <2> QED
    BY <2>1, <2>2, <2>3, <2>4 DEF InsertionsSensees
<1>5. ASSUME NEW a \in Appelant, enqueue_job(a)
      PROVE  InsertionsSensees'
  <2>1. PICK j \in Job : /\ Prochain(j)
                         /\ travail' = [travail EXCEPT ![j] = "pending"]
                         /\ flotte' = [flotte EXCEPT ![j] = garde[a]]
                         /\ voie' = [voie EXCEPT ![j] = "enfile"]
    BY <1>5 DEF enqueue_job
  <2>2. travail[j] = "absent"
    BY <2>1 DEF Prochain, Libres, TypeOK, Job
  <2>3. UNCHANGED <<etape, vise, insere>>
    BY <1>5 DEF enqueue_job, sondages
  <2>4. \A v \in Worker : etape[v] = "insere" => insere[v] \in Job /\ insere[v] # j
    BY <2>2 DEF InsertionsSensees, TypeOK
  <2>5. /\ travail'[j] = "pending"
        /\ \A k \in Job \ {j} : travail'[k] = travail[k] /\ flotte'[k] = flotte[k]
                                /\ voie'[k] = voie[k]
    BY <2>1 DEF TypeOK
  <2> QED
    BY <2>3, <2>4, <2>5 DEF InsertionsSensees
<1>6. ASSUME NEW j \in Job, claim_next_job(j) \/ Finit(j) \/ Revient(j)
      PROVE  InsertionsSensees'
  <2>1. UNCHANGED <<etape, vise, insere, flotte, voie>>
    BY <1>6 DEF claim_next_job, Finit, Revient, sondages
  <2>2. /\ travail[j] \notin {"absent", "insere"} /\ travail'[j] # "absent"
        /\ \A k \in Job \ {j} : travail'[k] = travail[k]
    BY <1>6 DEF claim_next_job, Finit, Revient, TypeOK
  <2>3. \A v \in Worker : etape[v] = "insere" => insere[v] \in Job /\ insere[v] # j
    BY <2>2 DEF InsertionsSensees, TypeOK
  <2> QED
    BY <2>1, <2>2, <2>3 DEF InsertionsSensees
<1> QED
  BY <1>2, <1>3, <1>4, <1>5, <1>6, PasDesTravaux

-----------------------------------------------------------------------------
(* The first invariants. *)

LEMMA SocleStep == Socle /\ [Next]_vars => Socle'
BY TypeStep, VerrouStep, InsertionsStep DEF Socle

THEOREM Inductive == Spec => []Socle
<1>1. Init => Socle
  BY InitSocle
<1> QED
  BY <1>1, SocleStep, PTL DEF Spec

\* Every column keeps its domain, and a poll past its choice has a fleet.
THEOREM TypeCorrect == Spec => []TypeOK
<1>1. Socle => TypeOK
  BY DEF Socle
<1> QED
  BY <1>1, Inductive, PTL

-----------------------------------------------------------------------------
(* The bounds of a fleet. *)

LEMMA JobsFinis == \A S \in SUBSET Job : IsFiniteSet(S) /\ Cardinality(S) \in Nat
<1>1. IsFiniteSet(Job)
  BY FS_Interval, FleetAssumption DEF Job
<1> QED
  BY <1>1, FS_Subset, FS_CardinalityType

LEMMA UnDePlus ==
  ASSUME NEW S \in SUBSET Job, NEW x
  PROVE  Cardinality(S \cup {x}) <= Cardinality(S) + 1 /\ Cardinality(S \cup {x}) \in Nat
<1>1. IsFiniteSet(S) /\ Cardinality(S) \in Nat
  BY JobsFinis
<1>2. Cardinality(S \cup {x}) = IF x \in S THEN Cardinality(S) ELSE Cardinality(S) + 1
  BY <1>1, FS_AddElement
<1> QED
  BY <1>1, <1>2

\* The jobs of polls: at one commit, one more; otherwise never more.
LEMMA PasDesProduits ==
  ASSUME Socle, [Next]_vars, NEW f \in Fleet
  PROVE  \/ /\ DesSondages(f)' \subseteq DesSondages(f)
            /\ VolDesSondages(f)' \subseteq VolDesSondages(f)
         \/ \E w \in Worker : /\ Valide(w) /\ vise[w] = f
                              /\ DesSondages(f)' = DesSondages(f) \cup {insere[w]}
                              /\ VolDesSondages(f)' = VolDesSondages(f) \cup {insere[w]}
<1> USE DEF Socle, DesSondages, VolDesSondages, EnVol, Produits
<1>1. CASE UNCHANGED travaux
  BY <1>1 DEF travaux
<1>2. ASSUME NEW w \in Worker, Insere(w), ~(UNCHANGED travaux)
      PROVE  /\ DesSondages(f)' \subseteq DesSondages(f)
             /\ VolDesSondages(f)' \subseteq VolDesSondages(f)
  BY <1>2 DEF Insere, TypeOK
<1>3. ASSUME NEW w \in Worker, Valide(w)
      PROVE  \/ /\ DesSondages(f)' \subseteq DesSondages(f)
                /\ VolDesSondages(f)' \subseteq VolDesSondages(f)
             \/ /\ vise[w] = f
                /\ DesSondages(f)' = DesSondages(f) \cup {insere[w]}
                /\ VolDesSondages(f)' = VolDesSondages(f) \cup {insere[w]}
  <2>1. /\ insere[w] \in Job /\ flotte[insere[w]] = vise[w] /\ voie[insere[w]] = "produit"
        /\ UNCHANGED <<flotte, voie>>
        /\ travail'[insere[w]] = "pending"
        /\ \A k \in Job \ {insere[w]} : travail'[k] = travail[k]
    BY <1>3 DEF Valide, TypeOK, InsertionsSensees
  <2>2. CASE vise[w] = f
    BY <2>1, <2>2
  <2>3. CASE vise[w] # f
    BY <2>1, <2>3
  <2> QED
    BY <2>2, <2>3
<1>4. ASSUME NEW w \in Worker, Tombe(w), etape[w] = "insere"
      PROVE  /\ DesSondages(f)' \subseteq DesSondages(f)
             /\ VolDesSondages(f)' \subseteq VolDesSondages(f)
  BY <1>4 DEF Tombe, TypeOK
<1>5. ASSUME NEW a \in Appelant, enqueue_job(a)
      PROVE  /\ DesSondages(f)' \subseteq DesSondages(f)
             /\ VolDesSondages(f)' \subseteq VolDesSondages(f)
  BY <1>5 DEF enqueue_job, TypeOK
<1>6. ASSUME NEW j \in Job, claim_next_job(j) \/ Finit(j) \/ Revient(j)
      PROVE  /\ DesSondages(f)' \subseteq DesSondages(f)
             /\ VolDesSondages(f)' \subseteq VolDesSondages(f)
  BY <1>6 DEF claim_next_job, Finit, Revient, TypeOK
<1> QED
  BY <1>1, <1>2, <1>3, <1>4, <1>5, <1>6, PasDesTravaux

Bornes == LignesProduites /\ PlafondTenu /\ Place

\* An INSERT in progress was already in progress, or the poll has just read that
\* there was room.
LEMMA PlaceStep ==
  ASSUME Socle, Bornes, [Next]_vars, NEW f \in Fleet, Insertion(f)'
  PROVE  /\ Cardinality(DesSondages(f)') < max_rows[f]
         /\ Cardinality(VolDesSondages(f)') < workers[f]
<1> USE FleetAssumption DEF Socle
<1>1. PICK w \in Worker : etape'[w] = "insere" /\ vise'[w] = f
  BY DEF Insertion
<1>2. /\ DesSondages(f) \in SUBSET Job /\ VolDesSondages(f) \in SUBSET Job
      /\ Produits(f) \in SUBSET Job /\ EnVol(f) \in SUBSET Job
      /\ DesSondages(f) \subseteq Produits(f) /\ VolDesSondages(f) \subseteq EnVol(f)
  BY DEF DesSondages, VolDesSondages, Produits, EnVol
<1>3. /\ Cardinality(DesSondages(f)) < max_rows[f]
      /\ Cardinality(VolDesSondages(f)) < workers[f]
  <2>1. CASE Insere(w)
    <3>1. vise[w] = f /\ vise[w] \in Fleet /\ _ELIGIBLE(vise[w])
      BY <1>1, <2>1, RentreType DEF Insere, TypeOK
    <3>2. /\ Cardinality(Produits(f)) < max_rows[f] /\ Cardinality(EnVol(f)) < workers[f]
      BY <3>1 DEF _ELIGIBLE
    <3>3. /\ Cardinality(DesSondages(f)) <= Cardinality(Produits(f))
          /\ Cardinality(VolDesSondages(f)) <= Cardinality(EnVol(f))
      BY <1>2, JobsFinis, FS_Subset
    <3> QED
      BY <1>2, <3>2, <3>3, JobsFinis
  <2>2. CASE ~Insere(w)
    BY <1>1, <2>2, InsertionsReste DEF Bornes, Place, Insertion
  <2> QED
    BY <2>1, <2>2
<1>4. ASSUME NEW v \in Worker, Valide(v), vise[v] = f
      PROVE  FALSE
  <2>1. etape[v] = "insere" /\ etape'[v] = "marquer" /\ v # w
    BY <1>1, <1>4, VersType DEF Valide
  <2>2. etape[w] = "insere" /\ vise[w] = f
    BY <1>1, <1>4, <2>1, VersType DEF Valide
  <2> QED
    BY <1>4, <2>1, <2>2 DEF VerrouExclusif, EnVerrou
<1>5. /\ DesSondages(f)' \subseteq DesSondages(f)
      /\ VolDesSondages(f)' \subseteq VolDesSondages(f)
  BY <1>4, PasDesProduits
<1>6. /\ Cardinality(DesSondages(f)') <= Cardinality(DesSondages(f))
      /\ Cardinality(VolDesSondages(f)') <= Cardinality(VolDesSondages(f))
      /\ Cardinality(DesSondages(f)') \in Nat /\ Cardinality(VolDesSondages(f)') \in Nat
  BY <1>2, <1>5, JobsFinis, FS_Subset
<1> QED
  BY <1>2, <1>3, <1>6, JobsFinis

LEMMA BornesStep == Socle /\ Bornes /\ [Next]_vars => Bornes'
<1> SUFFICES ASSUME Socle, Bornes, [Next]_vars PROVE Bornes'
  OBVIOUS
<1> USE FleetAssumption DEF Socle
<1>1. Place'
  BY PlaceStep DEF Place
<1>2. ASSUME NEW f \in Fleet
      PROVE  /\ Cardinality(DesSondages(f)') <= max_rows[f]
             /\ Cardinality(VolDesSondages(f)') <= workers[f]
  <2>1. /\ DesSondages(f) \in SUBSET Job /\ VolDesSondages(f) \in SUBSET Job
        /\ IsFiniteSet(DesSondages(f)) /\ IsFiniteSet(VolDesSondages(f))
        /\ Cardinality(DesSondages(f)) \in Nat /\ Cardinality(VolDesSondages(f)) \in Nat
    BY JobsFinis DEF DesSondages, VolDesSondages, Produits, EnVol
  <2>2. CASE /\ DesSondages(f)' \subseteq DesSondages(f)
             /\ VolDesSondages(f)' \subseteq VolDesSondages(f)
    <3>1. /\ Cardinality(DesSondages(f)) <= max_rows[f]
          /\ Cardinality(VolDesSondages(f)) <= workers[f]
      BY DEF Bornes, LignesProduites, PlafondTenu, DesSondages, VolDesSondages
    <3>2. /\ Cardinality(DesSondages(f)') <= Cardinality(DesSondages(f))
          /\ Cardinality(VolDesSondages(f)') <= Cardinality(VolDesSondages(f))
          /\ Cardinality(DesSondages(f)') \in Nat /\ Cardinality(VolDesSondages(f)') \in Nat
      BY <2>1, <2>2, JobsFinis, FS_Subset
    <3> QED
      BY <2>1, <3>1, <3>2
  <2>3. ASSUME NEW w \in Worker, Valide(w), vise[w] = f,
               DesSondages(f)' = DesSondages(f) \cup {insere[w]},
               VolDesSondages(f)' = VolDesSondages(f) \cup {insere[w]}
        PROVE  /\ Cardinality(DesSondages(f)') <= max_rows[f]
               /\ Cardinality(VolDesSondages(f)') <= workers[f]
    <3>1. /\ Cardinality(DesSondages(f)) < max_rows[f]
          /\ Cardinality(VolDesSondages(f)) < workers[f]
      BY <2>3 DEF Valide, Bornes, Place, Insertion
    <3>2. /\ Cardinality(DesSondages(f) \cup {insere[w]}) <= Cardinality(DesSondages(f)) + 1
          /\ Cardinality(VolDesSondages(f) \cup {insere[w]}) <= Cardinality(VolDesSondages(f)) + 1
          /\ Cardinality(DesSondages(f) \cup {insere[w]}) \in Nat
          /\ Cardinality(VolDesSondages(f) \cup {insere[w]}) \in Nat
      BY <2>1, UnDePlus
    <3> QED
      BY <2>1, <2>3, <3>1, <3>2
  <2> QED
    BY <2>2, <2>3, PasDesProduits
<1>3. LignesProduites' /\ PlafondTenu'
  BY <1>2 DEF LignesProduites, PlafondTenu, DesSondages, VolDesSondages
<1> QED
  BY <1>1, <1>3 DEF Bornes

LEMMA InitBornes == Init => Bornes
<1> SUFFICES ASSUME Init PROVE Bornes
  OBVIOUS
<1>1. \A f \in Fleet : Produits(f) = {} /\ EnVol(f) = {}
  BY DEF Init, Produits, EnVol
<1>2. ASSUME NEW f \in Fleet
      PROVE  /\ Cardinality({j \in Produits(f) : voie[j] = "produit"}) = 0
             /\ Cardinality({j \in EnVol(f) : voie[j] = "produit"}) = 0
  <2>1. /\ {j \in Produits(f) : voie[j] = "produit"} = {}
        /\ {j \in EnVol(f) : voie[j] = "produit"} = {}
    BY <1>1
  <2> QED
    BY <2>1, FS_EmptySet
<1>3. \A f \in Fleet : 0 <= max_rows[f] /\ 0 <= workers[f]
  BY FleetAssumption
<1>4. LignesProduites /\ PlafondTenu
  BY <1>2, <1>3 DEF LignesProduites, PlafondTenu, DesSondages
<1> QED
  BY <1>4, InitSocle DEF Bornes

THEOREM BoundsInductive == Spec => []Bornes
<1>1. Spec => []Socle
  BY Inductive
<1> QED
  BY <1>1, InitBornes, BornesStep, PTL DEF Spec

\* The polls never produce more jobs for a fleet than its max_rows, nor put more of them in
\* flight than its workers.
THEOREM BoundsHeld == Spec => []BornesTenues
<1>1. Bornes => BornesTenues
  BY DEF Bornes, BornesTenues
<1> QED
  BY <1>1, BoundsInductive, PTL

-----------------------------------------------------------------------------
(* The status of a fleet. *)

\* Who writes the status of a fleet waits for the requests that hold its row.
LEMMA GardeStep == TypeOK /\ GardeSert /\ [Next]_vars => GardeSert'
<1> SUFFICES ASSUME TypeOK, GardeSert, [Next]_vars PROVE GardeSert'
  OBVIOUS
<1> USE DEF TypeOK, campagnes, sondages, travaux
<1>1. ASSUME NEW a \in Appelant, verrouiller_la_flotte(a) PROVE GardeSert'
  BY <1>1 DEF verrouiller_la_flotte, GardeSert
<1>2. ASSUME NEW a \in Appelant, enqueue_job(a) \/ Renonce(a) PROVE GardeSert'
  BY <1>2 DEF enqueue_job, Renonce, GardeSert
<1>3. ASSUME UNCHANGED garde, \A f \in Fleet : Gardee(f) => status'[f] = status[f]
      PROVE  GardeSert'
  BY <1>3 DEF GardeSert, Gardee
<1>4. ASSUME NEW w \in Worker, _produire_pour_une_campagne(w) \/ Tombe(w)
      PROVE  UNCHANGED garde /\ \A f \in Fleet : Gardee(f) => status'[f] = status[f]
  BY <1>4 DEF _produire_pour_une_campagne, _poser_si_servable, une_campagne_vit, Lit, Ecrit,
       arreter_campagnes_epuisees, accuser_arrets_effectifs, clore_campagnes_terminees,
       campagne_a_servir, Verrouille, Insere, Valide, marquer_demarree, Tombe
<1>5. ASSUME NEW g \in Fleet, launch(g) \/ armer(g) \/ demander_arret(g)
      PROVE  UNCHANGED garde /\ \A f \in Fleet : Gardee(f) => status'[f] = status[f]
  BY <1>5 DEF launch, armer, demander_arret
<1>6. ASSUME NEW g \in Fleet, NEW o \in Ordonnanceur, prendre(o, g) \/ accuser_arret(o, g)
      PROVE  UNCHANGED garde /\ \A f \in Fleet : Gardee(f) => status'[f] = status[f]
  BY <1>6 DEF prendre, accuser_arret
<1>7. ASSUME NEW j \in Job, claim_next_job(j) \/ Finit(j) \/ Revient(j)
      PROVE  UNCHANGED garde /\ \A f \in Fleet : Gardee(f) => status'[f] = status[f]
  BY <1>7 DEF claim_next_job, Finit, Revient
<1>8. CASE UNCHANGED vars
  BY <1>8, <1>3 DEF vars
<1> QED
  BY <1>1, <1>2, <1>3, <1>4, <1>5, <1>6, <1>7, <1>8 DEF Next

LEMMA GardeInductive == Spec => [](Socle /\ GardeSert)
<1>1. Socle => TypeOK
  BY DEF Socle
<1> QED
  BY <1>1, Inductive, InitSocle, GardeStep, PTL DEF Spec

\* A job that a request leaves on a fleet finds it armed or running.
THEOREM EnqueuedIsServed == Spec => EnfileServi
<1>1. ASSUME Socle, GardeSert, [Next]_vars, NEW j \in Job,
             travail[j] = "absent", travail'[j] = "pending"
      PROVE  status[flotte'[j]] \in Servent
  <2> USE DEF Socle, TypeOK
  <2>1. ASSUME NEW a \in Appelant, enqueue_job(a)
        PROVE  status[flotte'[j]] \in Servent
    <3>1. garde[a] # NoFleet /\ flotte'[j] = garde[a]
      BY <1>1, <2>1 DEF enqueue_job
    <3> QED
      BY <1>1, <3>1 DEF GardeSert
  <2>2. ASSUME NEW w \in Worker, Insere(w) \/ Valide(w) \/ (Tombe(w) /\ etape[w] = "insere")
        PROVE  FALSE
    <3>1. CASE Insere(w)
      BY <1>1, <3>1 DEF Insere, travaux
    <3>2. CASE etape[w] = "insere" /\ (Valide(w) \/ Tombe(w))
      <4>1. insere[w] \in Job /\ insere[w] # j
        BY <1>1, <3>2 DEF InsertionsSensees
      <4> QED
        BY <1>1, <3>2, <4>1 DEF Valide, Tombe
    <3> QED
      BY <2>2, <3>1, <3>2 DEF Valide
  <2>3. ASSUME NEW k \in Job, claim_next_job(k) \/ Finit(k) \/ Revient(k)
        PROVE  FALSE
    BY <1>1, <2>3 DEF claim_next_job, Finit, Revient
  <2>4. ~UNCHANGED travaux
    BY <1>1 DEF travaux
  <2> QED
    BY <1>1, <2>1, <2>2, <2>3, <2>4, PasDesTravaux
<1>2. Socle /\ GardeSert /\ [Next]_vars
        => [\A j \in Job : travail[j] = "absent" /\ travail'[j] = "pending"
                             => status[flotte'[j]] \in Servent]_vars
  BY <1>1
<1> QED
  BY <1>2, GardeInductive, PTL DEF Spec, EnfileServi


\* Who writes who holds a fleet, or arms it: armer and prendre, nobody else.
LEMMA PasDuPreneur ==
  ASSUME TypeOK, [Next]_vars, NEW f \in Fleet
  PROVE  \/ armer(f)
         \/ \E o \in Ordonnanceur : prendre(o, f)
         \/ /\ taken_by'[f] = taken_by[f] /\ preneurs'[f] = preneurs[f]
            /\ status'[f] \in Servent => status[f] \in Servent
            /\ status'[f] = "armed" => status[f] = "armed"
<1> DEFINE Tenu == /\ taken_by'[f] = taken_by[f] /\ preneurs'[f] = preneurs[f]
                   /\ status'[f] \in Servent => status[f] \in Servent
                   /\ status'[f] = "armed" => status[f] = "armed"
<1> USE DEF TypeOK, campagnes, sondages
<1>1. ASSUME NEW w \in Worker, une_campagne_vit(w) \/ campagne_a_servir(w) \/ Verrouille(w)
             \/ Insere(w) \/ Valide(w) \/ Tombe(w)
      PROVE  Tenu
  BY <1>1 DEF une_campagne_vit, campagne_a_servir, Lit, Verrouille, Insere, Valide, Tombe
<1>2. ASSUME NEW w \in Worker, arreter_campagnes_epuisees(w) \/ accuser_arrets_effectifs(w)
             \/ clore_campagnes_terminees(w)
      PROVE  Tenu
  BY <1>2 DEF arreter_campagnes_epuisees, accuser_arrets_effectifs, clore_campagnes_terminees,
              Lit, Ecrit
<1>3. ASSUME NEW w \in Worker, marquer_demarree(w) PROVE Tenu
  BY <1>3 DEF marquer_demarree
<1>4. ASSUME NEW a \in Appelant, verrouiller_la_flotte(a) \/ enqueue_job(a) \/ Renonce(a)
      PROVE  Tenu
  BY <1>4 DEF verrouiller_la_flotte, enqueue_job, Renonce
<1>5. ASSUME NEW g \in Fleet, launch(g) \/ demander_arret(g)
      PROVE  Tenu
  BY <1>5 DEF launch, demander_arret
<1>6. ASSUME NEW g \in Fleet, g # f, armer(g)
      PROVE  Tenu
  BY <1>6 DEF armer
<1>7. ASSUME NEW g \in Fleet, NEW o \in Ordonnanceur,
             accuser_arret(o, g) \/ (g # f /\ prendre(o, g))
      PROVE  Tenu
  BY <1>7 DEF accuser_arret, prendre
<1>8. ASSUME NEW j \in Job, claim_next_job(j) \/ Finit(j) \/ Revient(j)
      PROVE  Tenu
  BY <1>8 DEF claim_next_job, Finit, Revient
<1>9. CASE UNCHANGED vars
  BY <1>9 DEF vars
<1> QED
  BY <1>1, <1>2, <1>3, <1>4, <1>5, <1>6, <1>7, <1>8, <1>9
     DEF Next, _produire_pour_une_campagne, _poser_si_servable

\* An armed fleet is held by nobody: what makes its first taker the only one.
ArmeeLibre == \A f \in Fleet : status[f] = "armed" => taken_by[f] = NoOne

LEMMA PreneurStep ==
  TypeOK /\ PreneurDuPassage /\ ArmeeLibre /\ [Next]_vars => (PreneurDuPassage /\ ArmeeLibre)'
<1> SUFFICES ASSUME TypeOK, PreneurDuPassage, ArmeeLibre, [Next]_vars, NEW f \in Fleet
             PROVE  /\ preneurs'[f] = {taken_by'[f]} \ {NoOne}
                    /\ status'[f] = "armed" => taken_by'[f] = NoOne
  BY DEF PreneurDuPassage, ArmeeLibre
<1> USE DEF TypeOK, PreneurDuPassage, ArmeeLibre, campagnes
<1>1. CASE armer(f)
  BY <1>1 DEF armer
<1>2. ASSUME NEW o \in Ordonnanceur, prendre(o, f)
      PROVE  /\ preneurs'[f] = {taken_by'[f]} \ {NoOne}
             /\ status'[f] = "armed" => taken_by'[f] = NoOne
  BY <1>2, FleetAssumption DEF prendre
<1>3. CASE /\ taken_by'[f] = taken_by[f] /\ preneurs'[f] = preneurs[f]
           /\ status'[f] = "armed" => status[f] = "armed"
  BY <1>3
<1> QED
  BY <1>1, <1>2, <1>3, PasDuPreneur

\* Whoever holds a fleet is the only one who took it since its last arming.
THEOREM HolderIsTheTaker == Spec => []PreneurDuPassage
<1>1. Init => PreneurDuPassage /\ ArmeeLibre
  BY InitSocle DEF Init, ArmeeLibre
<1>2. Spec => [](PreneurDuPassage /\ ArmeeLibre)
  BY <1>1, TypeCorrect, PreneurStep, PTL DEF Spec
<1> QED
  BY <1>2, PTL

\* A fleet that was stopped, or asked to, serves again by a launch only.
THEOREM StopIsNotUndone == Spec => ArretNeSAnnulePas
<1>1. ASSUME TypeOK, [Next]_vars, NEW f \in Fleet,
             status[f] \in {"stopping", "stopped", "done"}, status'[f] \in Servent
      PROVE  f \in decides /\ f \notin decides'
  <2>1. armer(f) => f \in decides /\ f \notin decides'
    BY DEF armer
  <2>2. \A o \in Ordonnanceur : ~prendre(o, f)
    BY <1>1 DEF prendre
  <2> QED
    BY <1>1, <2>1, <2>2, PasDuPreneur
<1>2. TypeOK /\ [Next]_vars
        => [\A f \in Fleet : /\ status[f] \in {"stopping", "stopped", "done"}
                             /\ status'[f] \in Servent
                             => f \in decides /\ f \notin decides']_vars
  BY <1>1
<1> QED
  BY <1>2, TypeCorrect, PTL DEF Spec, ArretNeSAnnulePas

-----------------------------------------------------------------------------
(* The failures of a fleet. *)

\* From the job s on: the jobs of f that have ended, and all those that polls
\* produced for it, their INSERT committed or not.
Depuis(f, s) == {j \in Finis(f) : j >= s}
QueDesEchecs(f, s) == \A j \in Depuis(f, s) : travail[j] = "failed"
Suite(f, s) == {j \in Job : /\ j >= s /\ flotte[j] = f /\ voie[j] = "produit"
                            /\ travail[j] \in {"insere", "pending", "claimed", "done", "failed"}}

\* The polls that may still produce for f without looking at its failures again.
Tardifs(f) ==
  {w \in Worker : /\ status[f] \in Servent
                  /\ \/ etape[w] \in {"arrets", "fins", "choix", "choisi", "enfiler", "verrou"}
                     \/ etape[w] = "epuisees" /\ lu[w] /\ f \notin instantane[w]}

\* A job not yet committed is that of a poll; what has jobs has been armed.
InsereesTenues ==
  \A j \in Job : travail[j] = "insere" => \E w \in Worker : etape[w] = "insere" /\ insere[w] = j
ArmeesAvant ==
  /\ \A f \in Fleet : status[f] \in Servent => armements[f] >= 1
  /\ \A j \in Job : flotte[j] \in Fleet => armements[flotte[j]] >= 1

\* Once the failures of a series have reached the limit, the jobs it has and the
\* polls that are late do not exceed the bound together.
SeriesBornees ==
  \A f \in Fleet, s \in Job :
    /\ max_consecutive_failures[f] > 0
    /\ QueDesEchecs(f, s)
    /\ Cardinality(Depuis(f, s)) >= max_consecutive_failures[f]
    => Cardinality(Suite(f, s)) + Cardinality(Tardifs(f))
         < max_consecutive_failures[f] + workers[f] + armements[f] * Cardinality(Worker)

Acquis == Socle /\ GardeSert /\ Bornes /\ InsereesTenues /\ ArmeesAvant

LEMMA SousJobs ==
  ASSUME NEW S, NEW T, T \in SUBSET Job, S \subseteq T
  PROVE  Cardinality(S) <= Cardinality(T) /\ Cardinality(S) \in Nat /\ Cardinality(T) \in Nat
BY JobsFinis, FS_Subset

\* The last jobs of a set, as many as asked when there are so many.
Tete(S, n) == {j \in S : Cardinality({k \in S : k > j}) < n}

LEMMA TeteAssez ==
  ASSUME NEW S \in SUBSET Job, NEW m \in Nat, Cardinality(S) >= m
  PROVE  Cardinality(Tete(S, m)) >= m
<1> DEFINE E == {n \in Nat : n <= Cardinality(S) => Cardinality(Tete(S, n)) >= n}
<1>0. /\ IsFiniteSet(S) /\ Cardinality(S) \in Nat
      /\ \A n \in Nat : Tete(S, n) \in SUBSET Job /\ Cardinality(Tete(S, n)) \in Nat
  BY JobsFinis DEF Tete
<1>1. 0 \in E
  BY <1>0
<1>2. ASSUME NEW n \in Nat, n \in E PROVE n + 1 \in E
  <2> SUFFICES ASSUME n + 1 <= Cardinality(S), ~(Cardinality(Tete(S, n + 1)) >= n + 1)
               PROVE  FALSE
    OBVIOUS
  <2> DEFINE X == S \ Tete(S, n)
  <2>1. Cardinality(Tete(S, n)) >= n
    BY <1>0, <1>2
  <2>2. Tete(S, n) \subseteq Tete(S, n + 1)
    <3> SUFFICES ASSUME NEW j \in Tete(S, n) PROVE j \in Tete(S, n + 1)
      OBVIOUS
    <3>1. Cardinality({k \in S : k > j}) \in Nat
      BY JobsFinis
    <3> QED
      BY <3>1 DEF Tete
  <2>3. Cardinality(Tete(S, n)) = n
    BY <1>0, <2>1, <2>2, SousJobs
  <2>4. X # {}
    <3>1. SUFFICES ASSUME S \subseteq Tete(S, n) PROVE FALSE
      OBVIOUS
    <3>2. Tete(S, n) = S
      BY <3>1 DEF Tete
    <3> QED
      BY <1>0, <2>3, <3>2
  <2>5. PICK x \in X : \A y \in X : y <= x
    <3> DEFINE M == {MaxJobs - y : y \in X}
    <3>1. X \subseteq 1 .. MaxJobs /\ MaxJobs \in Nat
      BY FleetAssumption DEF Job
    <3>2. M \subseteq Nat /\ M # {}
      BY <2>4, <3>1
    <3>3. PICK c \in M : \A d \in M : c <= d
      BY <3>2, Plancher
    <3>4. PICK x \in X : c = MaxJobs - x
      BY <3>3
    <3>5. ASSUME NEW y \in X PROVE y <= x
      <4>1. MaxJobs - x <= MaxJobs - y
        BY <3>3, <3>4
      <4> QED
        BY <3>1, <4>1
    <3> QED
      BY <3>5
  <2>6. {k \in S : k > x} \subseteq Tete(S, n)
    <3> SUFFICES ASSUME NEW k \in S, k > x, k \notin Tete(S, n) PROVE FALSE
      OBVIOUS
    <3>1. k <= x /\ k \in Nat /\ x \in Nat
      BY <2>5, FleetAssumption DEF Job
    <3> QED
      BY <3>1
  <2>7. Cardinality({k \in S : k > x}) <= n /\ Cardinality({k \in S : k > x}) \in Nat
    BY <1>0, <2>3, <2>6, SousJobs
  <2>8. x \in Tete(S, n + 1) \ Tete(S, n)
    BY <2>5, <2>7 DEF Tete
  <2>9. Cardinality(Tete(S, n) \cup {x}) = n + 1
    BY <1>0, <2>3, <2>8, JobsFinis, FS_AddElement
  <2>10. Cardinality(Tete(S, n) \cup {x}) <= Cardinality(Tete(S, n + 1))
    BY <1>0, <2>2, <2>8, SousJobs
  <2> QED
    BY <1>0, <2>9, <2>10
<1>3. m \in E
  <2> HIDE DEF E
  <2> QED
    BY <1>1, <1>2, ParEntier
<1> QED
  BY <1>3

\* A series that has reached the limit is what the polls look for.
LEMMA SerieEpuise ==
  ASSUME NEW f \in Fleet, NEW s \in Job, TypeOK, max_consecutive_failures[f] > 0,
         QueDesEchecs(f, s), Cardinality(Depuis(f, s)) >= max_consecutive_failures[f]
  PROVE  Epuisee(f)
<1> DEFINE m == max_consecutive_failures[f]
<1>1. m \in Nat /\ Finis(f) \in SUBSET Job /\ Depuis(f, s) \subseteq Finis(f)
  BY FleetAssumption DEF Depuis, Finis, Produits
<1>2. Derniers(f) = Tete(Finis(f), m)
  BY DEF Derniers, Tete
<1>3. Cardinality(Derniers(f)) >= m
  <2>1. Cardinality(Finis(f)) >= m
    BY <1>1, SousJobs
  <2> HIDE DEF m
  <2> QED
    BY <1>1, <1>2, <2>1, TeteAssez
<1>4. Derniers(f) \subseteq Depuis(f, s)
  <2> SUFFICES ASSUME NEW j \in Derniers(f), ~(j >= s) PROVE FALSE
    BY DEF Derniers, Depuis
  <2>1. j \in Nat /\ s \in Nat /\ j < s
    BY <1>1, FleetAssumption DEF Derniers, Job
  <2>2. Depuis(f, s) \subseteq {k \in Finis(f) : k > j}
    <3> SUFFICES ASSUME NEW k \in Depuis(f, s) PROVE k > j
      BY DEF Depuis
    <3>1. k \in Nat /\ k >= s
      BY <1>1, FleetAssumption DEF Depuis, Job
    <3> QED
      BY <2>1, <3>1
  <2>3. Cardinality(Depuis(f, s)) <= Cardinality({k \in Finis(f) : k > j})
        /\ Cardinality(Depuis(f, s)) \in Nat /\ Cardinality({k \in Finis(f) : k > j}) \in Nat
    BY <1>1, <2>2, SousJobs
  <2> QED
    BY <1>1, <2>3 DEF Derniers
<1>5. {j \in Derniers(f) : travail[j] = "failed"} = Derniers(f)
  BY <1>4 DEF QueDesEchecs
<1> QED
  BY <1>3, <1>5 DEF Epuisee

\* What has ended stays as it is.
LEMMA FiniReste ==
  ASSUME Socle, [Next]_vars, NEW f \in Fleet, NEW j \in Finis(f)
  PROVE  j \in Finis(f)' /\ travail'[j] = travail[j]
<1> USE DEF Socle, Finis, Produits
<1>1. j \in Job /\ flotte[j] = f /\ travail[j] \in {"done", "failed"}
  OBVIOUS
<1>2. SUFFICES travail'[j] = travail[j] /\ flotte'[j] = flotte[j]
  BY <1>1
<1>3. CASE UNCHANGED travaux
  BY <1>3 DEF travaux
<1>4. ASSUME NEW k \in Job, Prochain(k) PROVE k # j
  BY <1>1, <1>4 DEF Prochain, Libres, TypeOK, Job
<1>5. ASSUME NEW w \in Worker, Insere(w) PROVE travail'[j] = travail[j] /\ flotte'[j] = flotte[j]
  BY <1>1, <1>4, <1>5 DEF Insere, TypeOK, travaux
<1>6. ASSUME NEW w \in Worker, Valide(w) \/ (Tombe(w) /\ etape[w] = "insere")
      PROVE  travail'[j] = travail[j] /\ flotte'[j] = flotte[j]
  <2>1. etape[w] = "insere" /\ insere[w] # j
    BY <1>1, <1>6 DEF Valide, InsertionsSensees
  <2> QED
    BY <1>1, <1>6, <2>1 DEF Valide, Tombe, TypeOK
<1>7. ASSUME NEW a \in Appelant, enqueue_job(a)
      PROVE  travail'[j] = travail[j] /\ flotte'[j] = flotte[j]
  BY <1>1, <1>4, <1>7 DEF enqueue_job, TypeOK
<1>8. ASSUME NEW k \in Job, claim_next_job(k) \/ Finit(k) \/ Revient(k)
      PROVE  travail'[j] = travail[j] /\ flotte'[j] = flotte[j]
  BY <1>1, <1>8 DEF claim_next_job, Finit, Revient, TypeOK
<1> QED
  BY <1>3, <1>5, <1>6, <1>7, <1>8, PasDesTravaux

\* The INSERT of a poll that found its fleet eligible.
Ajoute(w, f) == /\ Insere(w) /\ etape[w] = "verrou" /\ etape'[w] = "insere" /\ vise[w] = f
                /\ _ELIGIBLE(f) /\ UNCHANGED campagnes

\* A series grows by the INSERTs of the polls only, and by one job at a time.
LEMMA PasDeLaSuite ==
  ASSUME Socle, [Next]_vars, NEW f \in Fleet, NEW s \in Job
  PROVE  \/ Suite(f, s)' \subseteq Suite(f, s)
         \/ \E w \in Worker : /\ Ajoute(w, f) /\ Depuis(f, s)' = Depuis(f, s)
                              /\ \E j \in Job : Suite(f, s)' \subseteq Suite(f, s) \cup {j}
<1> USE DEF Socle
<1>1. CASE UNCHANGED travaux
  BY <1>1 DEF travaux, Suite
<1>2. ASSUME NEW w \in Worker, Insere(w), ~UNCHANGED travaux
      PROVE  \/ Suite(f, s)' \subseteq Suite(f, s)
             \/ /\ Ajoute(w, f) /\ Depuis(f, s)' = Depuis(f, s)
                /\ \E j \in Job : Suite(f, s)' \subseteq Suite(f, s) \cup {j}
  <2>1. PICK j \in Job : /\ Prochain(j)
                         /\ travail' = [travail EXCEPT ![j] = "insere"]
                         /\ flotte' = [flotte EXCEPT ![j] = vise[w]]
                         /\ Vers(w, "insere") /\ UNCHANGED <<voie, vise>>
    BY <1>2 DEF Insere
  <2>2. /\ travail[j] = "absent" /\ travail'[j] = "insere" /\ flotte'[j] = vise[w]
        /\ \A k \in Job \ {j} : travail'[k] = travail[k] /\ flotte'[k] = flotte[k]
    BY <2>1 DEF Prochain, Libres, TypeOK, Job
  <2>3. Suite(f, s)' \subseteq Suite(f, s) \cup {j}
    BY <2>1, <2>2 DEF Suite
  <2>4. Depuis(f, s)' = Depuis(f, s)
    BY <2>2 DEF Depuis, Finis, Produits
  <2>5. CASE vise[w] = f
    <3>1. _ELIGIBLE(f) /\ UNCHANGED campagnes /\ etape[w] = "verrou"
      BY <1>2, <2>5 DEF Insere
    <3>2. etape'[w] = "insere"
      BY <2>1, VersType
    <3> QED
      BY <1>2, <2>3, <2>4, <2>5, <3>1, <3>2 DEF Ajoute
  <2>6. CASE vise[w] # f
    BY <2>1, <2>2, <2>6 DEF Suite
  <2> QED
    BY <2>5, <2>6
<1>3. ASSUME NEW w \in Worker, Valide(w) PROVE Suite(f, s)' \subseteq Suite(f, s)
  BY <1>3 DEF Valide, TypeOK, InsertionsSensees, Suite
<1>4. ASSUME NEW w \in Worker, Tombe(w), etape[w] = "insere"
      PROVE  Suite(f, s)' \subseteq Suite(f, s)
  BY <1>4 DEF Tombe, TypeOK, Suite
<1>5. ASSUME NEW a \in Appelant, enqueue_job(a) PROVE Suite(f, s)' \subseteq Suite(f, s)
  BY <1>5 DEF enqueue_job, TypeOK, Suite
<1>6. ASSUME NEW j \in Job, claim_next_job(j) \/ Finit(j) \/ Revient(j)
      PROVE  Suite(f, s)' \subseteq Suite(f, s)
  BY <1>6 DEF claim_next_job, Finit, Revient, TypeOK, Suite
<1> QED
  BY <1>1, <1>2, <1>3, <1>4, <1>5, <1>6, PasDesTravaux

\* A poll that is not late stays so while the fleet serves and has failed too
\* much: it reads that before it produces.
LEMMA TardifsReste ==
  ASSUME TypeOK, [Next]_vars, NEW f \in Fleet, status[f] \in Servent, Epuisee(f),
         status'[f] \in Servent
  PROVE  Tardifs(f)' \subseteq Tardifs(f)
<1> DEFINE Tard(w) == \/ etape[w] \in {"arrets", "fins", "choix", "choisi", "enfiler", "verrou"}
                      \/ etape[w] = "epuisees" /\ lu[w] /\ f \notin instantane[w]
<1>1. SUFFICES ASSUME NEW v \in Worker, Tard(v)' PROVE Tard(v)
  BY DEF Tardifs
<1> USE DEF TypeOK
<1>2. CASE UNCHANGED <<etape, lu, instantane>>
  BY <1>1, <1>2
<1>3. ASSUME NEW w \in Worker, w # v, _produire_pour_une_campagne(w) \/ Tombe(w)
      PROVE  Tard(v)
  <2>1. etape'[v] = etape[v] /\ lu'[v] = lu[v] /\ instantane'[v] = instantane[v]
    BY <1>3 DEF _produire_pour_une_campagne, _poser_si_servable, une_campagne_vit, Lit, Ecrit,
       arreter_campagnes_epuisees, accuser_arrets_effectifs, clore_campagnes_terminees,
       campagne_a_servir, Verrouille, Insere, Valide, marquer_demarree, Tombe, Vers, Rentre
  <2> QED
    BY <1>1, <2>1
<1>4. CASE une_campagne_vit(v)
  BY <1>1, <1>4 DEF une_campagne_vit, Vers
<1>5. CASE arreter_campagnes_epuisees(v)
  BY <1>1, <1>5 DEF arreter_campagnes_epuisees, Lit, Ecrit
<1>6. CASE accuser_arrets_effectifs(v) \/ clore_campagnes_terminees(v) \/ campagne_a_servir(v)
           \/ Verrouille(v)
  BY <1>6 DEF accuser_arrets_effectifs, clore_campagnes_terminees, campagne_a_servir, Verrouille
<1>7. CASE Insere(v) \/ Valide(v) \/ marquer_demarree(v) \/ Tombe(v)
  BY <1>1, <1>7 DEF Insere, Valide, marquer_demarree, Tombe, Vers, Rentre
<1> HIDE DEF Tard
<1>8. ASSUME NEW w \in Worker, _produire_pour_une_campagne(w) \/ Tombe(w) PROVE Tard(v)
  BY <1>3, <1>4, <1>5, <1>6, <1>7, <1>8 DEF _produire_pour_une_campagne, _poser_si_servable
<1>9. CASE UNCHANGED vars \/ ~\E w \in Worker : _produire_pour_une_campagne(w) \/ Tombe(w)
  <2>1. UNCHANGED <<etape, lu, instantane>>
    BY <1>9 DEF Next, vars, sondages, campagnes, verrouiller_la_flotte, enqueue_job, Renonce,
       launch, armer, demander_arret, prendre, accuser_arret, claim_next_job, Finit, Revient
  <2> QED
    BY <1>2, <2>1
<1> QED
  BY <1>8, <1>9

\* A fleet serves again by an arming only, and an arming counts.
LEMMA PasDesArmements ==
  ASSUME TypeOK, [Next]_vars, NEW f \in Fleet
  PROVE  \/ armements'[f] = armements[f] /\ (status'[f] \in Servent => status[f] \in Servent)
         \/ armements'[f] = armements[f] + 1 /\ status[f] \notin Servent /\ status'[f] = "armed"
<1> USE DEF TypeOK, campagnes
<1>1. CASE armer(f)
  BY <1>1 DEF armer, Armables
<1>2. CASE armements'[f] = armements[f]
  <2>1. ASSUME NEW o \in Ordonnanceur, prendre(o, f) PROVE status[f] \in Servent
    BY <2>1 DEF prendre
  <2> QED
    BY <1>1, <1>2, <2>1, PasDuPreneur
<1>3. ASSUME NEW w \in Worker, _produire_pour_une_campagne(w) \/ Tombe(w)
      PROVE  armements'[f] = armements[f]
  BY <1>3 DEF _produire_pour_une_campagne, _poser_si_servable, une_campagne_vit, Lit, Ecrit,
     arreter_campagnes_epuisees, accuser_arrets_effectifs, clore_campagnes_terminees,
     campagne_a_servir, Verrouille, Insere, Valide, marquer_demarree, Tombe
<1>4. ASSUME NEW a \in Appelant, verrouiller_la_flotte(a) \/ enqueue_job(a) \/ Renonce(a)
      PROVE  armements'[f] = armements[f]
  BY <1>4 DEF verrouiller_la_flotte, enqueue_job, Renonce
<1>5. ASSUME NEW g \in Fleet, launch(g) \/ demander_arret(g) \/ (g # f /\ armer(g))
      PROVE  armements'[f] = armements[f]
  BY <1>5 DEF launch, demander_arret, armer
<1>6. ASSUME NEW g \in Fleet, NEW o \in Ordonnanceur, prendre(o, g) \/ accuser_arret(o, g)
      PROVE  armements'[f] = armements[f]
  BY <1>6 DEF accuser_arret, prendre
<1>7. ASSUME NEW j \in Job, claim_next_job(j) \/ Finit(j) \/ Revient(j)
      PROVE  armements'[f] = armements[f]
  BY <1>7 DEF claim_next_job, Finit, Revient
<1>8. CASE UNCHANGED vars
  BY <1>2, <1>8 DEF vars
<1> QED
  BY <1>1, <1>2, <1>3, <1>4, <1>5, <1>6, <1>7, <1>8 DEF Next

LEMMA InsereesStep == Socle /\ InsereesTenues /\ [Next]_vars => InsereesTenues'
<1> SUFFICES ASSUME Socle, InsereesTenues, [Next]_vars, NEW j \in Job, travail'[j] = "insere"
             PROVE  \E w \in Worker : etape'[w] = "insere" /\ insere'[w] = j
  BY DEF InsereesTenues
<1> USE DEF Socle, TypeOK
<1>1. ASSUME NEW w \in Worker, Insere(w), travail[j] # "insere"
      PROVE  etape'[w] = "insere" /\ insere'[w] = j
  <2>1. PICK k \in Job : /\ travail' = [travail EXCEPT ![k] = "insere"]
                         /\ insere' = [insere EXCEPT ![w] = k] /\ Vers(w, "insere")
    BY <1>1 DEF Insere, travaux
  <2> QED
    BY <1>1, <2>1, VersType
<1>2. CASE travail[j] = "insere"
  <2>1. PICK w \in Worker : etape[w] = "insere" /\ insere[w] = j
    BY <1>2 DEF InsereesTenues
  <2>2. CASE UNCHANGED <<etape, vise, insere>>
    BY <2>1, <2>2
  <2>3. ASSUME NEW v \in Worker, v # w, _produire_pour_une_campagne(v) \/ Tombe(v)
        PROVE  etape'[w] = "insere" /\ insere'[w] = j
    BY <2>1, <2>3, PasDuSondage
  <2>4. CASE Valide(w) \/ Tombe(w)
    BY <1>2, <2>1, <2>4 DEF Valide, Tombe
  <2>5. ASSUME _produire_pour_une_campagne(w), ~Valide(w) PROVE FALSE
    BY <2>1, <2>5 DEF _produire_pour_une_campagne, _poser_si_servable, une_campagne_vit,
       arreter_campagnes_epuisees, accuser_arrets_effectifs, clore_campagnes_terminees,
       campagne_a_servir, Verrouille, Insere, marquer_demarree
  <2> QED
    BY <2>2, <2>3, <2>4, <2>5, HorsSondage
<1>3. CASE travail[j] # "insere"
  <2>1. ASSUME NEW w \in Worker, Valide(w) \/ Tombe(w) PROVE FALSE
    BY <1>3, <2>1 DEF Valide, Tombe
  <2>2. ASSUME NEW a \in Appelant, enqueue_job(a) PROVE FALSE
    BY <1>3, <2>2 DEF enqueue_job
  <2>3. ASSUME NEW k \in Job, claim_next_job(k) \/ Finit(k) \/ Revient(k) PROVE FALSE
    BY <1>3, <2>3 DEF claim_next_job, Finit, Revient
  <2>4. ~UNCHANGED travaux
    BY <1>3 DEF travaux
  <2> QED
    BY <1>1, <1>3, <2>1, <2>2, <2>3, <2>4, PasDesTravaux
<1> QED
  BY <1>2, <1>3

LEMMA ArmeesStep == Socle /\ GardeSert /\ ArmeesAvant /\ [Next]_vars => ArmeesAvant'
<1> SUFFICES ASSUME Socle, GardeSert, ArmeesAvant, [Next]_vars PROVE ArmeesAvant'
  OBVIOUS
<1> USE DEF Socle, TypeOK
<1>1. \A f \in Fleet : armements'[f] >= armements[f] /\ armements'[f] \in Nat
                       /\ armements[f] \in Nat
  BY PasDesArmements
<1>2. ASSUME NEW f \in Fleet, status'[f] \in Servent PROVE armements'[f] >= 1
  BY <1>1, <1>2, PasDesArmements DEF ArmeesAvant
<1>3. ASSUME NEW j \in Job, flotte'[j] \in Fleet, flotte'[j] # flotte[j]
      PROVE  status[flotte'[j]] \in Servent
  <2>1. ASSUME NEW w \in Worker, Insere(w) PROVE status[flotte'[j]] \in Servent
    BY <1>3, <2>1 DEF Insere, travaux, _ELIGIBLE
  <2>2. ASSUME NEW a \in Appelant, enqueue_job(a) PROVE status[flotte'[j]] \in Servent
    BY <1>3, <2>2 DEF enqueue_job, GardeSert
  <2>3. ASSUME NEW w \in Worker, Valide(w) \/ Tombe(w) PROVE FALSE
    BY <1>3, <2>3 DEF Valide, Tombe
  <2>4. ASSUME NEW k \in Job, claim_next_job(k) \/ Finit(k) \/ Revient(k) PROVE FALSE
    BY <1>3, <2>4 DEF claim_next_job, Finit, Revient
  <2>5. ~UNCHANGED travaux
    BY <1>3 DEF travaux
  <2> QED
    BY <2>1, <2>2, <2>3, <2>4, <2>5, PasDesTravaux
<1>4. ASSUME NEW j \in Job, flotte'[j] \in Fleet PROVE armements'[flotte'[j]] >= 1
  <2>1. armements[flotte'[j]] >= 1
    BY <1>3, <1>4 DEF ArmeesAvant
  <2> QED
    BY <1>1, <1>4, <2>1
<1> QED
  BY <1>2, <1>4 DEF ArmeesAvant

LEMMA AcquisStep == Acquis /\ [Next]_vars => Acquis'
<1> SUFFICES ASSUME Acquis, [Next]_vars PROVE Acquis'
  OBVIOUS
<1>1. Socle'
  BY SocleStep DEF Acquis
<1>2. GardeSert'
  BY GardeStep DEF Acquis, Socle
<1>3. Bornes'
  BY BornesStep DEF Acquis
<1>4. InsereesTenues' /\ ArmeesAvant'
  BY InsereesStep, ArmeesStep DEF Acquis
<1> QED
  BY <1>1, <1>2, <1>3, <1>4 DEF Acquis

\* Below the limit, a series is made of what has failed and of what is in flight.
LEMMA SuiteCourte ==
  ASSUME Acquis, NEW f \in Fleet, NEW s \in Job
  PROVE  Cardinality(Suite(f, s)) <= Cardinality(Depuis(f, s)) + workers[f]
<1> USE DEF Acquis, Socle
<1> DEFINE V == VolDesSondages(f)
           I == {j \in Job : flotte[j] = f /\ travail[j] = "insere"}
           D == Depuis(f, s)
<1>1. V \in SUBSET Job /\ D \in SUBSET Job /\ I \in SUBSET Job
  BY DEF VolDesSondages, EnVol, Produits, Depuis, Finis
<1>2. Suite(f, s) \subseteq D \cup (V \cup I)
  BY DEF Suite, VolDesSondages, EnVol, Produits, Depuis, Finis
<1>3. workers[f] \in Nat /\ Cardinality(V) \in Nat /\ Cardinality(D) \in Nat
      /\ IsFiniteSet(V) /\ IsFiniteSet(D)
  BY <1>1, JobsFinis, FleetAssumption
<1>4. Cardinality(V \cup I) <= workers[f] /\ Cardinality(V \cup I) \in Nat
  <2>1. CASE I = {}
    BY <1>3, <2>1 DEF Bornes, PlafondTenu, VolDesSondages
  <2>2. ASSUME NEW i \in I PROVE Cardinality(V \cup I) <= workers[f]
    <3>1. PICK w \in Worker : etape[w] = "insere" /\ insere[w] = i
      BY <2>2 DEF InsereesTenues
    <3>2. vise[w] = f
      BY <2>2, <3>1 DEF InsertionsSensees
    <3>3. ASSUME NEW k \in I PROVE k = i
      <4>1. PICK v \in Worker : etape[v] = "insere" /\ insere[v] = k
        BY <3>3 DEF InsereesTenues
      <4>2. vise[v] = f
        BY <3>3, <4>1 DEF InsertionsSensees
      <4>3. v = w
        BY <3>1, <3>2, <4>1, <4>2 DEF VerrouExclusif, EnVerrou
      <4> QED
        BY <3>1, <4>1, <4>3
    <3>4. V \cup I = V \cup {i}
      BY <2>2, <3>3
    <3>5. Cardinality(V) < workers[f]
      BY <3>1, <3>2 DEF Bornes, Place, Insertion
    <3>6. Cardinality(V \cup {i}) <= Cardinality(V) + 1 /\ Cardinality(V \cup {i}) \in Nat
      BY <1>1, UnDePlus
    <3> HIDE DEF V, I
    <3> QED
      BY <1>3, <3>4, <3>5, <3>6
  <2>3. Cardinality(V \cup I) \in Nat
    <3>1. V \cup I \in SUBSET Job
      BY <1>1
    <3> QED
      BY <3>1, JobsFinis
  <2> QED
    BY <2>1, <2>2, <2>3
<1>5. Cardinality(D \cup (V \cup I)) <= Cardinality(D) + Cardinality(V \cup I)
  <2>1. V \cup I \in SUBSET Job /\ D \cap (V \cup I) \in SUBSET Job
    BY <1>1
  <2> DEFINE W == V \cup I
  <2>2. IsFiniteSet(D) /\ IsFiniteSet(W) /\ Cardinality(D \cap W) \in Nat
        /\ Cardinality(D) \in Nat /\ Cardinality(W) \in Nat
    BY <1>1, <2>1, JobsFinis
  <2>3. Cardinality(D \cup W) = Cardinality(D) + Cardinality(W) - Cardinality(D \cap W)
    <3> HIDE DEF W, D
    <3> QED
      BY <2>2, FS_Union
  <2> QED
    BY <2>2, <2>3
<1>6. Cardinality(Suite(f, s)) <= Cardinality(D \cup (V \cup I))
      /\ Cardinality(Suite(f, s)) \in Nat /\ Cardinality(D \cup (V \cup I)) \in Nat
  <2>1. D \cup (V \cup I) \in SUBSET Job
    BY <1>1
  <2> QED
    BY <1>2, <2>1, SousJobs
<1> HIDE DEF D, V, I
<1>7. Cardinality(Suite(f, s)) <= Cardinality(D) + workers[f]
  BY <1>3, <1>4, <1>5, <1>6
<1> QED
  BY <1>7 DEF D

LEMMA Fois ==
  ASSUME NEW a \in Nat, NEW c \in Nat, NEW b \in Nat, c >= 1
  PROVE  b <= c * b /\ a * b \in Nat /\ (c = a + 1 => c * b = a * b + b)
<1>1. ASSUME NEW n \in Nat PROVE n * b \in Nat /\ (n + 1) * b = n * b + b
  OBVIOUS
<1>2. c - 1 \in Nat /\ c = (c - 1) + 1
  OBVIOUS
<1>3. (c - 1) * b \in Nat /\ c * b = (c - 1) * b + b
  BY <1>1, <1>2
<1> QED
  BY <1>1, <1>3

LEMMA SeriesStep == Acquis /\ SeriesBornees /\ [Next]_vars => SeriesBornees'
<1> SUFFICES ASSUME Acquis, SeriesBornees, [Next]_vars, NEW f \in Fleet, NEW s \in Job,
                    max_consecutive_failures[f] > 0, QueDesEchecs(f, s)',
                    Cardinality(Depuis(f, s)') >= max_consecutive_failures[f]
             PROVE  Cardinality(Suite(f, s)') + Cardinality(Tardifs(f)')
                      < max_consecutive_failures[f] + workers[f]
                        + armements'[f] * Cardinality(Worker)
  BY DEF SeriesBornees, QueDesEchecs
<1> DEFINE m == max_consecutive_failures[f]
           b == Cardinality(Worker)
           P == Suite(f, s)
           T == Tardifs(f)
           C == Cardinality(P)
           R == Cardinality(T)
<1>1. m \in Nat \ {0} /\ workers[f] \in Nat \ {0} /\ b \in Nat
  BY FleetAssumption, FS_CardinalityType
<1>2. TypeOK /\ TypeOK' /\ Socle
  BY SocleStep DEF Acquis, Socle
<1>3. /\ P \in SUBSET Job /\ P' \in SUBSET Job
      /\ C \in Nat /\ C' \in Nat
  BY JobsFinis DEF Suite
<1>4. /\ T \subseteq Worker /\ T' \subseteq Worker /\ IsFiniteSet(T) /\ IsFiniteSet(T')
      /\ R \in Nat /\ R' \in Nat /\ R <= b /\ R' <= b
  <2>1. T \subseteq Worker /\ T' \subseteq Worker /\ IsFiniteSet(Worker)
    BY FleetAssumption DEF Tardifs
  <2> QED
    BY <2>1, FS_Subset, FS_CardinalityType
<1>5. /\ Depuis(f, s) \in SUBSET Job /\ Depuis(f, s) \subseteq Depuis(f, s)'
      /\ QueDesEchecs(f, s)
  BY <1>2, FiniReste DEF Depuis, Finis, Produits, QueDesEchecs
<1>6. armements[f] \in Nat /\ armements'[f] \in Nat /\ armements'[f] >= 1
  <2>1. PICK j \in Job : flotte'[j] = f
    <3>1. Depuis(f, s)' # {}
      BY <1>1, FS_EmptySet
    <3> QED
      BY <3>1 DEF Depuis, Finis, Produits
  <2>2. ArmeesAvant'
    BY AcquisStep DEF Acquis
  <2> QED
    BY <1>2, <2>1, <2>2 DEF ArmeesAvant, TypeOK
<1>7. b <= armements'[f] * b /\ armements[f] * b \in Nat
      /\ (armements'[f] = armements[f] + 1 => armements'[f] * b = armements[f] * b + b)
  <2> HIDE DEF b
  <2> QED
    BY <1>1, <1>6, Fois
<1>8. CASE Cardinality(Depuis(f, s)) < m
  <2>0. Depuis(f, s)' # Depuis(f, s)
    <3>1. SUFFICES ASSUME Depuis(f, s)' = Depuis(f, s) PROVE FALSE
      OBVIOUS
    <3>2. Cardinality(Depuis(f, s)') = Cardinality(Depuis(f, s))
      BY <3>1
    <3>3. Cardinality(Depuis(f, s)) \in Nat
      BY <1>5, JobsFinis
    <3> QED
      BY <1>1, <1>8, <3>2, <3>3
  <2>1. P' \subseteq P
    BY <1>2, <2>0, PasDeLaSuite
  <2>2. C' <= C
    BY <1>3, <2>1, SousJobs
  <2>3. C <= Cardinality(Depuis(f, s)) + workers[f] /\ Cardinality(Depuis(f, s)) \in Nat
    BY <1>5, SuiteCourte, JobsFinis
  <2> HIDE DEF m, b, C, R
  <2>4. C' + R' < m + workers[f] + armements'[f] * b
    BY <1>1, <1>3, <1>4, <1>6, <1>7, <1>8, <2>2, <2>3
  <2> QED
    BY <2>4 DEF m, b, C, R
<1>9. CASE Cardinality(Depuis(f, s)) >= m
  <2>1. C + R < m + workers[f] + armements[f] * b
    BY <1>5, <1>9 DEF SeriesBornees
  <2>2. Epuisee(f)
    BY <1>2, <1>5, <1>9, SerieEpuise
  <2>3. /\ armements'[f] = armements[f] \/ armements'[f] = armements[f] + 1
        /\ armements'[f] = armements[f] /\ status'[f] \in Servent => status[f] \in Servent
        /\ armements'[f] = armements[f] + 1 => status[f] \notin Servent
    BY <1>2, <1>6, PasDesArmements
  <2>4. ASSUME NEW w \in Worker, Ajoute(w, f)
        PROVE  /\ status[f] \in Servent /\ status'[f] \in Servent
               /\ armements'[f] = armements[f] /\ w \in T /\ w \notin T'
    BY <1>2, <2>4 DEF Ajoute, _ELIGIBLE, campagnes, Tardifs
  <2>5. ASSUME status'[f] \notin Servent PROVE R' = 0
    <3>1. T' = {}
      BY <2>5 DEF Tardifs
    <3> QED
      BY <3>1, FS_EmptySet
  <2>6. ASSUME status[f] \in Servent, status'[f] \in Servent PROVE T' \subseteq T
    BY <1>2, <2>2, <2>6, TardifsReste
  <2>7. CASE P' \subseteq P
    <3>1. C' <= C
      BY <1>3, <2>7, SousJobs
    <3>2. CASE status'[f] \notin Servent
      <4> HIDE DEF m, b, C, R
      <4>1. C' + R' < m + workers[f] + armements'[f] * b
        BY <1>1, <1>3, <1>4, <1>6, <1>7, <2>1, <2>3, <2>5, <3>1, <3>2
      <4> QED
        BY <4>1 DEF m, b, C, R
    <3>3. CASE status'[f] \in Servent /\ status[f] \notin Servent
      <4>1. armements'[f] = armements[f] + 1
        BY <2>3, <3>3
      <4> HIDE DEF m, b, C, R
      <4>2. C' + R' < m + workers[f] + armements'[f] * b
        BY <1>1, <1>3, <1>4, <1>6, <1>7, <2>1, <3>1, <4>1
      <4> QED
        BY <4>2 DEF m, b, C, R
    <3>4. CASE status'[f] \in Servent /\ status[f] \in Servent
      <4>1. armements'[f] = armements[f]
        BY <2>3, <3>4
      <4>2. R' <= R
        BY <1>4, <2>6, <3>4, FS_Subset
      <4> HIDE DEF m, b, C, R
      <4>3. C' + R' < m + workers[f] + armements'[f] * b
        BY <1>1, <1>3, <1>4, <1>6, <1>7, <2>1, <3>1, <4>1, <4>2
      <4> QED
        BY <4>3 DEF m, b, C, R
    <3> QED
      BY <3>2, <3>3, <3>4
  <2>8. ASSUME NEW w \in Worker, Ajoute(w, f), NEW j \in Job, P' \subseteq P \cup {j}
        PROVE  C' + R' < m + workers[f] + armements'[f] * b
    <3>1. C' <= C + 1
      <4>1. P \cup {j} \in SUBSET Job
        BY <1>3
      <4>2. C' <= Cardinality(P \cup {j}) /\ Cardinality(P \cup {j}) \in Nat
        BY <2>8, <4>1, SousJobs
      <4>3. Cardinality(P \cup {j}) <= C + 1
        BY <1>3, UnDePlus
      <4> QED
        BY <1>3, <4>2, <4>3
    <3>2. R' <= R - 1
      <4>1. T' \subseteq T \ {w} /\ w \in T
        BY <2>4, <2>6, <2>8
      <4>2. IsFiniteSet(T \ {w}) /\ Cardinality(T \ {w}) = R - 1
        BY <1>4, <4>1, FS_RemoveElement
      <4> QED
        BY <4>1, <4>2, FS_Subset
    <3>3. armements'[f] = armements[f]
      BY <2>4, <2>8
    <3> HIDE DEF m, b, C, R
    <3> QED
      BY <1>1, <1>3, <1>4, <1>6, <1>7, <2>1, <3>1, <3>2, <3>3
  <2> QED
    BY <1>2, <2>7, <2>8, PasDeLaSuite
<1> QED
  <2>1. Cardinality(Depuis(f, s)) \in Nat
    BY <1>5, JobsFinis
  <2> QED
    BY <1>1, <1>8, <1>9, <2>1

LEMMA InitSeries == Init => Acquis /\ SeriesBornees
<1> SUFFICES ASSUME Init PROVE Acquis /\ SeriesBornees
  OBVIOUS
<1>1. Socle /\ GardeSert /\ Bornes
  BY InitSocle, InitBornes
<1>2. InsereesTenues /\ ArmeesAvant
  BY FleetAssumption DEF Init, InsereesTenues, ArmeesAvant
<1>3. ASSUME NEW f \in Fleet, NEW s \in Job PROVE Cardinality(Depuis(f, s)) = 0
  <2>1. Depuis(f, s) = {}
    BY DEF Init, Depuis, Finis, Produits
  <2> QED
    BY <2>1, FS_EmptySet
<1> QED
  BY <1>1, <1>2, <1>3, FleetAssumption DEF Acquis, SeriesBornees

\* The failures at the end of a fleet begin at a first one.
LEMMA SerieDepuis ==
  ASSUME Acquis, SeriesBornees, NEW f \in Fleet, max_consecutive_failures[f] > 0
  PROVE  Cardinality({j \in Serie(f) : voie[j] = "produit"})
           < max_consecutive_failures[f] + workers[f] + armements[f] * Cardinality(Worker)
<1> DEFINE m == max_consecutive_failures[f]
           b == Cardinality(Worker)
           S == {j \in Serie(f) : voie[j] = "produit"}
<1>1. /\ m \in Nat \ {0} /\ workers[f] \in Nat \ {0} /\ b \in Nat /\ armements[f] \in Nat
      /\ armements[f] * b \in Nat
  <2>1. m \in Nat \ {0} /\ workers[f] \in Nat \ {0} /\ b \in Nat /\ armements[f] \in Nat
    BY FleetAssumption, FS_CardinalityType DEF Acquis, Socle, TypeOK
  <2> HIDE DEF b, m
  <2> QED
    BY <2>1
<1>2. Serie(f) \in SUBSET Job /\ S \in SUBSET Job
  BY DEF Serie, Finis, Produits
<1>3. CASE S = {}
  <2>1. Cardinality(S) = 0
    BY <1>3, FS_EmptySet
  <2> HIDE DEF b, m, S
  <2>2. Cardinality(S) < m + workers[f] + armements[f] * b
    BY <1>1, <2>1
  <2> QED
    BY <2>2 DEF b, m, S
<1>4. CASE S # {}
  <2>1. Serie(f) # {} /\ Serie(f) \subseteq Nat
    BY <1>2, <1>4, FleetAssumption DEF Job
  <2>2. PICK s \in Serie(f) : \A k \in Serie(f) : s <= k
    BY <2>1, Plancher
  <2>3. s \in Job /\ QueDesEchecs(f, s)
    BY <1>2, <2>2 DEF Serie, Depuis, QueDesEchecs
  <2>4. /\ S \subseteq Depuis(f, s) /\ S \subseteq Suite(f, s)
        /\ Depuis(f, s) \in SUBSET Job /\ Suite(f, s) \in SUBSET Job
    <3>1. ASSUME NEW k \in Serie(f) PROVE k \in Finis(f) /\ k >= s
      <4>1. s <= k /\ s \in Nat /\ k \in Nat
        BY <2>1, <2>2
      <4> QED
        BY <4>1 DEF Serie
    <3> QED
      BY <3>1 DEF Depuis, Suite, Finis, Produits
  <2>5. /\ Cardinality(S) <= Cardinality(Depuis(f, s)) /\ Cardinality(S) \in Nat
        /\ Cardinality(S) <= Cardinality(Suite(f, s)) /\ Cardinality(Suite(f, s)) \in Nat
        /\ Cardinality(Depuis(f, s)) \in Nat
    BY <2>4, SousJobs
  <2>6. CASE Cardinality(Depuis(f, s)) < m
    <3> HIDE DEF b, m, S
    <3>1. Cardinality(S) < m + workers[f] + armements[f] * b
      BY <1>1, <2>5, <2>6
    <3> QED
      BY <3>1 DEF b, m, S
  <2>7. CASE Cardinality(Depuis(f, s)) >= m
    <3>1. Cardinality(Suite(f, s)) + Cardinality(Tardifs(f))
            < m + workers[f] + armements[f] * b
      BY <2>3, <2>7 DEF SeriesBornees
    <3>2. Cardinality(Tardifs(f)) \in Nat
      <4>1. Tardifs(f) \subseteq Worker /\ IsFiniteSet(Worker)
        BY FleetAssumption DEF Tardifs
      <4> QED
        BY <4>1, FS_Subset, FS_CardinalityType
    <3> HIDE DEF b, m, S
    <3>3. Cardinality(S) < m + workers[f] + armements[f] * b
      BY <1>1, <2>5, <3>1, <3>2
    <3> QED
      BY <3>3 DEF b, m, S
  <2> HIDE DEF m
  <2> QED
    BY <1>1, <2>5, <2>6, <2>7
<1> QED
  BY <1>3, <1>4

\* A fleet that only fails is stopped: past the failures allowed, polls produce
\* for it what was in flight, and one job per poll and per arming at most
\* (arreter_campagnes_epuisees).
THEOREM FailuresBounded == Spec => []EchecsBornes
<1>1. Acquis /\ SeriesBornees => EchecsBornes
  BY SerieDepuis DEF EchecsBornes
<1> QED
  BY <1>1, InitSeries, AcquisStep, SeriesStep, PTL DEF Spec

-----------------------------------------------------------------------------
(* The life cycle of a fleet. *)

\* A fleet that was armed is no longer a draft.
Lancees == \A f \in Fleet : armements[f] >= 1 => status[f] # "draft"

\* What a poll has read of the fleets it will close stays true until it writes:
\* failures and rows are never taken back.
Lectures ==
  \A w \in Worker, f \in Fleet :
    lu[w] /\ f \in instantane[w] =>
      /\ etape[w] = "epuisees" => /\ max_consecutive_failures[f] > 0
                                  /\ Cardinality(Echecs(f)) >= max_consecutive_failures[f]
      /\ etape[w] = "fins" => Cardinality(Produits(f)) >= max_rows[f]

Vivantes == Acquis /\ Lancees /\ Lectures

\* The life cycle counts as this module does.
LEMMA MemeCardinal == ASSUME NEW S PROVE Cycle!Cardinality(S) = Cardinality(S)
BY DEF Cycle!Cardinality, Cardinality

\* The jobs of a fleet are those of its polls and those of requests.
LEMMA ProduitsPartages ==
  ASSUME TypeOK, NEW f \in Fleet
  PROVE  /\ DesSondages(f) \cup DesRequetes(f) = Produits(f)
         /\ DesSondages(f) \ Finis(f) = VolDesSondages(f)
BY DEF TypeOK, DesSondages, DesRequetes, VolDesSondages, EnVol, Finis, Produits

\* The commit of a poll: a job for which there is still room.
LEMMA ValideProduit ==
  ASSUME Acquis, Lancees, NEW w \in Worker, Valide(w)
  PROVE  Cycle!Travail
<1> USE DEF Acquis, Socle
<1>0. PICK f \in Fleet, j \in Job : f = vise[w] /\ j = insere[w]
  BY DEF Valide, TypeOK
<1>1. /\ etape[w] = "insere" /\ travail[j] = "insere"
      /\ flotte[j] = f /\ voie[j] = "produit" /\ UNCHANGED <<flotte, voie, status, taken_by>>
      /\ travail'[j] = "pending" /\ \A k \in Job \ {j} : travail'[k] = travail[k]
  BY <1>0 DEF Valide, TypeOK, InsertionsSensees, campagnes
<1>2. \A g \in Fleet : j \notin DesSondages(g) \cup DesRequetes(g)
  BY <1>1 DEF DesSondages, DesRequetes, Produits
<1>3. status[f] # "draft"
  BY <1>1, FleetAssumption DEF ArmeesAvant, Lancees, TypeOK
<1>4. /\ Cardinality(DesSondages(f)) < max_rows[f]
      /\ Cardinality(DesSondages(f) \ Finis(f)) < workers[f]
  BY <1>0, <1>1, ProduitsPartages DEF Bornes, Place, Insertion
<1>5. /\ DesSondages(f)' = DesSondages(f) \cup {j}
      /\ \A g \in Fleet \ {f} : DesSondages(g)' = DesSondages(g)
  <2>1. DesSondages(f)' = DesSondages(f) \cup {j}
    BY <1>1 DEF DesSondages, Produits
  <2>2. ASSUME NEW g \in Fleet \ {f} PROVE DesSondages(g)' = DesSondages(g)
    BY <1>1 DEF DesSondages, Produits
  <2> QED
    BY <2>1, <2>2
<1>6. [g \in Fleet |-> DesSondages(g)]'
        = [[g \in Fleet |-> DesSondages(g)] EXCEPT ![f] = @ \cup {j}]
  BY <1>1, <1>5
<1>7. \A g \in Fleet : /\ Finis(g)' = Finis(g) /\ Echecs(g)' = Echecs(g)
                       /\ DesRequetes(g)' = DesRequetes(g)
  BY <1>1 DEF Finis, Echecs, DesRequetes, Produits
<1>8. Cycle!Nouveau(j)
  BY <1>2 DEF Cycle!Nouveau
<1>9. Cycle!Produit(f, j)
  <2>1. /\ [g \in Fleet |-> DesSondages(g)][f] = DesSondages(f)
        /\ [g \in Fleet |-> Finis(g)][f] = Finis(f)
    OBVIOUS
  <2>2. /\ Cycle!Cardinality([g \in Fleet |-> DesSondages(g)][f]) < max_rows[f]
        /\ Cycle!Cardinality(
             [g \in Fleet |-> DesSondages(g)][f] \ [g \in Fleet |-> Finis(g)][f]) < workers[f]
    BY <1>4, <2>1, MemeCardinal
  <2> QED
    BY <1>3, <1>6, <1>7, <1>8, <2>2 DEF Cycle!Produit
<1> QED
  BY <1>1, <1>9 DEF Cycle!Travail, Cycle!rangee

\* The commit of a request that enqueues.
LEMMA EnqueueAjoute ==
  ASSUME Acquis, NEW a \in Appelant, enqueue_job(a)
  PROVE  Cycle!Travail
<1> USE DEF Acquis, Socle
<1>0. PICK f \in Fleet : f = garde[a]
  BY DEF enqueue_job, TypeOK
<1>1. PICK j \in Job : /\ Prochain(j)
                       /\ travail' = [travail EXCEPT ![j] = "pending"]
                       /\ flotte' = [flotte EXCEPT ![j] = f]
                       /\ voie' = [voie EXCEPT ![j] = "enfile"]
  BY <1>0 DEF enqueue_job
<1>2. status[f] \in Servent /\ UNCHANGED <<status, taken_by>>
  BY <1>0, FleetAssumption DEF enqueue_job, GardeSert, campagnes
<1>3. /\ travail[j] = "absent" /\ travail'[j] = "pending" /\ flotte'[j] = f /\ voie'[j] = "enfile"
      /\ \A k \in Job \ {j} : /\ travail'[k] = travail[k] /\ flotte'[k] = flotte[k]
                             /\ voie'[k] = voie[k]
  BY <1>1, <1>2 DEF Prochain, Libres, TypeOK, Job
<1>4. \A g \in Fleet : j \notin DesSondages(g) \cup DesRequetes(g)
  BY <1>3 DEF DesSondages, DesRequetes, Produits
<1>5. /\ DesRequetes(f)' = DesRequetes(f) \cup {j}
      /\ \A g \in Fleet \ {f} : DesRequetes(g)' = DesRequetes(g)
  <2>1. DesRequetes(f)' = DesRequetes(f) \cup {j}
    BY <1>3 DEF DesRequetes, Produits
  <2>2. ASSUME NEW g \in Fleet \ {f} PROVE DesRequetes(g)' = DesRequetes(g)
    BY <1>3 DEF DesRequetes, Produits
  <2> QED
    BY <2>1, <2>2
<1>6. [g \in Fleet |-> DesRequetes(g)]'
        = [[g \in Fleet |-> DesRequetes(g)] EXCEPT ![f] = @ \cup {j}]
  BY <1>2, <1>5
<1>7. \A g \in Fleet : /\ Finis(g)' = Finis(g) /\ Echecs(g)' = Echecs(g)
                       /\ DesSondages(g)' = DesSondages(g)
  BY <1>3 DEF Finis, Echecs, DesSondages, Produits
<1>8. Cycle!Nouveau(j)
  BY <1>4 DEF Cycle!Nouveau
<1>9. Cycle!Ajoute(f, j)
  BY <1>2, <1>6, <1>7, <1>8 DEF Cycle!Ajoute, Cycle!Servent
<1> QED
  BY <1>2, <1>9 DEF Cycle!Travail, Cycle!rangee

\* A job that ends, of a fleet or of none.
LEMMA FinitFinit ==
  ASSUME TypeOK, NEW j \in Job, Finit(j)
  PROVE  Cycle!Travail \/ UNCHANGED Cycle!travaux
<1>1. /\ travail[j] = "claimed" /\ travail'[j] \in {"done", "failed"}
      /\ UNCHANGED <<flotte, voie, status, taken_by>>
      /\ \A k \in Job \ {j} : travail'[k] = travail[k]
  BY DEF Finit, TypeOK, campagnes
<1>2. \A g \in Fleet : DesSondages(g)' = DesSondages(g) /\ DesRequetes(g)' = DesRequetes(g)
  BY <1>1 DEF DesSondages, DesRequetes, Produits
<1>3. CASE flotte[j] \notin Fleet
  <2>1. \A g \in Fleet : Finis(g)' = Finis(g) /\ Echecs(g)' = Echecs(g)
    BY <1>1, <1>3 DEF Finis, Echecs, Produits
  <2> QED
    BY <1>2, <2>1 DEF Cycle!travaux
<1>4. ASSUME NEW f \in Fleet, f = flotte[j] PROVE Cycle!Travail
  <2>1. j \in (DesSondages(f) \cup DesRequetes(f)) \ Finis(f)
    BY <1>1, <1>4 DEF DesSondages, DesRequetes, Finis, Produits, TypeOK
  <2>2. /\ Finis(f)' = Finis(f) \cup {j}
        /\ \A g \in Fleet \ {f} : Finis(g)' = Finis(g) /\ Echecs(g)' = Echecs(g)
        /\ Echecs(f)' = Echecs(f) \cup (IF travail'[j] = "failed" THEN {j} ELSE {})
    BY <1>1, <1>4 DEF Finis, Echecs, Produits
  <2>3. [g \in Fleet |-> Echecs(g)]' \in
          {[g \in Fleet |-> Echecs(g)],
           [[g \in Fleet |-> Echecs(g)] EXCEPT ![f] = @ \cup {j}]}
    <3>1. CASE travail'[j] = "failed"
      <4>1. \A g \in Fleet : Echecs(g)' = IF g = f THEN Echecs(g) \cup {j} ELSE Echecs(g)
        BY <2>2, <3>1
      <4> QED
        BY <4>1
    <3>2. CASE travail'[j] # "failed"
      <4>1. \A g \in Fleet : Echecs(g)' = Echecs(g)
        BY <2>2, <3>2
      <4> QED
        BY <4>1
    <3> QED
      BY <3>1, <3>2
  <2>4. [g \in Fleet |-> Finis(g)]' = [[g \in Fleet |-> Finis(g)] EXCEPT ![f] = @ \cup {j}]
    <3>1. \A g \in Fleet : Finis(g)' = IF g = f THEN Finis(g) \cup {j} ELSE Finis(g)
      BY <2>2
    <3> QED
      BY <3>1
  <2>5. Cycle!Finit(f, j)
    BY <1>2, <1>4, <2>1, <2>3, <2>4 DEF Cycle!Finit
  <2> QED
    BY <1>1, <1>4, <2>5 DEF Cycle!Travail, Cycle!rangee
<1> QED
  BY <1>3, <1>4

\* Jobs move one at a time, as the life cycle lets them.
LEMMA TravauxSuivent ==
  ASSUME Acquis, Lancees, [Next]_vars
  PROVE  Cycle!Travail \/ UNCHANGED Cycle!travaux
<1> USE DEF Acquis, Socle
<1> DEFINE Egal == \A f \in Fleet :
                     /\ DesSondages(f)' = DesSondages(f) /\ DesRequetes(f)' = DesRequetes(f)
                     /\ Finis(f)' = Finis(f) /\ Echecs(f)' = Echecs(f)
<1>1. Egal => UNCHANGED Cycle!travaux
  BY DEF Cycle!travaux
<1>2. CASE UNCHANGED travaux
  <2>1. Egal
    BY <1>2 DEF travaux, DesSondages, DesRequetes, Finis, Echecs, Produits
  <2> QED
    BY <1>1, <2>1
<1>3. ASSUME NEW w \in Worker, Insere(w), ~UNCHANGED travaux PROVE Egal
  <2>1. PICK j \in Job : /\ Prochain(j)
                         /\ travail' = [travail EXCEPT ![j] = "insere"]
                         /\ flotte' = [flotte EXCEPT ![j] = vise[w]]
                         /\ voie' = voie
    BY <1>3 DEF Insere
  <2>2. travail[j] = "absent" /\ travail'[j] = "insere" /\ voie' = voie
        /\ \A k \in Job \ {j} : travail'[k] = travail[k] /\ flotte'[k] = flotte[k]
    BY <2>1 DEF Prochain, Libres, TypeOK, Job
  <2> QED
    BY <2>2 DEF DesSondages, DesRequetes, Finis, Echecs, Produits
<1>4. ASSUME NEW w \in Worker, Tombe(w), etape[w] = "insere" PROVE Egal
  <2>1. /\ UNCHANGED <<flotte, voie>> /\ travail[insere[w]] = "insere"
        /\ \A k \in Job : \/ travail'[k] = travail[k]
                          \/ travail[k] = "insere" /\ travail'[k] = "annule"
    BY <1>4 DEF Tombe, TypeOK, InsertionsSensees
  <2> QED
    BY <2>1 DEF DesSondages, DesRequetes, Finis, Echecs, Produits
<1>5. ASSUME NEW j \in Job, claim_next_job(j) \/ Revient(j) PROVE Egal
  <2>1. /\ UNCHANGED <<flotte, voie>>
        /\ \A k \in Job : \/ travail'[k] = travail[k]
                          \/ {travail[k], travail'[k]} \subseteq {"pending", "claimed"}
    BY <1>5 DEF claim_next_job, Revient, TypeOK
  <2> QED
    BY <2>1 DEF DesSondages, DesRequetes, Finis, Echecs, Produits
<1> HIDE DEF Egal
<1> QED
  BY <1>1, <1>2, <1>3, <1>4, <1>5, ValideProduit, EnqueueAjoute, FinitFinit, PasDesTravaux

\* What has failed or was produced stays so.
LEMMA RienNeSeReprend ==
  ASSUME Acquis, Lancees, [Next]_vars, NEW f \in Fleet
  PROVE  /\ Cardinality(Echecs(f)) <= Cardinality(Echecs(f)')
         /\ Cardinality(Produits(f)) <= Cardinality(Produits(f)')
         /\ {Cardinality(Echecs(f)), Cardinality(Echecs(f)'),
             Cardinality(Produits(f)), Cardinality(Produits(f)')} \subseteq Nat
<1> USE DEF Acquis, Socle
<1>1. /\ Echecs(f) \subseteq Job /\ Echecs(f)' \subseteq Job
      /\ Produits(f) \subseteq Job /\ Produits(f)' \subseteq Job
  BY DEF Echecs, Finis, Produits
<1>2. Echecs(f) \subseteq Echecs(f)'
  BY FiniReste DEF Echecs
<1>3. Produits(f) \subseteq Produits(f)'
  <2>1. TypeOK'
    BY TypeStep
  <2>2. /\ Produits(f) = DesSondages(f) \cup DesRequetes(f)
        /\ Produits(f)' = DesSondages(f)' \cup DesRequetes(f)'
    BY <2>1, ProduitsPartages DEF TypeOK, DesSondages, DesRequetes, Produits
  <2>3. CASE UNCHANGED Cycle!travaux
    <3>1. DesSondages(f)' = DesSondages(f) /\ DesRequetes(f)' = DesRequetes(f)
      BY <2>3 DEF Cycle!travaux
    <3> QED
      BY <2>2, <3>1
  <2>4. ASSUME NEW g \in Fleet, NEW j \in Job,
               Cycle!Produit(g, j) \/ Cycle!Ajoute(g, j) \/ Cycle!Finit(g, j)
        PROVE  DesSondages(f) \subseteq DesSondages(f)' /\ DesRequetes(f) \subseteq DesRequetes(f)'
    BY <2>4 DEF Cycle!Produit, Cycle!Ajoute, Cycle!Finit
  <2> QED
    BY <2>2, <2>3, <2>4, TravauxSuivent DEF Cycle!Travail
<1> QED
  BY <1>1, <1>2, <1>3, SousJobs

\* The row of a fleet: one lemma per kind of step.

\* The three closings of a poll look at the status again, and at what they read.
LEMMA EcritAvance ==
  ASSUME TypeOK, Lectures, NEW w \in Worker, NEW f \in Fleet,
         \/ arreter_campagnes_epuisees(w) \/ accuser_arrets_effectifs(w)
         \/ clore_campagnes_terminees(w)
  PROVE  Cycle!Avance(f)
<1> USE DEF Cycle!Avance, Cycle!Tenue, Cycle!Servent
<1>1. ASSUME NEW S, Lit(w, S) PROVE Cycle!Avance(f)
  BY <1>1 DEF Lit, campagnes
<1>2. CASE etape[w] = "epuisees" /\ Ecrit(w, Servent, "stopped", "arrets")
  <2>1. /\ taken_by'[f] = taken_by[f]
        /\ \/ status'[f] = status[f]
           \/ f \in instantane[w] /\ status[f] \in Servent /\ status'[f] = "stopped"
    BY <1>2 DEF Ecrit
  <2>2. f \in instantane[w] => /\ max_consecutive_failures[f] > 0
                               /\ Cardinality(Echecs(f)) >= max_consecutive_failures[f]
    BY <1>2 DEF Ecrit, Lectures
  <2>3. [g \in Fleet |-> Echecs(g)][f] = Echecs(f)
    OBVIOUS
  <2> QED
    BY <2>1, <2>2, <2>3, MemeCardinal DEF Cycle!Epuisee
<1>3. CASE etape[w] = "arrets" /\ Ecrit(w, {"stopping"}, "stopped", "fins")
  <2>1. /\ taken_by'[f] = taken_by[f]
        /\ \/ status'[f] = status[f]
           \/ status[f] = "stopping" /\ status'[f] = "stopped"
    BY <1>3 DEF Ecrit
  <2> QED
    BY <2>1 DEF Cycle!ArretEffectif
<1>4. CASE etape[w] = "fins" /\ Ecrit(w, {"running"}, "done", "choix")
  <2>1. /\ taken_by'[f] = taken_by[f]
        /\ \/ status'[f] = status[f]
           \/ f \in instantane[w] /\ status[f] = "running" /\ status'[f] = "done"
    BY <1>4 DEF Ecrit
  <2>2. f \in instantane[w] =>
          Cardinality(DesSondages(f) \cup DesRequetes(f)) >= max_rows[f]
    BY <1>4, ProduitsPartages DEF Ecrit, Lectures
  <2>3. /\ [g \in Fleet |-> DesSondages(g)][f] = DesSondages(f)
        /\ [g \in Fleet |-> DesRequetes(g)][f] = DesRequetes(f)
    OBVIOUS
  <2> QED
    BY <2>1, <2>2, <2>3, MemeCardinal DEF Cycle!Achevee
<1> QED
  BY <1>1, <1>2, <1>3, <1>4 DEF arreter_campagnes_epuisees, accuser_arrets_effectifs,
     clore_campagnes_terminees

\* Every step moves the row of a fleet as its life cycle lets it.
LEMMA StatutSuit ==
  ASSUME TypeOK, Lectures, [Next]_vars, NEW f \in Fleet
  PROVE  Cycle!Avance(f)
<1> USE DEF Cycle!Servent, TypeOK
<1>1. ASSUME status'[f] = status[f], taken_by'[f] = taken_by[f] PROVE Cycle!Avance(f)
  BY <1>1 DEF Cycle!Avance, Cycle!Tenue
<1>2. ASSUME NEW w \in Worker, _produire_pour_une_campagne(w) \/ Tombe(w)
      PROVE  Cycle!Avance(f)
  <2>1. CASE marquer_demarree(w)
    <3>1. /\ taken_by'[f] = taken_by[f]
          /\ \/ status'[f] = status[f]
             \/ status[f] = "armed" /\ status'[f] = "running"
      BY <2>1 DEF marquer_demarree
    <3> QED
      BY <1>1, <3>1 DEF Cycle!Avance, Cycle!Demarree
  <2>2. CASE une_campagne_vit(w) \/ campagne_a_servir(w) \/ _poser_si_servable(w) \/ Tombe(w)
    <3>1. UNCHANGED campagnes
      BY <2>2 DEF une_campagne_vit, campagne_a_servir, Lit, _poser_si_servable, Verrouille,
         Insere, Valide, Tombe
    <3> QED
      BY <1>1, <3>1 DEF campagnes
  <2> QED
    BY <1>2, <2>1, <2>2, EcritAvance DEF _produire_pour_une_campagne
<1>3. ASSUME NEW a \in Appelant, verrouiller_la_flotte(a) \/ enqueue_job(a) \/ Renonce(a)
      PROVE  Cycle!Avance(f)
  BY <1>1, <1>3 DEF verrouiller_la_flotte, enqueue_job, Renonce, campagnes
<1>4. ASSUME NEW g \in Fleet, launch(g) \/ armer(g) \/ demander_arret(g)
      PROVE  Cycle!Avance(f)
  <2>1. CASE launch(g)
    BY <1>1, <2>1 DEF launch, campagnes
  <2>2. CASE armer(g)
    <3>1. \/ status'[f] = status[f] /\ taken_by'[f] = taken_by[f]
          \/ status[f] \in Armables /\ status'[f] = "armed" /\ taken_by'[f] = NoOne
      BY <2>2 DEF armer, campagnes
    <3> QED
      BY <1>1, <3>1 DEF Cycle!Avance, Cycle!Armee, Armables
  <2>3. CASE demander_arret(g)
    <3>1. /\ taken_by'[f] = taken_by[f]
          /\ \/ status'[f] = status[f]
             \/ status[f] \in Servent /\ status'[f] = "stopping"
      BY <2>3 DEF demander_arret
    <3> QED
      BY <1>1, <3>1 DEF Cycle!Avance, Cycle!ArretDemande
  <2> QED
    BY <1>4, <2>1, <2>2, <2>3
<1>5. ASSUME NEW g \in Fleet, NEW o \in Ordonnanceur, prendre(o, g) \/ accuser_arret(o, g)
      PROVE  Cycle!Avance(f)
  <2>0. o # NoOne
    BY FleetAssumption
  <2>1. CASE prendre(o, g)
    <3>1. \/ status'[f] = status[f] /\ taken_by'[f] = taken_by[f]
          \/ /\ status[f] = "armed" \/ (status[f] = "running" /\ taken_by[f] \in {NoOne, o})
             /\ status'[f] = "running" /\ taken_by'[f] = o
      BY <2>1 DEF prendre
    <3> QED
      BY <1>1, <2>0, <3>1 DEF Cycle!Avance, Cycle!Prise
  <2>2. CASE accuser_arret(o, g)
    <3>1. /\ taken_by'[f] = taken_by[f]
          /\ \/ status'[f] = status[f]
             \/ /\ status[f] \in {"stopping", "running"} /\ taken_by[f] # NoOne
                /\ status'[f] = "stopped"
      BY <2>0, <2>2 DEF accuser_arret
    <3> QED
      BY <1>1, <3>1 DEF Cycle!Avance, Cycle!ArretEffectif, Cycle!Rendue
  <2> QED
    BY <1>5, <2>1, <2>2
<1>6. ASSUME NEW j \in Job, claim_next_job(j) \/ Finit(j) \/ Revient(j)
      PROVE  Cycle!Avance(f)
  BY <1>1, <1>6 DEF claim_next_job, Finit, Revient, campagnes
<1>7. CASE UNCHANGED vars
  BY <1>1, <1>7 DEF vars, campagnes
<1> QED
  BY <1>2, <1>3, <1>4, <1>5, <1>6, <1>7 DEF Next

\* A step of the code is a step of the life cycle, or none: a job moves, or rows of fleets.
LEMMA CyclePas ==
  ASSUME Vivantes, [Next]_vars
  PROVE  [Cycle!Next]_(Cycle!vars)
<1> USE DEF Vivantes, Acquis, Socle
<1>1. Cycle!Travail \/ UNCHANGED Cycle!travaux
  BY TravauxSuivent
<1>2. CASE UNCHANGED Cycle!travaux
  <2>1. TypeOK'
    BY TypeStep
  <2>2. /\ status' \in [Fleet -> Cycle!Status]
        /\ taken_by' \in [Fleet -> Ordonnanceur \cup {NoOne}]
    BY <2>1 DEF TypeOK, Cycle!Status, Cycle!Servent
  <2>3. Cycle!Gestes
    BY <1>2, <2>2, StatutSuit DEF Cycle!Gestes
  <2> QED
    BY <2>3 DEF Cycle!Next
<1>3. CASE Cycle!Travail
  BY <1>3 DEF Cycle!Next
<1> QED
  BY <1>1, <1>2, <1>3

\* A snapshot is read by Lit, and is forgotten by whoever writes or comes back.
LEMMA LectureReste ==
  ASSUME TypeOK, [Next]_vars, NEW w \in Worker, lu'[w]
  PROVE  \/ lu[w] /\ etape'[w] = etape[w] /\ instantane'[w] = instantane[w]
         \/ /\ UNCHANGED <<campagnes, travaux, etape>>
            /\ etape[w] = "epuisees" =>
                 \A f \in instantane'[w] : status[f] \in Servent /\ Epuisee(f)
            /\ etape[w] = "fins" => \A f \in instantane'[w] : AuBout(f)
<1> USE DEF TypeOK
<1>1. ASSUME NEW v \in Worker, NEW e, Vers(v, e)
      PROVE  v # w /\ lu[w] /\ etape'[w] = etape[w] /\ instantane'[w] = instantane[w]
  BY <1>1 DEF Vers
<1>2. ASSUME NEW v \in Worker, Rentre(v)
      PROVE  v # w /\ lu[w] /\ etape'[w] = etape[w] /\ instantane'[w] = instantane[w]
  BY <1>1, <1>2 DEF Rentre
<1>3. ASSUME NEW v \in Worker, v # w, NEW S, Lit(v, S)
      PROVE  lu[w] /\ etape'[w] = etape[w] /\ instantane'[w] = instantane[w]
  BY <1>3 DEF Lit
<1>4. ASSUME NEW S, Lit(w, S)
      PROVE  UNCHANGED <<campagnes, travaux, etape>> /\ instantane'[w] = S
  BY <1>4 DEF Lit
<1>5. ASSUME NEW v \in Worker, _produire_pour_une_campagne(v) \/ Tombe(v)
      PROVE  \/ lu[w] /\ etape'[w] = etape[w] /\ instantane'[w] = instantane[w]
             \/ /\ UNCHANGED <<campagnes, travaux, etape>>
                /\ etape[w] = "epuisees" =>
                     \A f \in instantane'[w] : status[f] \in Servent /\ Epuisee(f)
                /\ etape[w] = "fins" => \A f \in instantane'[w] : AuBout(f)
  <2>1. CASE une_campagne_vit(v) \/ _poser_si_servable(v) \/ marquer_demarree(v) \/ Tombe(v)
    BY <1>1, <1>2, <2>1 DEF une_campagne_vit, _poser_si_servable, Verrouille, Insere, Valide,
       marquer_demarree, Tombe
  <2>2. CASE arreter_campagnes_epuisees(v)
    <3>1. CASE Lit(v, {f \in Fleet : status[f] \in Servent /\ Epuisee(f)})
      BY <1>3, <1>4, <2>2, <3>1 DEF arreter_campagnes_epuisees
    <3> QED
      BY <1>1, <2>2, <3>1 DEF arreter_campagnes_epuisees, Ecrit
  <2>3. CASE accuser_arrets_effectifs(v)
    <3>1. CASE Lit(v, {f \in Fleet : status[f] = "stopping" /\ SansVol(f)})
      BY <1>3, <1>4, <2>3, <3>1 DEF accuser_arrets_effectifs
    <3> QED
      BY <1>1, <2>3, <3>1 DEF accuser_arrets_effectifs, Ecrit
  <2>4. CASE clore_campagnes_terminees(v)
    <3>1. CASE Lit(v, {f \in Fleet : status[f] = "running" /\ AuBout(f)})
      BY <1>3, <1>4, <2>4, <3>1 DEF clore_campagnes_terminees
    <3> QED
      BY <1>1, <2>4, <3>1 DEF clore_campagnes_terminees, Ecrit
  <2>5. CASE campagne_a_servir(v)
    <3>1. CASE etape[v] = "choix" /\ Lit(v, {f \in Fleet : _ELIGIBLE(f)})
      BY <1>3, <1>4, <3>1
    <3> QED
      BY <1>1, <1>2, <2>5, <3>1 DEF campagne_a_servir
  <2> QED
    BY <1>5, <2>1, <2>2, <2>3, <2>4, <2>5 DEF _produire_pour_une_campagne
<1>6. CASE UNCHANGED <<etape, lu, instantane>>
  BY <1>6
<1>7. \/ \E v \in Worker : _produire_pour_une_campagne(v) \/ Tombe(v)
      \/ UNCHANGED <<etape, lu, instantane>>
  BY DEF Next, vars, sondages, verrouiller_la_flotte, enqueue_job, Renonce, launch, armer,
     demander_arret, prendre, accuser_arret, claim_next_job, Finit, Revient
<1> QED
  BY <1>5, <1>6, <1>7

\* A fleet found exhausted has failed as many times as it may.
LEMMA EpuiseeCompte ==
  ASSUME TypeOK, NEW f \in Fleet, Epuisee(f)
  PROVE  /\ max_consecutive_failures[f] > 0
         /\ Cardinality(Echecs(f)) >= max_consecutive_failures[f]
<1>1. /\ {j \in Derniers(f) : travail[j] = "failed"} \subseteq Echecs(f)
      /\ Echecs(f) \in SUBSET Job
  BY DEF Derniers, Echecs, Finis, Produits
<1>2. max_consecutive_failures[f] \in Nat
  BY FleetAssumption
<1> DEFINE D == {j \in Derniers(f) : travail[j] = "failed"}
<1>3. Cardinality(D) <= Cardinality(Echecs(f)) /\ Cardinality(D) \in Nat
      /\ Cardinality(Echecs(f)) \in Nat
  BY <1>1, SousJobs
<1>4. max_consecutive_failures[f] > 0 /\ Cardinality(D) >= max_consecutive_failures[f]
  BY DEF Epuisee
<1> HIDE DEF D
<1> QED
  BY <1>2, <1>3, <1>4

LEMMA LecturesPas ==
  ASSUME Vivantes, [Next]_vars
  PROVE  Lectures'
<1> USE DEF Vivantes, Acquis, Socle
<1> SUFFICES ASSUME NEW w \in Worker, NEW f \in Fleet, lu'[w], f \in instantane'[w]
             PROVE  /\ etape'[w] = "epuisees" =>
                         /\ max_consecutive_failures[f] > 0
                         /\ Cardinality(Echecs(f)') >= max_consecutive_failures[f]
                    /\ etape'[w] = "fins" => Cardinality(Produits(f)') >= max_rows[f]
  BY DEF Lectures
<1>1. /\ Cardinality(Echecs(f)) <= Cardinality(Echecs(f)')
      /\ Cardinality(Produits(f)) <= Cardinality(Produits(f)')
      /\ {Cardinality(Echecs(f)), Cardinality(Echecs(f)'),
          Cardinality(Produits(f)), Cardinality(Produits(f)')} \subseteq Nat
      /\ max_rows[f] \in Nat /\ max_consecutive_failures[f] \in Nat
  BY RienNeSeReprend, FleetAssumption
<1>2. /\ etape'[w] = "epuisees" =>
           /\ max_consecutive_failures[f] > 0
           /\ Cardinality(Echecs(f)) >= max_consecutive_failures[f]
      /\ etape'[w] = "fins" => Cardinality(Produits(f)) >= max_rows[f]
  <2>1. CASE lu[w] /\ etape'[w] = etape[w] /\ instantane'[w] = instantane[w]
    BY <2>1 DEF Lectures
  <2>2. CASE /\ UNCHANGED <<campagnes, travaux, etape>>
             /\ etape[w] = "epuisees" =>
                  \A g \in instantane'[w] : status[g] \in Servent /\ Epuisee(g)
             /\ etape[w] = "fins" => \A g \in instantane'[w] : AuBout(g)
    BY <2>2, EpuiseeCompte DEF AuBout
  <2> QED
    BY <2>1, <2>2, LectureReste
<1> QED
  BY <1>1, <1>2

LEMMA VivantesPas == Vivantes /\ [Next]_vars => Vivantes'
<1> SUFFICES ASSUME Vivantes, [Next]_vars PROVE Vivantes'
  OBVIOUS
<1> USE DEF Vivantes
<1>1. Acquis'
  BY AcquisStep
<1>2. ASSUME NEW f \in Fleet, armements'[f] >= 1 PROVE status'[f] # "draft"
  <2>1. TypeOK
    BY DEF Acquis, Socle
  <2>2. Cycle!Avance(f)
    BY <2>1, StatutSuit
  <2>3. status'[f] # "draft" \/ (status[f] = "draft" /\ status'[f] = status[f])
    <3>1. ASSUME Cycle!Epuisee(f) \/ Cycle!Achevee(f) PROVE status'[f] # "draft"
      BY <3>1 DEF Cycle!Epuisee, Cycle!Achevee
    <3>2. ASSUME \/ Cycle!Armee(f) \/ Cycle!Demarree(f) \/ Cycle!Prise(f) \/ Cycle!ArretDemande(f)
                 \/ Cycle!ArretEffectif(f) \/ Cycle!Rendue(f)
          PROVE  status'[f] # "draft"
      BY <3>2 DEF Cycle!Armee, Cycle!Demarree, Cycle!Prise, Cycle!ArretDemande,
         Cycle!ArretEffectif, Cycle!Rendue
    <3>3. ASSUME Cycle!Tenue(f) PROVE status'[f] = status[f]
      BY <3>3 DEF Cycle!Tenue
    <3> QED
      BY <2>2, <3>1, <3>2, <3>3 DEF Cycle!Avance
  <2>4. armements'[f] = armements[f] \/ status'[f] = "armed"
    BY <2>1, PasDesArmements
  <2> QED
    BY <1>2, <2>3, <2>4 DEF Lancees
<1>3. Lancees'
  BY <1>2 DEF Lancees
<1> QED
  BY <1>1, <1>3, LecturesPas

LEMMA CycleInit == Init => Cycle!Init
<1> SUFFICES ASSUME Init PROVE Cycle!Init
  OBVIOUS
<1>1. \A f \in Fleet : Produits(f) = {}
  BY DEF Init, Produits
<1>2. \A f \in Fleet : DesSondages(f) = {} /\ DesRequetes(f) = {} /\ Finis(f) = {} /\ Echecs(f) = {}
  BY <1>1 DEF DesSondages, DesRequetes, Finis, Echecs
<1> QED
  BY <1>2 DEF Init, Cycle!Init

LEMMA InitVivantes == Init => Vivantes
<1> SUFFICES ASSUME Init PROVE Vivantes
  OBVIOUS
<1>1. Acquis
  BY InitSeries
<1>2. Lancees /\ Lectures
  BY DEF Init, Lancees, Lectures
<1> QED
  BY <1>1, <1>2 DEF Vivantes

\* The chain of a poll, its locks and its stale readings come to what a fleet
\* promises: statuses follow each other as its life cycle says, a job is produced as
\* if it were counted and written at once, and a fleet is closed, unasked, for what
\* is still true (_produire_pour_une_campagne beside armer, prendre, enqueue).
THEOREM Refinement == Spec => CycleDeCampagne
<1>1. Vivantes /\ [Next]_vars => [Cycle!Next]_(Cycle!vars)
  BY CyclePas
<1> QED
  BY <1>1, CycleInit, InitVivantes, VivantesPas, PTL DEF Spec, CycleDeCampagne, Cycle!Spec
=============================================================================
