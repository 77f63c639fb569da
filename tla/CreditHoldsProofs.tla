--------------------------- MODULE CreditHoldsProofs ---------------------------
(***************************************************************************)
(* Proofs about CreditHolds, for any payers, calls, prices, deposits,      *)
(* loops, collections, reports and merges.                                 *)
(*                                                                         *)
(* What each handler kept from an earlier transaction is tied to the       *)
(* tables by Suite: what a collection, a report or a listing of the        *)
(* deadlines saw may since have been closed by another, never reopened.    *)
(***************************************************************************)
EXTENDS CreditHolds, SumTheorems

USE DEF Ferme, Etats, Etapes, Hold, Mouvement, comptes, suivis, monde, Reste

\* A call that has not come back was not served; a job exists once submitted; what is
\* released was not served and will not be.
Suivi(a) ==
  /\ etape[a] \in {"ouvert", "reserve", "net"} => a \notin consomme
  /\ travail[a] # "aucun" => a \in asynchrones /\ etape[a] \in {"reussi", "fini"}
  /\ travail[a] \in {"en_cours", "annule"} => a \notin consomme
  /\ hold[a].etat = "released" => /\ travail[a] \in {"aucun", "annule"}
                                  /\ a \notin consomme
                                  /\ etape[a] = "fini" \/ travail[a] = "annule"
  /\ a \notin tours /\ etape[a] = "ouvert" => hold[a].etat = "absent"
  /\ a \in tours /\ etape[a] = "reussi" => a \in consomme
  /\ hold[a].job => a \in asynchrones

\* What a collection or a report is about was collected, or served.
Suite ==
  /\ \A a \in Appel : Suivi(a)
  /\ \A v \in Releveur : releve[v] # NoAppel => travail[releve[v]] \in {"fini", "annule"}
  /\ \A r \in Rapporteur : rapport[r] # NoAppel => rapport[r] \in consomme

\* The deadline of a submission waits for its job.
Echeances ==
  \A a \in Appel :
    /\ a \in asynchrones /\ etape[a] \in {"ouvert", "reserve", "reussi"} => ~hold[a].echue
    /\ \A b \in Boucle : a \in vue[b] => hold[a].etat \in Ferme \/ hold[a].echue
    /\ hold[a].echue => hold[a].etat # "absent"

\* What is held is an amount of the scale.
AuBareme == \A a \in Appel : hold[a].reserve \in Montants

-----------------------------------------------------------------------------
(* The transactions. *)

\* One hold changes its state.
LEMMA EtatChange ==
  ASSUME TypeOK, NEW a \in Appel, NEW e \in Etats, hold' = [hold EXCEPT ![a].etat = e]
  PROVE  /\ hold' \in [Appel -> Hold]
         /\ \A b \in Appel \ {a} : hold'[b] = hold[b]
         /\ hold'[a].job = hold[a].job /\ hold'[a].echue = hold[a].echue
         /\ hold'[a].reserve = hold[a].reserve /\ hold'[a].payer = hold[a].payer
         /\ hold'[a].etat = e
<1>1. hold \in [Appel -> Hold] /\ hold[a] \in Hold
  BY DEF TypeOK
<1>2. hold' = [hold EXCEPT ![a] = [hold[a] EXCEPT !.etat = e]]
  OBVIOUS
<1>3. [hold[a] EXCEPT !.etat = e] \in Hold
  BY <1>1
<1>4. hold' \in [Appel -> Hold] /\ hold'[a] = [hold[a] EXCEPT !.etat = e]
      /\ \A b \in Appel \ {a} : hold'[b] = hold[b]
  BY <1>1, <1>2, <1>3 DEF Hold
<1> QED
  BY <1>1, <1>4

LEMMA ReglerType ==
  ASSUME TypeOK, NEW a \in Appel, NEW m \in Nat, NEW e \in Ferme, regler(a, m, e)
  PROVE  /\ hold' \in [Appel -> Hold] /\ balance' \in [Payeur -> Int]
         /\ holds_open' \in [Payeur -> Int] /\ decouvert' \in [Payeur -> Nat]
         /\ mouvements' \in SUBSET Mouvement
         /\ \A b \in Appel \ {a} : hold'[b] = hold[b]
         /\ hold'[a].job = hold[a].job /\ hold'[a].echue = hold[a].echue
         /\ hold'[a].reserve = hold[a].reserve
         /\ hold'[a].etat = IF hold[a].etat = "open" THEN e ELSE hold[a].etat
<1>1. CASE hold[a].etat # "open"
  BY <1>1 DEF TypeOK, regler
<1>2. CASE hold[a].etat = "open"
  <2> DEFINE s == [kind |-> "settle", payer |-> hold[a].payer, amount |-> -m,
                   held |-> -hold[a].reserve, cle |-> a]
  <2>1. hold[a].payer \in Payeur /\ hold[a].reserve \in Nat
    BY DEF TypeOK
  <2>2. s \in Mouvement
    BY <2>1
  <2>3. mouvements' \in SUBSET Mouvement
    BY <1>2, <2>2 DEF TypeOK, regler
  <2>4. balance' \in [Payeur -> Int] /\ holds_open' \in [Payeur -> Int]
    BY <1>2, <2>1 DEF TypeOK, regler
  <2>5. Exces(m, hold[a].reserve) \in Nat
    BY <2>1 DEF Exces
  <2>6. decouvert' \in [Payeur -> Nat]
    BY <1>2, <2>1, <2>5 DEF TypeOK, regler
  <2>7. hold' = [hold EXCEPT ![a].etat = e]
    BY <1>2 DEF regler
  <2> QED
    BY <1>2, <2>7, <2>3, <2>4, <2>6, EtatChange
<1> QED
  BY <1>1, <1>2

LEMMA LibererType ==
  ASSUME TypeOK, NEW a \in Appel, liberer(a)
  PROVE  /\ hold' \in [Appel -> Hold] /\ balance' \in [Payeur -> Int]
         /\ holds_open' \in [Payeur -> Int] /\ decouvert' \in [Payeur -> Nat]
         /\ mouvements' \in SUBSET Mouvement
         /\ \A b \in Appel \ {a} : hold'[b] = hold[b]
         /\ hold'[a].job = hold[a].job /\ hold'[a].echue = hold[a].echue
         /\ hold'[a].reserve = hold[a].reserve
         /\ hold'[a].etat = IF hold[a].etat = "open" THEN "released" ELSE hold[a].etat
<1>1. CASE hold[a].etat # "open"
  BY <1>1 DEF TypeOK, liberer
<1>2. CASE hold[a].etat = "open"
  <2>1. hold[a].payer \in Payeur /\ hold[a].reserve \in Nat
    BY DEF TypeOK
  <2>2. hold' = [hold EXCEPT ![a].etat = "released"]
    BY <1>2 DEF liberer
  <2>3. holds_open' \in [Payeur -> Int] /\ UNCHANGED <<balance, mouvements, decouvert>>
    BY <1>2, <2>1 DEF TypeOK, liberer
  <2>4. balance \in [Payeur -> Int] /\ mouvements \in SUBSET Mouvement
        /\ decouvert \in [Payeur -> Nat]
    BY DEF TypeOK
  <2> QED
    BY <1>2, <2>2, <2>3, <2>4, EtatChange
<1> QED
  BY <1>1, <1>2

LEMMA PoserType ==
  ASSUME TypeOK, NEW a \in Appel, NEW n \in Nat, Poser(a, n)
  PROVE  /\ hold' \in [Appel -> Hold] /\ balance' \in [Payeur -> Int]
         /\ holds_open' \in [Payeur -> Int] /\ mouvements' \in SUBSET Mouvement
         /\ \A b \in Appel \ {a} : hold'[b] = hold[b]
         /\ hold[a].etat = "absent" /\ hold'[a].etat = "open"
         /\ ~hold'[a].job /\ ~hold'[a].echue /\ hold'[a].reserve = n
<1> DEFINE h == [etat |-> "open", payer |-> payeurDe[a], reserve |-> n,
                 echue |-> FALSE, job |-> FALSE]
<1>1. payeurDe[a] \in Payeur
  BY HoldsAssumption
<1>2. h \in Hold
  BY <1>1
<1>3. hold' = [hold EXCEPT ![a] = h]
  BY DEF Poser
<1>4. hold' \in [Appel -> Hold] /\ hold'[a] = h /\ \A b \in Appel \ {a} : hold'[b] = hold[b]
  BY <1>2, <1>3 DEF TypeOK, Hold
<1> QED
  BY <1>1, <1>4 DEF TypeOK, Poser

-----------------------------------------------------------------------------
(* The invariant that carries the others. *)

IInv == TypeOK /\ Suite /\ AuBareme

LEMMA InitInv == Init => IInv /\ Echeances
<1> SUFFICES ASSUME Init PROVE IInv /\ Echeances
  OBVIOUS
<1>1. TypeOK
  BY HoldsAssumption DEF Init, TypeOK
<1>2. Suite
  BY DEF Init, Suite, Suivi
<1>3. AuBareme /\ Echeances
  BY DEF Init, AuBareme, Montants, Echeances
<1> QED
  BY <1>1, <1>2, <1>3 DEF IInv

LEMMA MontantsNat == Montants \in SUBSET Nat
BY HoldsAssumption DEF Montants

\* The ledger as the transactions leave it: one call is concerned at most.
Registre(a) ==
  /\ hold' \in [Appel -> Hold] /\ \A b \in Appel \ {a} : hold'[b] = hold[b]
  /\ balance' \in [Payeur -> Int] /\ holds_open' \in [Payeur -> Int]
  /\ decouvert' \in [Payeur -> Nat] /\ mouvements' \in SUBSET Mouvement
  /\ hold'[a].reserve \in Montants

LEMMA RegistreInchange ==
  ASSUME IInv, NEW a \in Appel, UNCHANGED comptes
  PROVE  Registre(a) /\ hold'[a] = hold[a]
BY DEF IInv, TypeOK, AuBareme, Registre

LEMMA RegistreRegle ==
  ASSUME IInv, NEW a \in Appel, NEW m \in Nat, NEW e \in Ferme, regler(a, m, e)
  PROVE  /\ Registre(a) /\ hold'[a].job = hold[a].job
         /\ hold'[a].etat = IF hold[a].etat = "open" THEN e ELSE hold[a].etat
BY ReglerType DEF IInv, AuBareme, Registre

LEMMA RegistreLibere ==
  ASSUME IInv, NEW a \in Appel, liberer(a)
  PROVE  /\ Registre(a) /\ hold'[a].job = hold[a].job
         /\ hold'[a].etat = IF hold[a].etat = "open" THEN "released" ELSE hold[a].etat
BY LibererType DEF IInv, AuBareme, Registre

\* A call moves, alone, and its ledger with it.
LEMMA SuiviPas ==
  ASSUME IInv, NEW a \in Appel, NEW e \in Etapes,
         etape' = [etape EXCEPT ![a] = e] \/ UNCHANGED etape, Registre(a), Suivi(a)',
         \A b \in Appel \ {a} : travail'[b] = travail[b],
         consomme' \in {consomme, consomme \cup {a}}
  PROVE  (\A b \in Appel : Suivi(b)') /\ AuBareme' /\ etape' \in [Appel -> Etapes]
<1>1. \A b \in Appel : Suivi(b)'
  <2> SUFFICES ASSUME NEW b \in Appel \ {a} PROVE Suivi(b)'
    OBVIOUS
  <2>1. hold'[b] = hold[b] /\ etape'[b] = etape[b] /\ travail'[b] = travail[b]
        /\ (b \in consomme' <=> b \in consomme) /\ Suivi(b)
    BY DEF IInv, Suite, Registre, TypeOK
  <2> QED
    BY <2>1 DEF Suivi
<1>2. AuBareme'
  BY DEF IInv, AuBareme, Registre
<1> QED
  BY <1>1, <1>2 DEF IInv, TypeOK

LEMMA InvPas ==
  ASSUME IInv, NEW a \in Appel, NEW e \in Etapes, etape' = [etape EXCEPT ![a] = e],
         Registre(a), Suivi(a)', UNCHANGED suivis, UNCHANGED fusionnes,
         travail' \in [Appel -> {"aucun", "en_cours", "fini", "annule"}],
         \A b \in Appel \ {a} : travail'[b] = travail[b],
         travail[a] \in {"fini", "annule"} => travail'[a] \in {"fini", "annule"},
         consomme' \in {consomme, consomme \cup {a}}
  PROVE  IInv'
<1>1. TypeOK'
  BY DEF IInv, TypeOK, Registre
<1>2. (\A b \in Appel : Suivi(b)') /\ AuBareme'
  BY SuiviPas
<1>3. \A v \in Releveur : releve'[v] # NoAppel => travail'[releve'[v]] \in {"fini", "annule"}
  BY DEF IInv, Suite, TypeOK
<1>4. \A r \in Rapporteur : rapport'[r] # NoAppel => rapport'[r] \in consomme'
  BY DEF IInv, Suite
<1> QED
  BY <1>1, <1>2, <1>3, <1>4 DEF IInv, Suite

\* The steps at the edge of a call.
LEMMA InvBord ==
  ASSUME IInv, NEW a \in Appel, Bord(a) \/ Tomber(a)
  PROVE  IInv'
<1>0. /\ reserve[a] \in Nat /\ reel[a] \in Nat /\ {reserve[a], reel[a]} \subseteq Montants
      /\ Suivi(a) /\ TypeOK /\ etape[a] \in Etapes /\ a \in Appel
  BY HoldsAssumption DEF Montants, IInv, Suite, TypeOK
<1>p. ASSUME Poser(a, reserve[a]), UNCHANGED decouvert
      PROVE  Registre(a) /\ hold'[a].etat = "open" /\ ~hold'[a].job
  BY <1>0, <1>p, PoserType DEF Registre, TypeOK
<1>v. ASSUME NEW e \in Etapes, Vers(a, e)
      PROVE  etape' = [etape EXCEPT ![a] = e] /\ etape'[a] = e
  BY <1>v, <1>0 DEF Vers, TypeOK
<1>t. UNCHANGED travail => /\ travail' \in [Appel -> {"aucun", "en_cours", "fini", "annule"}]
                           /\ \A b \in Appel : travail'[b] = travail[b]
  BY <1>0 DEF TypeOK
<1>1. CASE reserver(a)
  <2>1. CASE Poser(a, reserve[a]) /\ UNCHANGED decouvert /\ Vers(a, "reserve")
    <3>1. Suivi(a)' /\ UNCHANGED suivis /\ UNCHANGED monde
      BY <1>0, <1>1, <1>v, <1>p, <2>1 DEF reserver, Suivi
    <3> QED
      BY <1>p, <1>v, <1>t, <2>1, <3>1, InvPas
  <2>2. CASE Vers(a, "fini") /\ UNCHANGED comptes
    <3>1. Suivi(a)' /\ UNCHANGED suivis /\ UNCHANGED monde
      BY <1>0, <1>1, <1>v, <2>2, RegistreInchange DEF reserver, Suivi
    <3> QED
      BY <1>v, <1>t, <2>2, <3>1, RegistreInchange, InvPas
  <2> QED
    BY <1>1, <2>1, <2>2 DEF reserver
<1>2. CASE reserver_tour(a)
  <2>1. CASE /\ Poser(a, reserve[a]) /\ UNCHANGED decouvert
             /\ etape' \in {etape, [etape EXCEPT ![a] = "reserve"]}
    <3>0. PICK e \in {"ouvert", "reserve"} : etape' = [etape EXCEPT ![a] = e]
      BY <1>0, <1>2, <2>1 DEF reserver_tour, TypeOK
    <3>1. Suivi(a)' /\ UNCHANGED suivis /\ UNCHANGED monde
      BY <1>0, <1>2, <1>p, <2>1, <3>0 DEF reserver_tour, Suivi, TypeOK
    <3> QED
      BY <1>p, <1>t, <2>1, <3>0, <3>1, InvPas
  <2>2. CASE (Vers(a, "reserve") \/ Vers(a, "fini")) /\ UNCHANGED comptes
    <3>0. PICK e \in {"fini", "reserve"} : Vers(a, e)
      BY <2>2
    <3>1. Suivi(a)' /\ UNCHANGED suivis /\ UNCHANGED monde
      <4>1. hold[a].etat = "released" => etape[a] = "fini" \/ travail[a] = "annule"
        BY <1>0 DEF Suivi
      <4> QED
        BY <1>0, <1>2, <1>v, <2>2, <3>0, <4>1, RegistreInchange DEF reserver_tour, Suivi
    <3> QED
      BY <1>v, <1>t, <2>2, <3>0, <3>1, RegistreInchange, InvPas
  <2> QED
    BY <1>2, <2>1, <2>2 DEF reserver_tour
<1>3. CASE envoi(a)
  <2>0. PICK e \in {"reussi", "net", "echoue"} : Vers(a, e)
    BY <1>3 DEF envoi
  <2>1. /\ UNCHANGED suivis /\ UNCHANGED fusionnes /\ UNCHANGED comptes
        /\ consomme' \in {consomme, consomme \cup {a}}
        /\ travail' \in [Appel -> {"aucun", "en_cours", "fini", "annule"}]
        /\ \A b \in Appel \ {a} : travail'[b] = travail[b]
        /\ travail[a] = "aucun"
    BY <1>0, <1>3, <2>0 DEF envoi, TypeOK, Suivi
  <2>2. Suivi(a)'
    <3>1. hold[a].etat # "released"
      BY <1>0, <1>3, <2>1 DEF envoi, Suivi
    <3> QED
      BY <1>0, <1>3, <1>v, <2>0, <2>1, <3>1, HoldsAssumption DEF envoi, Vers, Suivi, TypeOK
  <2> QED
    BY <1>v, <2>0, <2>1, <2>2, RegistreInchange, InvPas
<1>4. CASE solder_reussite(a)
  <2>0. Vers(a, "fini") /\ UNCHANGED suivis /\ UNCHANGED monde /\ a \notin tours
        /\ etape[a] = "reussi"
    BY <1>4 DEF solder_reussite
  <2>1. CASE attendre_la_releve(a) /\ a \in asynchrones
    <3>1. CASE hold[a].etat = "open"
      <4>1. /\ hold' = [hold EXCEPT ![a] = [hold[a] EXCEPT !.job = TRUE, !.echue = FALSE]]
            /\ UNCHANGED <<balance, holds_open, mouvements, decouvert>>
        BY <2>1, <3>1 DEF attendre_la_releve
      <4>2. hold[a] \in Hold /\ [hold[a] EXCEPT !.job = TRUE, !.echue = FALSE] \in Hold
        BY ZenonT(40), <1>0 DEF TypeOK
      <4>3. Registre(a) /\ hold'[a].etat = "open"
        BY <1>0, <3>1, <4>1, <4>2 DEF IInv, Registre, TypeOK, AuBareme
      <4>4. Suivi(a)'
        BY <1>0, <1>v, <2>0, <2>1, <4>3 DEF Suivi
      <4> QED
        BY <1>v, <1>t, <2>0, <4>3, <4>4, InvPas
    <3>2. CASE hold[a].etat # "open"
      <4>1. UNCHANGED comptes
        BY <2>1, <3>2 DEF attendre_la_releve
      <4>2. Suivi(a)'
        BY <1>0, <1>v, <2>0, <4>1, RegistreInchange DEF Suivi
      <4> QED
        BY <1>v, <1>t, <2>0, <4>1, <4>2, RegistreInchange, InvPas
    <3> QED
      BY <3>1, <3>2
  <2>2. ASSUME NEW m \in {reel[a], reserve[a]}, regler(a, m, "settled")
        PROVE  IInv'
    <3>1. m \in Nat
      BY <1>0
    <3>2. Suivi(a)'
      BY <1>0, <1>v, <2>0, <2>2, <3>1, RegistreRegle DEF Suivi
    <3> QED
      BY <1>v, <1>t, <2>0, <2>2, <3>1, <3>2, RegistreRegle, InvPas
  <2> QED
    BY <1>4, <2>1, <2>2 DEF solder_reussite
<1>5. CASE solder_echec(a) \/ FinDuTour(a)
  <2>0. Vers(a, "fini") /\ UNCHANGED suivis /\ UNCHANGED monde
        /\ etape[a] \in {"net", "echoue"}
    BY <1>5 DEF solder_echec, FinDuTour
  <2>1. CASE etape[a] = "net" /\ liberer(a)
    <3>1. Suivi(a)'
      BY <1>0, <1>v, <2>0, <2>1, RegistreLibere DEF Suivi
    <3> QED
      BY <1>v, <1>t, <2>0, <2>1, <3>1, RegistreLibere, InvPas
  <2>2. CASE regler(a, reserve[a], "settled")
    <3>1. Suivi(a)'
      BY <1>0, <1>v, <2>0, <2>2, RegistreRegle DEF Suivi
    <3> QED
      BY <1>0, <1>v, <1>t, <2>0, <2>2, <3>1, RegistreRegle, InvPas
  <2>3. CASE UNCHANGED comptes
    <3>1. Suivi(a)'
      BY <1>0, <1>v, <2>0, <2>3, RegistreInchange DEF Suivi
    <3> QED
      BY <1>v, <1>t, <2>0, <2>3, <3>1, RegistreInchange, InvPas
  <2> QED
    BY <1>5, <2>1, <2>2, <2>3 DEF solder_echec, FinDuTour
<1>6. CASE RapportPerdu(a) \/ Tomber(a)
  <2>1. /\ Vers(a, "fini") /\ UNCHANGED suivis /\ UNCHANGED travail /\ UNCHANGED fusionnes
        /\ UNCHANGED comptes /\ consomme' \in {consomme, consomme \cup {a}}
        /\ consomme' # consomme => etape[a] = "reserve"
    BY <1>6 DEF RapportPerdu, Tomber
  <2>2. Suivi(a)'
    BY <1>0, <1>v, <2>1, RegistreInchange DEF Suivi
  <2> QED
    BY <1>v, <1>t, <2>1, <2>2, RegistreInchange, InvPas
<1> QED
  BY <1>1, <1>2, <1>3, <1>4, <1>5, <1>6 DEF Bord

\* The steps of those who close a hold after its call: the loops, the collections, the
\* reports, the end of an attempt.
LEMMA InvTiers ==
  ASSUME IInv, NEW a \in Appel, Registre(a), hold'[a].job = hold[a].job,
         \/ hold'[a].etat # "released" /\ (hold'[a].etat = "absent" => hold[a].etat = "absent")
            /\ (a \in tours \/ hold[a].etat # "absent" \/ hold'[a].etat = "absent")
         \/ hold'[a].etat = "released" /\ hold[a].etat = "released"
         \/ hold'[a].etat = "released" /\ travail[a] = "annule",
         UNCHANGED monde,
         \/ UNCHANGED etape
         \/ etape[a] \in {"reussi", "echoue", "fini"} /\ etape' = [etape EXCEPT ![a] = "fini"],
         vue' \in [Boucle -> SUBSET Appel], releve' \in [Releveur -> Appel \cup {NoAppel}],
         rapport' \in [Rapporteur -> tours \cup {NoAppel}],
         vu' \in [Rapporteur -> {"absent", "open"}], cloture' \in SUBSET tours,
         \A v \in Releveur : \/ releve'[v] \in {releve[v], NoAppel}
                             \/ travail[releve'[v]] \in {"fini", "annule"},
         \A r \in Rapporteur : rapport'[r] \in {rapport[r], NoAppel} \cup consomme
  PROVE  IInv'
<1>1. TypeOK'
  BY DEF IInv, TypeOK, Registre
<1>2. Suivi(a)'
  <2>1. Suivi(a) /\ etape'[a] \in {etape[a], "fini"}
        /\ (etape'[a] # etape[a] => etape[a] \in {"reussi", "echoue", "fini"})
    BY DEF IInv, Suite, TypeOK
  <2> QED
    BY <2>1 DEF Suivi
<1>3. (\A b \in Appel : Suivi(b)') /\ AuBareme'
  BY <1>2, SuiviPas
<1>4. \A v \in Releveur : releve'[v] # NoAppel => travail'[releve'[v]] \in {"fini", "annule"}
  BY DEF IInv, Suite
<1>5. \A r \in Rapporteur : rapport'[r] # NoAppel => rapport'[r] \in consomme'
  BY DEF IInv, Suite
<1> QED
  BY <1>1, <1>3, <1>4, <1>5 DEF IInv, Suite

LEMMA InvStep == IInv /\ [Next]_vars => IInv'
<1> SUFFICES ASSUME IInv, [Next]_vars PROVE IInv'
  OBVIOUS
<1>0. TypeOK /\ Suite /\ AuBareme
  BY DEF IInv
<1>r. ASSUME NEW a \in Appel, NEW m \in Nat, NEW e \in Ferme, regler(a, m, e)
      PROVE  /\ Registre(a) /\ hold'[a].job = hold[a].job
             /\ \/ hold'[a].etat # "released"
                   /\ (hold'[a].etat = "absent" => hold[a].etat = "absent")
                   /\ (a \in tours \/ hold[a].etat # "absent" \/ hold'[a].etat = "absent")
                \/ hold'[a].etat = "released" /\ (hold[a].etat = "released" \/ e = "released")
  BY <1>r, RegistreRegle
<1>n. \A a \in Appel : reel[a] \in Nat /\ reel[a] \in Montants /\ hold[a].reserve \in Nat
  BY <1>0, HoldsAssumption DEF TypeOK, Montants
<1>u. ASSUME NEW a \in Appel, UNCHANGED comptes
      PROVE  Registre(a) /\ hold'[a] = hold[a]
  BY <1>u, RegistreInchange
<1>1. ASSUME NEW k \in Cle, verser(k) PROVE IInv'
  <2>1. montantDe[k] \in Int /\ versA[k] \in Payeur /\ Exces(0, montantDe[k]) \in Nat
    BY HoldsAssumption DEF Exces
  <2>2. TypeOK'
    <3>1. mouvements' \in SUBSET Mouvement
      BY <1>0, <1>1, <2>1 DEF verser, TypeOK
    <3>2. balance' \in [Payeur -> Int] /\ decouvert' \in [Payeur -> Nat]
      BY <1>0, <1>1, <2>1 DEF verser, TypeOK
    <3> QED
      BY <1>0, <1>1, <3>1, <3>2 DEF verser, TypeOK
  <2> QED
    BY <1>0, <1>1, <2>2 DEF IInv, verser, Suite, Suivi, AuBareme
<1>2. ASSUME NEW a \in Appel, Bord(a) \/ Tomber(a) PROVE IInv'
  BY <1>2, InvBord
<1>3. ASSUME NEW a \in Appel, Passe(a) PROVE IInv'
  <2>1. hold' = [hold EXCEPT ![a] = [hold[a] EXCEPT !.echue = TRUE]]
    BY <1>3 DEF Passe
  <2>a. hold[a] \in Hold
    BY <1>0 DEF TypeOK
  <2>2. hold[a] \in Hold /\ [hold[a] EXCEPT !.echue = TRUE] \in Hold
    BY <2>a
  <2>3. /\ hold' \in [Appel -> Hold] /\ hold'[a] = [hold[a] EXCEPT !.echue = TRUE]
        /\ \A b \in Appel \ {a} : hold'[b] = hold[b]
    BY <1>0, <2>1, <2>2 DEF TypeOK, Hold
  <2>4. Registre(a) /\ hold'[a].job = hold[a].job /\ hold'[a].etat = "open"
        /\ hold[a].etat = "open"
    BY <1>0, <1>3, <2>2, <2>3 DEF Passe, Registre, TypeOK, AuBareme
  <2> QED
    BY <1>0, <1>3, <2>4, InvTiers DEF Passe, TypeOK
<1>4. ASSUME NEW a \in Appel, TravailFinit(a) PROVE IInv'
  <2>1. /\ UNCHANGED comptes /\ UNCHANGED suivis /\ UNCHANGED fusionnes
        /\ etape' = [etape EXCEPT ![a] = etape[a]] /\ etape[a] \in Etapes
        /\ travail' \in [Appel -> {"aucun", "en_cours", "fini", "annule"}]
        /\ \A b \in Appel \ {a} : travail'[b] = travail[b]
        /\ travail[a] = "en_cours"
        /\ \/ travail'[a] = "fini" /\ consomme' = consomme \cup {a}
           \/ travail'[a] = "annule" /\ consomme' = consomme
    BY <1>0, <1>4 DEF TypeOK, TravailFinit
  <2>2. Suivi(a) /\ (a \in asynchrones => a \notin tours)
    BY <1>0, HoldsAssumption DEF Suite
  <2>3. etape'[a] = etape[a] /\ hold'[a] = hold[a] /\ UNCHANGED etape
    BY <1>0, <2>1 DEF TypeOK
  <2>4. Suivi(a)'
    BY <2>1, <2>2, <2>3 DEF Suivi
  <2> QED
    BY <2>1, <2>4, RegistreInchange, InvPas
<1>5. ASSUME NEW b \in Boucle, EchoirListe(b) \/ EchoirTombe(b) PROVE IInv'
  <2>1. UNCHANGED comptes /\ UNCHANGED etape /\ UNCHANGED monde
        /\ UNCHANGED <<releve, rapport, vu, cloture>>
    BY <1>5 DEF EchoirListe, EchoirTombe
  <2>2. vue' \in [Boucle -> SUBSET Appel]
    BY <1>0, <1>5 DEF EchoirListe, EchoirTombe, TypeOK, reservations_echues
  <2> QED
    BY <1>0, <2>1, <2>2 DEF IInv, TypeOK, Suite, Suivi, AuBareme
<1>6. ASSUME NEW b \in Boucle, NEW a \in Appel, EchoirRegle(b, a) PROVE IInv'
  <2>1. vue' \in [Boucle -> SUBSET Appel]
    BY <1>0, <1>6 DEF EchoirRegle, TypeOK
  <2>2. regler(a, hold[a].reserve, "expired")
    BY <1>6 DEF EchoirRegle
  <2>3. UNCHANGED etape /\ UNCHANGED monde /\ UNCHANGED <<releve, rapport, vu, cloture>>
    BY <1>6 DEF EchoirRegle
  <2> QED
    BY <1>0, <1>r, <1>n, <2>1, <2>2, <2>3, InvTiers DEF TypeOK
<1>7. ASSUME NEW v \in Releveur, NEW a \in Appel, reservation_de_la_releve(v, a) PROVE IInv'
  <2>1. /\ UNCHANGED etape /\ UNCHANGED monde /\ UNCHANGED comptes
        /\ UNCHANGED <<vue, rapport, vu, cloture>>
        /\ releve' \in [Releveur -> Appel \cup {NoAppel}]
        /\ \A w \in Releveur : \/ releve'[w] \in {releve[w], NoAppel}
                               \/ travail[releve'[w]] \in {"fini", "annule"}
    BY <1>0, <1>7 DEF reservation_de_la_releve, TypeOK
  <2>2. hold[a].etat = "open"
    BY <1>7 DEF reservation_de_la_releve
  <2> QED
    BY <1>0, <1>u, <2>1, <2>2, InvTiers DEF TypeOK
<1>8. ASSUME NEW v \in Releveur, Relever(v) PROVE IInv'
  <2> DEFINE a == releve[v]
  <2>0. a \in Appel
    BY <1>0, <1>8 DEF Relever, TypeOK
  <2>1. /\ UNCHANGED etape /\ UNCHANGED monde /\ UNCHANGED <<vue, rapport, vu, cloture>>
        /\ releve' \in [Releveur -> Appel \cup {NoAppel}]
        /\ \A w \in Releveur : releve'[w] \in {releve[w], NoAppel}
    BY <1>0, <1>8 DEF Relever, TypeOK
  <2>2. CASE \E m \in {reel[a], hold[a].reserve} : regler(a, m, "settled")
    <3>1. PICK m \in Nat : regler(a, m, "settled")
      BY <1>n, <2>0, <2>2
    <3> QED
      BY <1>0, <1>r, <2>0, <2>1, <3>1, InvTiers DEF TypeOK
  <2>3. CASE travail[a] = "annule" /\ liberer(a)
    <3>1. /\ Registre(a) /\ hold'[a].job = hold[a].job
          /\ hold'[a].etat = IF hold[a].etat = "open" THEN "released" ELSE hold[a].etat
      BY <2>0, <2>3, RegistreLibere
    <3> QED
      BY <1>0, <2>0, <2>1, <2>3, <3>1, InvTiers DEF TypeOK
  <2>4. CASE UNCHANGED comptes
    BY <1>0, <1>u, <2>0, <2>1, <2>4, InvTiers DEF TypeOK
  <2> QED
    BY <1>8, <2>2, <2>3, <2>4 DEF Relever
<1>9. ASSUME NEW r \in Rapporteur, NEW a \in Appel, RapportLit(r, a) PROVE IInv'
  <2>1. /\ UNCHANGED etape /\ UNCHANGED monde /\ UNCHANGED comptes
        /\ UNCHANGED <<vue, releve, cloture>>
        /\ rapport' \in [Rapporteur -> tours \cup {NoAppel}]
        /\ vu' \in [Rapporteur -> {"absent", "open"}]
    BY <1>0, <1>9 DEF RapportLit, TypeOK
  <2>2. \A q \in Rapporteur : rapport'[q] \in {rapport[q], NoAppel} \cup consomme
    BY <1>0, <1>9 DEF RapportLit, TypeOK, Suite, Suivi
  <2> QED
    BY <1>0, <1>u, <2>1, <2>2, InvTiers DEF TypeOK
<1>10. ASSUME NEW r \in Rapporteur, RapportReserve(r) PROVE IInv'
  <2> DEFINE a == rapport[r]
  <2>0. a \in tours /\ a \in Appel
    BY <1>0, <1>10, HoldsAssumption DEF RapportReserve, TypeOK
  <2>1. /\ UNCHANGED etape /\ UNCHANGED monde /\ UNCHANGED <<vue, releve, rapport, cloture>>
        /\ vu' \in [Rapporteur -> {"absent", "open"}]
    BY <1>0, <1>10 DEF RapportReserve, TypeOK
  <2>2. CASE /\ Poser(a, reel[a])
             /\ decouvert' = [decouvert EXCEPT ![payeurDe[a]] = @ + reel[a]]
    <3>1. decouvert' \in [Payeur -> Nat]
      BY <1>0, <1>n, <2>0, <2>2, HoldsAssumption DEF TypeOK
    <3>2. /\ hold' \in [Appel -> Hold] /\ balance' \in [Payeur -> Int]
          /\ holds_open' \in [Payeur -> Int] /\ mouvements' \in SUBSET Mouvement
          /\ \A b \in Appel \ {a} : hold'[b] = hold[b]
          /\ hold'[a].etat = "open" /\ ~hold'[a].job /\ hold'[a].reserve = reel[a]
      BY <1>0, <1>n, <2>0, <2>2, PoserType
    <3>3. Registre(a)
      BY <1>n, <2>0, <3>1, <3>2 DEF Registre
    <3>4. ~hold[a].job
      <4>1. a \notin asynchrones /\ Suivi(a)
        BY <1>0, <2>0, HoldsAssumption DEF Suite
      <4> QED
        BY <4>1 DEF Suivi
    <3>5. hold'[a].job = hold[a].job
      BY <1>0, <2>0, <3>2, <3>4 DEF TypeOK
    <3> QED
      BY <1>0, <2>0, <2>1, <3>2, <3>3, <3>5, InvTiers DEF TypeOK
  <2>3. CASE UNCHANGED comptes
    BY <1>0, <1>u, <2>0, <2>1, <2>3, InvTiers DEF TypeOK
  <2> QED
    BY <1>10, <2>2, <2>3 DEF RapportReserve
<1>11. ASSUME NEW r \in Rapporteur, regler_tour(r) PROVE IInv'
  <2> DEFINE a == rapport[r]
  <2>0. a \in tours /\ a \in Appel
    BY <1>0, <1>11, HoldsAssumption DEF regler_tour, TypeOK
  <2>1. /\ UNCHANGED monde /\ UNCHANGED <<vue, releve, cloture>>
        /\ rapport' \in [Rapporteur -> tours \cup {NoAppel}]
        /\ vu' \in [Rapporteur -> {"absent", "open"}]
        /\ \A q \in Rapporteur : rapport'[q] \in {rapport[q], NoAppel} \cup consomme
    BY <1>0, <1>11 DEF regler_tour, TypeOK
  <2>2. regler(a, reel[a], "settled")
    BY <1>11 DEF regler_tour
  <2>3. UNCHANGED etape \/ etape' = [etape EXCEPT ![a] = "fini"]
    BY <1>11 DEF regler_tour
  <2>4. etape[a] \in {"reussi", "echoue", "fini"}
    BY <1>0, <1>11, <2>0 DEF regler_tour, Suite, Suivi, TypeOK
  <2> QED
    BY <1>0, <1>r, <1>n, <2>0, <2>1, <2>2, <2>3, <2>4, InvTiers DEF TypeOK
<1>12. CASE CloreLit
  <2>1. cloture' \in SUBSET tours
    BY <1>12 DEF CloreLit, reservations_ouvertes
  <2> QED
    BY <1>0, <1>12, <2>1 DEF CloreLit, IInv, TypeOK, Suite, Suivi, AuBareme
<1>13. ASSUME NEW a \in Appel, clore_les_tours(a) PROVE IInv'
  <2>1. regler(a, hold[a].reserve, "settled") /\ cloture' \in SUBSET tours
    BY <1>0, <1>13 DEF clore_les_tours, TypeOK
  <2>2. UNCHANGED etape /\ UNCHANGED monde /\ UNCHANGED <<vue, releve, rapport, vu>>
    BY <1>13 DEF clore_les_tours
  <2> QED
    BY <1>0, <1>r, <1>n, <2>1, <2>2, InvTiers DEF TypeOK
<1>14. ASSUME NEW p \in Payeur, NEW q \in Payeur, suivre_le_solde(p, q) PROVE IInv'
  <2>1. /\ UNCHANGED <<etape, suivis, travail, consomme>>
        /\ fusionnes' \in SUBSET fusions
    BY <1>0, <1>14 DEF suivre_le_solde, TypeOK
  <2>2. CASE UNCHANGED comptes
    BY <1>0, <2>1, <2>2 DEF IInv, TypeOK, Suite, Suivi, AuBareme
  <2>3. CASE ~(balance[p] = 0 /\ holds_open[p] = 0)
    <3>1. /\ balance' = [balance EXCEPT ![p] = 0, ![q] = @ + balance[p]]
          /\ holds_open' = [holds_open EXCEPT ![p] = 0, ![q] = @ + holds_open[p]]
          /\ hold' = [a \in Appel |->
                        IF hold[a].etat = "open" /\ hold[a].payer = p
                        THEN [hold[a] EXCEPT !.payer = q] ELSE hold[a]]
          /\ mouvements' = mouvements \cup
               {[kind |-> "transfer", payer |-> p, amount |-> -balance[p],
                 held |-> -holds_open[p], cle |-> <<p, q>>],
                [kind |-> "transfer", payer |-> q, amount |-> balance[p],
                 held |-> holds_open[p], cle |-> <<p, q>>]}
          /\ decouvert' = [decouvert EXCEPT ![p] = 0, ![q] = @ + decouvert[p]]
      BY <1>14, <2>3 DEF suivre_le_solde
    <3>2. balance[p] \in Int /\ holds_open[p] \in Int /\ decouvert[p] \in Nat
      BY <1>0 DEF TypeOK
    <3>3. balance' \in [Payeur -> Int] /\ holds_open' \in [Payeur -> Int]
          /\ decouvert' \in [Payeur -> Nat]
      BY <1>0, <3>1, <3>2 DEF TypeOK
    <3>4. mouvements' \in SUBSET Mouvement
      <4> DEFINE m == [kind |-> "transfer", payer |-> p, amount |-> -balance[p],
                       held |-> -holds_open[p], cle |-> <<p, q>>]
                 n == [kind |-> "transfer", payer |-> q, amount |-> balance[p],
                       held |-> holds_open[p], cle |-> <<p, q>>]
      <4>1. <<p, q>> \in fusions
        BY <1>14 DEF suivre_le_solde
      <4>2. m \in Mouvement /\ n \in Mouvement
        BY <3>2, <4>1
      <4>3. mouvements' = mouvements \cup {m, n}
        BY <3>1
      <4> HIDE DEF m, n
      <4> QED
        BY <1>0, <4>2, <4>3 DEF TypeOK
    <3>5. \A a \in Appel : /\ hold'[a] \in Hold /\ hold'[a].etat = hold[a].etat
                           /\ hold'[a].job = hold[a].job /\ hold'[a].reserve = hold[a].reserve
      <4> TAKE a \in Appel
      <4>1. hold[a] \in Hold /\ [hold[a] EXCEPT !.payer = q] \in Hold
        BY <1>0 DEF TypeOK
      <4> QED
        BY <3>1, <4>1
    <3>6. hold' \in [Appel -> Hold]
      BY <3>1, <3>5
    <3>7. TypeOK'
      BY <1>0, <2>1, <3>3, <3>4, <3>6 DEF TypeOK
    <3>8. Suite' /\ AuBareme'
      BY <1>0, <2>1, <3>5 DEF Suite, Suivi, AuBareme
    <3> QED
      BY <3>7, <3>8 DEF IInv
  <2> QED
    BY <1>14, <2>2, <2>3 DEF suivre_le_solde
<1>15. CASE UNCHANGED vars
  BY <1>0, <1>15 DEF vars, IInv, TypeOK, Suite, Suivi, AuBareme
<1> QED
  BY <1>1, <1>2, <1>3, <1>4, <1>5, <1>6, <1>7, <1>8, <1>9, <1>10, <1>11, <1>12, <1>13,
     <1>14, <1>15 DEF Next

THEOREM Invariance == Spec => []IInv
BY InitInv, InvStep, PTL DEF Spec

\* Every variable of the budget keeps its type.
THEOREM TypeCorrect == Spec => []TypeOK
<1>1. IInv => TypeOK
  BY DEF IInv
<1> QED
  BY <1>1, Invariance, PTL

\* A released hold was not served, whoever released it.
THEOREM NothingServedForFree == Spec => RienDeServiGratuit
<1>1. IInv /\ [Next]_vars
        => [\A a \in Appel : hold'[a].etat = "released" => a \notin consomme']_vars
  <2>1. IInv' => \A a \in Appel : hold'[a].etat = "released" => a \notin consomme'
    BY DEF IInv, Suite, Suivi
  <2> QED
    BY <2>1, InvStep
<1> QED
  BY <1>1, Invariance, PTL DEF Spec, RienDeServiGratuit

-----------------------------------------------------------------------------
(* What a payer may engage. *)

\* What is available to a payer, once what he owes is set apart.
Marge(p) == Disponible(p) + decouvert[p]

LEMMA MargeRegle ==
  ASSUME TypeOK, NEW a \in Appel, NEW m \in Nat, NEW e \in Ferme, regler(a, m, e),
         NEW p \in Payeur
  PROVE  Marge(p)' >= Marge(p)
<1>0. hold[a].payer \in Payeur /\ hold[a].reserve \in Nat
      /\ balance[p] \in Int /\ holds_open[p] \in Int /\ decouvert[p] \in Nat
  BY DEF TypeOK
<1>1. CASE hold[a].etat # "open"
  BY <1>0, <1>1 DEF regler, Marge, Disponible
<1>2. CASE hold[a].etat = "open" /\ hold[a].payer # p
  BY <1>0, <1>2 DEF regler, Marge, Disponible, TypeOK
<1>3. CASE hold[a].etat = "open" /\ hold[a].payer = p
  <2>1. /\ balance'[p] = balance[p] - m /\ holds_open'[p] = holds_open[p] - hold[a].reserve
        /\ decouvert'[p] = decouvert[p] + Exces(m, hold[a].reserve)
    BY <1>0, <1>3 DEF regler, TypeOK
  <2>2. Exces(m, hold[a].reserve) >= m - hold[a].reserve /\ Exces(m, hold[a].reserve) \in Nat
    BY <1>0 DEF Exces
  <2> QED
    BY <1>0, <2>1, <2>2 DEF Marge, Disponible
<1> QED
  BY <1>1, <1>2, <1>3

LEMMA MargeLibere ==
  ASSUME TypeOK, NEW a \in Appel, liberer(a), NEW p \in Payeur
  PROVE  Marge(p)' >= Marge(p)
<1>0. hold[a].payer \in Payeur /\ hold[a].reserve \in Nat
      /\ balance[p] \in Int /\ holds_open[p] \in Int /\ decouvert[p] \in Nat
  BY DEF TypeOK
<1>1. CASE hold[a].etat # "open"
  BY <1>0, <1>1 DEF liberer, Marge, Disponible
<1>2. CASE hold[a].etat = "open"
  BY <1>0, <1>2 DEF liberer, Marge, Disponible, TypeOK
<1> QED
  BY <1>1, <1>2

LEMMA MargeInchangee ==
  ASSUME UNCHANGED <<balance, holds_open, decouvert>>, TypeOK, NEW p \in Payeur
  PROVE  Marge(p)' >= Marge(p)
BY DEF Marge, Disponible, TypeOK

\* The engagement of a call that was checked.
LEMMA MargePose ==
  ASSUME TypeOK, NEW a \in Appel, NEW n \in Nat, Poser(a, n), UNCHANGED decouvert,
         Suffisant(a, n), NEW p \in Payeur
  PROVE  Marge(p)' >= Marge(p) \/ Marge(p)' >= 0
<1>0. payeurDe[a] \in Payeur /\ balance[p] \in Int /\ holds_open[p] \in Int
      /\ decouvert[p] \in Nat
  BY HoldsAssumption DEF TypeOK
<1>1. CASE payeurDe[a] # p
  BY <1>0, <1>1 DEF Poser, Marge, Disponible, TypeOK
<1>2. CASE payeurDe[a] = p
  <2>1. holds_open'[p] = holds_open[p] + n /\ balance'[p] = balance[p]
        /\ decouvert'[p] = decouvert[p] /\ balance[p] - holds_open[p] >= n
    BY <1>0, <1>2 DEF Poser, TypeOK, Suffisant, Disponible
  <2> QED
    BY <1>0, <2>1 DEF Marge, Disponible
<1> QED
  BY <1>1, <1>2

\* Where the budget refuses, no step engages more than what is available.
LEMMA MargeStep ==
  ASSUME Enforce, TypeOK, [Next]_vars, NEW p \in Payeur, \A q \in Payeur : Marge(q) >= 0
  PROVE  Marge(p)' >= 0
<1>0. /\ balance[p] \in Int /\ holds_open[p] \in Int /\ decouvert[p] \in Nat /\ Marge(p) >= 0
      /\ Marge(p) \in Int
  BY DEF TypeOK, Marge, Disponible
<1>00. UNCHANGED <<balance, holds_open, decouvert>> => Marge(p)' >= 0
  BY <1>0 DEF Marge, Disponible
<1>m. \A a \in Appel : reel[a] \in Nat /\ reserve[a] \in Nat /\ hold[a].reserve \in Nat
  BY HoldsAssumption DEF TypeOK
<1>r. ASSUME NEW a \in Appel, NEW m \in Nat, NEW e \in Ferme, regler(a, m, e)
      PROVE  Marge(p)' >= 0
  <2>1. Marge(p)' >= Marge(p)
    BY <1>r, MargeRegle
  <2>2. balance'[p] \in Int /\ holds_open'[p] \in Int /\ decouvert'[p] \in Nat
    BY <1>r, ReglerType
  <2> QED
    BY <1>0, <2>1, <2>2 DEF Marge, Disponible
<1>l. ASSUME NEW a \in Appel, liberer(a) PROVE Marge(p)' >= 0
  <2>1. Marge(p)' >= Marge(p)
    BY <1>l, MargeLibere
  <2>2. balance'[p] \in Int /\ holds_open'[p] \in Int /\ decouvert'[p] \in Nat
    BY <1>l, LibererType
  <2> QED
    BY <1>0, <2>1, <2>2 DEF Marge, Disponible
<1>p. ASSUME NEW a \in Appel, Poser(a, reserve[a]), UNCHANGED decouvert,
             Suffisant(a, reserve[a])
      PROVE  Marge(p)' >= 0
  <2>1. Marge(p)' >= Marge(p) \/ Marge(p)' >= 0
    BY <1>p, <1>m, MargePose
  <2>2. balance'[p] \in Int /\ holds_open'[p] \in Int /\ decouvert'[p] \in Nat
    BY <1>p, <1>m, <1>0, PoserType
  <2> QED
    BY <1>0, <2>1, <2>2 DEF Marge, Disponible
<1>1. ASSUME NEW k \in Cle, verser(k) PROVE Marge(p)' >= 0
  <2>1. montantDe[k] \in Int /\ versA[k] \in Payeur
    BY HoldsAssumption
  <2>2. Exces(0, montantDe[k]) \in Nat /\ Exces(0, montantDe[k]) + montantDe[k] >= 0
    BY <2>1 DEF Exces
  <2>3. CASE versA[k] = p
    <3>1. balance'[p] = balance[p] + montantDe[k] /\ holds_open'[p] = holds_open[p]
          /\ decouvert'[p] = decouvert[p] + Exces(0, montantDe[k])
      BY <1>1, <2>1, <2>3 DEF verser, TypeOK
    <3> QED
      BY <1>0, <2>1, <2>2, <3>1 DEF Marge, Disponible
  <2>4. CASE versA[k] # p
    BY <1>0, <1>1, <2>1, <2>4 DEF verser, TypeOK, Marge, Disponible
  <2> QED
    BY <2>3, <2>4
<1>2. ASSUME NEW a \in Appel, Bord(a) PROVE Marge(p)' >= 0
  <2>1. reserver(a) \/ reserver_tour(a) => Marge(p)' >= 0
    BY <1>00, <1>p DEF reserver, reserver_tour
  <2>2. envoi(a) \/ RapportPerdu(a) => Marge(p)' >= 0
    BY <1>00 DEF envoi, RapportPerdu
  <2>3. solder_reussite(a) => Marge(p)' >= 0
    BY <1>00, <1>r, <1>m DEF solder_reussite, attendre_la_releve
  <2>4. solder_echec(a) \/ FinDuTour(a) => Marge(p)' >= 0
    BY <1>00, <1>r, <1>l, <1>m DEF solder_echec, FinDuTour
  <2> QED
    BY <1>2, <2>1, <2>2, <2>3, <2>4 DEF Bord
<1>3. ASSUME NEW a \in Appel, Tomber(a) \/ Passe(a) \/ TravailFinit(a) PROVE Marge(p)' >= 0
  BY <1>00, <1>3 DEF Tomber, Passe, TravailFinit
<1>4. ASSUME NEW b \in Boucle, EchoirListe(b) \/ EchoirTombe(b) PROVE Marge(p)' >= 0
  BY <1>00, <1>4 DEF EchoirListe, EchoirTombe
<1>5. ASSUME NEW b \in Boucle, NEW a \in Appel, EchoirRegle(b, a) PROVE Marge(p)' >= 0
  BY <1>r, <1>m, <1>5 DEF EchoirRegle
<1>6. ASSUME NEW v \in Releveur, NEW a \in Appel, reservation_de_la_releve(v, a)
      PROVE  Marge(p)' >= 0
  BY <1>00, <1>6 DEF reservation_de_la_releve
<1>7. ASSUME NEW v \in Releveur, Relever(v) PROVE Marge(p)' >= 0
  <2>1. releve[v] \in Appel
    BY <1>7 DEF Relever, TypeOK
  <2> QED
    BY <1>00, <1>r, <1>l, <1>m, <1>7, <2>1 DEF Relever
<1>8. ASSUME NEW r \in Rapporteur, NEW a \in Appel, RapportLit(r, a) PROVE Marge(p)' >= 0
  BY <1>00, <1>8 DEF RapportLit
<1>9. ASSUME NEW r \in Rapporteur, RapportReserve(r) PROVE Marge(p)' >= 0
  <2> DEFINE a == rapport[r]
  <2>0. a \in Appel /\ payeurDe[a] \in Payeur /\ reel[a] \in Nat
    BY <1>9, HoldsAssumption DEF RapportReserve, TypeOK
  <2>1. CASE /\ Poser(a, reel[a])
             /\ decouvert' = [decouvert EXCEPT ![payeurDe[a]] = @ + reel[a]]
    <3>1. CASE payeurDe[a] = p
      <4>1. balance'[p] = balance[p] /\ holds_open'[p] = holds_open[p] + reel[a]
            /\ decouvert'[p] = decouvert[p] + reel[a]
        BY <2>0, <2>1, <3>1 DEF Poser, TypeOK
      <4> QED
        BY <1>0, <2>0, <4>1 DEF Marge, Disponible
    <3>2. CASE payeurDe[a] # p
      BY <1>0, <2>0, <2>1, <3>2 DEF Poser, TypeOK, Marge, Disponible
    <3> QED
      BY <3>1, <3>2
  <2>2. CASE UNCHANGED comptes
    BY <1>00, <2>2
  <2> QED
    BY <1>9, <2>1, <2>2 DEF RapportReserve
<1>10. ASSUME NEW r \in Rapporteur, regler_tour(r) PROVE Marge(p)' >= 0
  <2>1. rapport[r] \in Appel
    BY <1>10, HoldsAssumption DEF regler_tour, TypeOK
  <2> QED
    BY <1>r, <1>m, <1>10, <2>1 DEF regler_tour
<1>11. CASE CloreLit
  BY <1>00, <1>11 DEF CloreLit
<1>12. ASSUME NEW a \in Appel, clore_les_tours(a) PROVE Marge(p)' >= 0
  BY <1>r, <1>m, <1>12 DEF clore_les_tours
<1>13. ASSUME NEW s \in Payeur, NEW q \in Payeur, suivre_le_solde(s, q) PROVE Marge(p)' >= 0
  <2>0. s # q /\ Marge(s) >= 0 /\ balance[s] \in Int /\ holds_open[s] \in Int
        /\ decouvert[s] \in Nat
    BY <1>13, HoldsAssumption DEF suivre_le_solde, TypeOK
  <2>1. CASE UNCHANGED comptes
    BY <1>00, <2>1
  <2>2. CASE ~(balance[s] = 0 /\ holds_open[s] = 0)
    <3>1. /\ balance' = [balance EXCEPT ![s] = 0, ![q] = @ + balance[s]]
          /\ holds_open' = [holds_open EXCEPT ![s] = 0, ![q] = @ + holds_open[s]]
          /\ decouvert' = [decouvert EXCEPT ![s] = 0, ![q] = @ + decouvert[s]]
      BY <1>13, <2>2 DEF suivre_le_solde
    <3>2. CASE p = s
      <4>1. balance'[p] = 0 /\ holds_open'[p] = 0 /\ decouvert'[p] = 0
        BY <2>0, <3>1, <3>2 DEF TypeOK
      <4> QED
        BY <4>1 DEF Marge, Disponible
    <3>3. CASE p = q
      <4>1. /\ balance'[p] = balance[p] + balance[s]
            /\ holds_open'[p] = holds_open[p] + holds_open[s]
            /\ decouvert'[p] = decouvert[p] + decouvert[s]
        BY <2>0, <3>1, <3>3 DEF TypeOK
      <4> QED
        BY <1>0, <2>0, <4>1 DEF Marge, Disponible
    <3>4. CASE p # s /\ p # q
      BY <1>0, <3>1, <3>4 DEF Marge, Disponible, TypeOK
    <3> QED
      BY <3>2, <3>3, <3>4
  <2> QED
    BY <1>13, <2>1, <2>2 DEF suivre_le_solde
<1>14. CASE UNCHANGED vars
  BY <1>00, <1>14 DEF vars
<1> QED
  BY <1>1, <1>2, <1>3, <1>4, <1>5, <1>6, <1>7, <1>8, <1>9, <1>10, <1>11, <1>12, <1>13,
     <1>14 DEF Next

\* Where the budget refuses, nobody is engaged beyond what he has and what he owes.
THEOREM BalanceHeld == Spec => []SoldeTenu
<1>1. Init => SoldeTenu
  BY DEF Init, SoldeTenu, Disponible
<1>2. TypeOK /\ SoldeTenu /\ [Next]_vars => SoldeTenu'
  BY MargeStep DEF SoldeTenu, Marge
<1> QED
  BY <1>1, <1>2, TypeCorrect, PTL DEF Spec

-----------------------------------------------------------------------------
(* The deadlines. *)

\* A step that reopens no hold and moves no deadline.
DelaisTenus ==
  /\ \A a \in Appel : /\ hold'[a].echue = hold[a].echue
                      /\ hold[a].etat # "absent" => hold'[a].etat # "absent"
                      /\ hold[a].etat \in Ferme => hold'[a].etat \in Ferme
  /\ \A a \in Appel : \/ etape'[a] = etape[a] \/ etape'[a] \in {"net", "echoue", "fini"}
                      \/ etape[a] \in {"ouvert", "reserve", "reussi"}
  /\ \A b \in Boucle : vue'[b] \subseteq vue[b]

LEMMA DelaisPas == Echeances /\ DelaisTenus => Echeances'
BY DEF Echeances, DelaisTenus

LEMMA DelaisLedger ==
  ASSUME TypeOK, NEW a \in Appel,
         \/ \E m \in Nat, e \in Ferme : regler(a, m, e)
         \/ liberer(a)
         \/ UNCHANGED comptes
  PROVE  \A b \in Appel : /\ hold'[b].echue = hold[b].echue
                          /\ hold[b].etat # "absent" => hold'[b].etat # "absent"
                          /\ hold[b].etat \in Ferme => hold'[b].etat \in Ferme
<1>1. CASE \E m \in Nat, e \in Ferme : regler(a, m, e)
  BY <1>1, ReglerType
<1>2. CASE liberer(a)
  BY <1>2, LibererType
<1> QED
  BY <1>1, <1>2

LEMMA EcheancesStep ==
  ASSUME ~SoumissionTardive, IInv, Echeances, [Next]_vars
  PROVE  Echeances'
<1>0. TypeOK /\ Suite
  BY DEF IInv
<1>m. \A a \in Appel : reel[a] \in Nat /\ reserve[a] \in Nat /\ hold[a].reserve \in Nat
  BY <1>0, HoldsAssumption DEF TypeOK
\* A call moves, and nothing else but its hold.
<1>v. ASSUME NEW a \in Appel, NEW e \in Etapes, Vers(a, e),
             e \in {"net", "echoue", "fini"} \/ etape[a] \in {"ouvert", "reserve", "reussi"}
      PROVE  \A b \in Appel : \/ etape'[b] = etape[b]
                              \/ etape'[b] \in {"net", "echoue", "fini"}
                              \/ etape[b] \in {"ouvert", "reserve", "reussi"}
  BY <1>0, <1>v DEF Vers, TypeOK
<1>p. ASSUME NEW a \in Appel, NEW n \in Nat, Poser(a, n), UNCHANGED vue,
             \A b \in Appel : etape'[b] = etape[b] \/ etape[b] \in {"ouvert", "reserve"}
      PROVE  Echeances'
  <2>1. \A b \in Boucle : a \notin vue[b]
    <3>1. hold[a].etat = "absent"
      BY <1>p DEF Poser
    <3> QED
      BY <3>1 DEF Echeances
  <2>2. /\ \A b \in Appel \ {a} : hold'[b] = hold[b]
        /\ hold'[a].etat = "open" /\ ~hold'[a].echue
    BY <1>0, <1>p, PoserType
  <2> QED
    BY <1>p, <2>1, <2>2 DEF Echeances
<1>c. ASSUME UNCHANGED hold, UNCHANGED etape, \A b \in Boucle : vue'[b] \subseteq vue[b]
      PROVE  Echeances'
  BY <1>c DEF Echeances
<1>1. ASSUME NEW k \in Cle, verser(k) PROVE Echeances'
  BY <1>1, <1>c DEF verser
<1>2. ASSUME NEW a \in Appel, reserver(a) \/ reserver_tour(a) PROVE Echeances'
  <2>1. etape[a] = "ouvert" /\ UNCHANGED vue
    BY <1>2 DEF reserver, reserver_tour
  <2>2. \A b \in Appel : etape'[b] = etape[b] \/ etape[b] \in {"ouvert", "reserve"}
    BY <1>0, <1>2, <2>1 DEF reserver, reserver_tour, Vers, TypeOK
  <2>3. Poser(a, reserve[a]) \/ UNCHANGED comptes
    BY <1>2 DEF reserver, reserver_tour
  <2>4. CASE UNCHANGED comptes
    BY <2>1, <2>2, <2>4, DelaisPas DEF DelaisTenus
  <2> QED
    BY <1>m, <1>p, <2>1, <2>2, <2>3, <2>4
<1>3. ASSUME NEW a \in Appel, envoi(a) PROVE Echeances'
  <2>1. (etape[a] = "reserve" \/ etape[a] = "ouvert") /\ UNCHANGED vue /\ UNCHANGED hold
        /\ \E e \in {"reussi", "net", "echoue"} : Vers(a, e)
    BY <1>3 DEF envoi
  <2> QED
    BY <1>v, <2>1, DelaisPas DEF DelaisTenus
<1>4. ASSUME NEW a \in Appel, solder_reussite(a) PROVE Echeances'
  <2>0. Vers(a, "fini") /\ UNCHANGED vue /\ etape[a] = "reussi"
    BY <1>4 DEF solder_reussite
  <2>1. CASE a \in asynchrones /\ hold[a].etat = "open" /\ attendre_la_releve(a)
    <3>1. hold' = [hold EXCEPT ![a] = [hold[a] EXCEPT !.job = TRUE, !.echue = FALSE]]
      BY <2>1 DEF attendre_la_releve
    <3>2. \A b \in Appel \ {a} : hold'[b] = hold[b]
      BY <1>0, <3>1 DEF TypeOK
    <3>3. hold'[a].etat = "open" /\ ~hold'[a].echue
      BY <1>0, <2>1, <3>1 DEF TypeOK
    <3>4. \A b \in Boucle : a \notin vue[b]
      BY <2>0, <2>1 DEF Echeances
    <3>5. \A b \in Appel \ {a} : etape'[b] = etape[b]
      BY <1>0, <2>0 DEF Vers, TypeOK
    <3> QED
      BY <2>0, <3>2, <3>3, <3>4, <3>5 DEF Echeances
  <2>2. CASE \/ \E m \in {reel[a], reserve[a]} : regler(a, m, "settled")
             \/ UNCHANGED comptes
    BY <1>0, <1>m, <1>v, <2>0, <2>2, DelaisLedger, DelaisPas DEF DelaisTenus
  <2> QED
    BY <1>4, <2>1, <2>2 DEF solder_reussite, attendre_la_releve
<1>5. ASSUME NEW a \in Appel, \/ solder_echec(a) \/ FinDuTour(a)
                              \/ RapportPerdu(a) \/ Tomber(a)
      PROVE  Echeances'
  <2>0. Vers(a, "fini") /\ UNCHANGED vue
    BY <1>5 DEF solder_echec, FinDuTour, RapportPerdu, Tomber
  <2>1. liberer(a) \/ regler(a, reserve[a], "settled") \/ UNCHANGED comptes
    BY <1>5 DEF solder_echec, FinDuTour, RapportPerdu, Tomber
  <2> QED
    BY <1>0, <1>m, <1>v, <2>0, <2>1, DelaisLedger, DelaisPas DEF DelaisTenus
<1>6. ASSUME NEW a \in Appel, Passe(a) PROVE Echeances'
  <2>1. hold' = [hold EXCEPT ![a] = [hold[a] EXCEPT !.echue = TRUE]] /\ UNCHANGED <<etape, vue>>
        /\ hold[a].etat = "open"
    BY <1>6 DEF Passe
  <2>2. \A b \in Appel \ {a} : hold'[b] = hold[b]
    BY <1>0, <2>1 DEF TypeOK
  <2>3. hold'[a].etat = "open" /\ hold'[a].echue
    BY <1>0, <2>1 DEF TypeOK
  <2>4. ~(a \in asynchrones /\ etape[a] \in {"ouvert", "reserve", "reussi"})
    <3>1. a \in asynchrones => a \notin tours /\ Suivi(a)
      BY <1>0, HoldsAssumption DEF Suite
    <3> QED
      BY <1>6, <2>1, <3>1 DEF Passe, Suivi
  <2> QED
    BY <2>1, <2>2, <2>3, <2>4 DEF Echeances
<1>7. ASSUME NEW a \in Appel, TravailFinit(a) PROVE Echeances'
  BY <1>7, <1>c DEF TravailFinit
<1>8. ASSUME NEW b \in Boucle, EchoirListe(b) PROVE Echeances'
  BY <1>0, <1>8 DEF EchoirListe, Echeances, reservations_echues, TypeOK
<1>9. ASSUME NEW b \in Boucle, EchoirTombe(b) PROVE Echeances'
  BY <1>0, <1>9 DEF EchoirTombe, Echeances, TypeOK
<1>10. ASSUME NEW b \in Boucle, NEW a \in Appel, EchoirRegle(b, a) PROVE Echeances'
  <2>1. regler(a, hold[a].reserve, "expired") /\ UNCHANGED etape
        /\ \A c \in Boucle : vue'[c] \subseteq vue[c]
    BY <1>0, <1>10 DEF EchoirRegle, TypeOK
  <2> QED
    BY <1>0, <1>m, <2>1, DelaisLedger, DelaisPas DEF DelaisTenus
<1>11. ASSUME NEW v \in Releveur, NEW a \in Appel, reservation_de_la_releve(v, a)
       PROVE  Echeances'
  BY <1>11, <1>c DEF reservation_de_la_releve
<1>12. ASSUME NEW v \in Releveur, Relever(v) PROVE Echeances'
  <2>1. releve[v] \in Appel /\ UNCHANGED <<etape, vue>>
    BY <1>0, <1>12 DEF Relever, TypeOK
  <2>2. \/ \E m \in {reel[releve[v]], hold[releve[v]].reserve} : regler(releve[v], m, "settled")
        \/ liberer(releve[v]) \/ UNCHANGED comptes
    BY <1>12 DEF Relever
  <2> QED
    BY <1>0, <1>m, <2>1, <2>2, DelaisLedger, DelaisPas DEF DelaisTenus
<1>13. ASSUME NEW r \in Rapporteur, NEW a \in Appel, RapportLit(r, a) PROVE Echeances'
  BY <1>13, <1>c DEF RapportLit
<1>14. ASSUME NEW r \in Rapporteur, RapportReserve(r) PROVE Echeances'
  <2>1. rapport[r] \in Appel /\ UNCHANGED <<etape, vue>>
    BY <1>0, <1>14, HoldsAssumption DEF RapportReserve, TypeOK
  <2>2. Poser(rapport[r], reel[rapport[r]]) \/ UNCHANGED comptes
    BY <1>14 DEF RapportReserve
  <2> QED
    BY <1>c, <1>m, <1>p, <2>1, <2>2
<1>15. ASSUME NEW r \in Rapporteur, regler_tour(r) PROVE Echeances'
  <2>1. rapport[r] \in Appel /\ UNCHANGED vue
        /\ (UNCHANGED etape \/ etape' = [etape EXCEPT ![rapport[r]] = "fini"])
    BY <1>0, <1>15, HoldsAssumption DEF regler_tour, TypeOK
  <2>2. regler(rapport[r], reel[rapport[r]], "settled")
    BY <1>15 DEF regler_tour
  <2> QED
    BY <1>0, <1>m, <1>v, <2>1, <2>2, DelaisLedger, DelaisPas DEF DelaisTenus, Vers
<1>16. CASE CloreLit
  BY <1>16, <1>c DEF CloreLit
<1>17. ASSUME NEW a \in Appel, clore_les_tours(a) PROVE Echeances'
  <2>1. regler(a, hold[a].reserve, "settled") /\ UNCHANGED <<etape, vue>>
    BY <1>17 DEF clore_les_tours
  <2> QED
    BY <1>0, <1>m, <2>1, DelaisLedger, DelaisPas DEF DelaisTenus
<1>18. ASSUME NEW p \in Payeur, NEW q \in Payeur, suivre_le_solde(p, q) PROVE Echeances'
  <2>1. /\ UNCHANGED <<etape, vue>>
        /\ \/ UNCHANGED hold
           \/ hold' = [a \in Appel |->
                         IF hold[a].etat = "open" /\ hold[a].payer = p
                         THEN [hold[a] EXCEPT !.payer = q] ELSE hold[a]]
    BY <1>18 DEF suivre_le_solde
  <2>2. \A a \in Appel : hold'[a].etat = hold[a].etat /\ hold'[a].echue = hold[a].echue
    BY <1>0, <2>1 DEF TypeOK
  <2> QED
    BY <2>1, <2>2 DEF Echeances
<1>19. CASE UNCHANGED vars
  BY <1>19, <1>c DEF vars
<1> QED
  BY <1>1, <1>2, <1>3, <1>4, <1>5, <1>6, <1>7, <1>8, <1>9, <1>10, <1>11, <1>12, <1>13,
     <1>14, <1>15, <1>16, <1>17, <1>18, <1>19 DEF Next, Bord

\* Only a loop expires a hold, and only one it listed.
LEMMA ExpireListe ==
  ASSUME IInv, [Next]_vars, NEW a \in Appel, hold[a].etat = "open", hold'[a].etat = "expired"
  PROVE  \E b \in Boucle : a \in vue[b]
<1>0. TypeOK
  BY DEF IInv
<1>m. \A b \in Appel : reel[b] \in Nat /\ reserve[b] \in Nat /\ hold[b].reserve \in Nat
  BY <1>0, HoldsAssumption DEF TypeOK
<1>u. hold' # hold
  OBVIOUS
<1>r. ASSUME NEW b \in Appel, NEW m \in Nat, regler(b, m, "settled") PROVE FALSE
  BY <1>0, <1>r, ReglerType
<1>l. ASSUME NEW b \in Appel, liberer(b) PROVE FALSE
  BY <1>0, <1>l, LibererType
<1>p. ASSUME NEW b \in Appel, NEW n \in Nat, Poser(b, n) PROVE FALSE
  BY <1>0, <1>p, PoserType
<1>1. ASSUME NEW b \in Appel, Bord(b) PROVE FALSE
  <2>1. reserver(b) \/ reserver_tour(b) => FALSE
    BY <1>u, <1>p, <1>m DEF reserver, reserver_tour
  <2>2. envoi(b) \/ RapportPerdu(b) => FALSE
    BY <1>u DEF envoi, RapportPerdu
  <2>3. solder_echec(b) \/ FinDuTour(b) => FALSE
    BY <1>u, <1>r, <1>l, <1>m DEF solder_echec, FinDuTour
  <2>4. solder_reussite(b) => FALSE
    <3>1. attendre_la_releve(b) => hold'[a].etat = hold[a].etat
      BY <1>0 DEF attendre_la_releve, TypeOK
    <3> QED
      BY <1>r, <1>m, <3>1 DEF solder_reussite
  <2> QED
    BY <1>1, <2>1, <2>2, <2>3, <2>4 DEF Bord
<1>2. ASSUME NEW b \in Appel, Passe(b) PROVE FALSE
  BY <1>0, <1>2 DEF Passe, TypeOK
<1>3. ASSUME NEW c \in Boucle, NEW b \in Appel, EchoirRegle(c, b)
      PROVE  \E d \in Boucle : a \in vue[d]
  <2>1. \A d \in Appel \ {b} : hold'[d] = hold[d]
    BY <1>0, <1>m, <1>3, ReglerType DEF EchoirRegle
  <2> QED
    BY <1>3, <2>1 DEF EchoirRegle
<1>4. ASSUME NEW v \in Releveur, Relever(v) PROVE FALSE
  <2>1. releve[v] \in Appel
    BY <1>0, <1>4 DEF Relever, TypeOK
  <2> QED
    BY <1>u, <1>r, <1>l, <1>m, <1>4, <2>1 DEF Relever
<1>5. ASSUME NEW r \in Rapporteur, RapportReserve(r) \/ regler_tour(r) PROVE FALSE
  <2>1. rapport[r] \in Appel
    BY <1>0, <1>5, HoldsAssumption DEF RapportReserve, regler_tour, TypeOK
  <2> QED
    BY <1>u, <1>r, <1>p, <1>m, <1>5, <2>1 DEF RapportReserve, regler_tour
<1>6. ASSUME NEW b \in Appel, clore_les_tours(b) PROVE FALSE
  BY <1>r, <1>m, <1>6 DEF clore_les_tours
<1>7. ASSUME NEW p \in Payeur, NEW q \in Payeur, suivre_le_solde(p, q) PROVE FALSE
  <2>1. hold' = [b \in Appel |->
                   IF hold[b].etat = "open" /\ hold[b].payer = p
                   THEN [hold[b] EXCEPT !.payer = q] ELSE hold[b]]
    BY <1>u, <1>7 DEF suivre_le_solde
  <2> QED
    BY <1>0, <2>1 DEF TypeOK
<1>8. ASSUME \/ UNCHANGED vars \/ CloreLit
             \/ \E k \in Cle : verser(k)
             \/ \E b \in Appel : Tomber(b) \/ TravailFinit(b)
             \/ \E b \in Boucle : EchoirListe(b) \/ EchoirTombe(b)
             \/ \E v \in Releveur, b \in Appel : reservation_de_la_releve(v, b)
             \/ \E r \in Rapporteur, b \in Appel : RapportLit(r, b)
      PROVE  FALSE
  BY <1>u, <1>8 DEF vars, CloreLit, verser, Tomber, TravailFinit, EchoirListe, EchoirTombe,
                    reservation_de_la_releve, RapportLit
<1> QED
  BY <1>1, <1>2, <1>3, <1>4, <1>5, <1>6, <1>7, <1>8 DEF Next

\* If a submission never outlasts its own deadline, a hold that expires was past its
\* deadline, the last it was given.
THEOREM ExpiryIsJust == ~SoumissionTardive => (Spec => EcheanceJuste)
<1> SUFFICES ASSUME ~SoumissionTardive PROVE Spec => EcheanceJuste
  OBVIOUS
<1>1. Init => IInv /\ Echeances
  BY InitInv
<1>2. (IInv /\ Echeances) /\ [Next]_vars => (IInv /\ Echeances)'
  BY InvStep, EcheancesStep
<1>3. (IInv /\ Echeances) /\ [Next]_vars
        => [\A a \in Appel : hold[a].etat = "open" /\ hold'[a].etat = "expired"
                               => hold[a].echue]_vars
  <2> SUFFICES ASSUME IInv, Echeances, [Next]_vars, NEW a \in Appel,
                      hold[a].etat = "open", hold'[a].etat = "expired"
               PROVE  hold[a].echue
    OBVIOUS
  <2> QED
    BY ExpireListe DEF Echeances
<1> QED
  BY <1>1, <1>2, <1>3, PTL DEF Spec, EcheanceJuste

\* A hold is closed for the reason its row gives, if no submission outlasts its own.
THEOREM ClosedForItsReason == ~SoumissionTardive => (Spec => ClotureJuste)
<1> SUFFICES ASSUME ~SoumissionTardive PROVE Spec => ClotureJuste
  OBVIOUS
<1>1. Spec => EcheanceJuste
  BY ExpiryIsJust
<1> QED
  BY <1>1, NothingServedForFree DEF ClotureJuste

-----------------------------------------------------------------------------
(* The budget as it is promised: each step is one of UnitBudget, or nothing. *)

Abstrait(a) == [etat |-> CASE hold[a].etat = "absent" -> "absent"
                           [] hold[a].etat = "open" -> "engage"
                           [] OTHER -> "clos",
                payer |-> hold[a].payer, montant |-> hold[a].reserve]
Dispos == [p \in Payeur |-> Disponible(p)]
Engages == [a \in Appel |-> Abstrait(a)]

\* What the promise does not see.
LEMMA RienVu ==
  ASSUME \A a \in Appel : hold'[a].etat = hold[a].etat /\ hold'[a].payer = hold[a].payer
                          /\ hold'[a].reserve = hold[a].reserve,
         UNCHANGED <<balance, holds_open, consomme>>
  PROVE  UNCHANGED Budget!vars
<1>1. Dispos' = Dispos
  BY DEF Dispos, Disponible
<1>2. \A a \in Appel : Abstrait(a)' = Abstrait(a)
  BY DEF Abstrait
<1>3. Engages' = Engages
  BY <1>2 DEF Engages
<1> QED
  BY <1>1, <1>3 DEF Budget!vars, Dispos, Engages, Abstrait

LEMMA RienVuLedger ==
  ASSUME UNCHANGED <<balance, holds_open, hold, consomme>>
  PROVE  UNCHANGED Budget!vars
BY RienVu

LEMMA CloreVu ==
  ASSUME TypeOK, NEW a \in Appel, NEW m \in Montants, NEW e \in Ferme,
         hold[a].etat = "open", hold' = [hold EXCEPT ![a].etat = e],
         holds_open' = [holds_open EXCEPT ![hold[a].payer] = @ - hold[a].reserve],
         balance' = [balance EXCEPT ![hold[a].payer] = @ - m],
         UNCHANGED consomme
  PROVE  Budget!Clore(a, m)
<1>0. hold[a].payer \in Payeur /\ hold[a].reserve \in Nat /\ m \in Int
  BY MontantsNat DEF TypeOK
<1>1. /\ \A b \in Appel \ {a} : hold'[b] = hold[b]
      /\ hold'[a].reserve = hold[a].reserve /\ hold'[a].payer = hold[a].payer
      /\ hold'[a].etat = e
  BY EtatChange
<1>2. Engages' = [Engages EXCEPT ![a] = [Engages[a] EXCEPT !.etat = "clos"]]
  <2>1. \A b \in Appel \ {a} : Abstrait(b)' = Abstrait(b)
    BY <1>1 DEF Abstrait
  <2>2. Abstrait(a)' = [Abstrait(a) EXCEPT !.etat = "clos"]
    BY <1>1 DEF Abstrait
  <2> QED
    BY <2>1, <2>2 DEF Engages
<1>3. Dispos' = [Dispos EXCEPT ![hold[a].payer] = @ + hold[a].reserve - m]
  <2>1. \A p \in Payeur : Disponible(p)' = IF p = hold[a].payer
                                            THEN Disponible(p) + hold[a].reserve - m
                                            ELSE Disponible(p)
    BY <1>0 DEF Disponible, TypeOK
  <2> QED
    BY <1>0, <2>1 DEF Dispos
<1>4. Engages[a].etat = "engage" /\ Engages[a].payer = hold[a].payer
      /\ Engages[a].montant = hold[a].reserve
  BY DEF Engages, Abstrait
<1>5. /\ Dispos' = [Dispos EXCEPT ![Engages[a].payer] = @ + Engages[a].montant - m]
      /\ Engages' = [Engages EXCEPT ![a].etat = "clos"]
  BY <1>2, <1>3, <1>4
<1> QED
  BY <1>4, <1>5 DEF Budget!Clore, Dispos, Engages, Abstrait

LEMMA ReglerVu ==
  ASSUME TypeOK, NEW a \in Appel, NEW m \in Montants, NEW e \in Ferme, regler(a, m, e),
         UNCHANGED consomme
  PROVE  [Budget!Next]_(Budget!vars)
<1>1. CASE hold[a].etat = "open"
  <2>1. Budget!Clore(a, m)
    BY <1>1, CloreVu DEF regler
  <2> QED
    BY <2>1 DEF Budget!Next
<1>2. CASE hold[a].etat # "open"
  BY <1>2, RienVuLedger DEF regler
<1> QED
  BY <1>1, <1>2

LEMMA LibererVu ==
  ASSUME TypeOK, NEW a \in Appel, liberer(a), UNCHANGED consomme
  PROVE  [Budget!Next]_(Budget!vars)
<1>1. CASE hold[a].etat = "open"
  <2>0. 0 \in Montants /\ hold[a].payer \in Payeur
    BY DEF Montants, TypeOK
  <2>1. balance' = [balance EXCEPT ![hold[a].payer] = @ - 0]
    BY <1>1, <2>0 DEF liberer, TypeOK
  <2>2. Budget!Clore(a, 0)
    BY <1>1, <2>0, <2>1, CloreVu DEF liberer
  <2> QED
    BY <2>0, <2>2 DEF Budget!Next
<1>2. CASE hold[a].etat # "open"
  BY <1>2, RienVuLedger DEF liberer
<1> QED
  BY <1>1, <1>2

LEMMA PoserVu ==
  ASSUME TypeOK, NEW a \in Appel, NEW n \in Montants, Poser(a, n), UNCHANGED consomme,
         Enforce => Suffisant(a, n) \/ a \in consomme
  PROVE  [Budget!Next]_(Budget!vars)
<1> DEFINE p == payeurDe[a]
<1>0. p \in Payeur /\ n \in Nat
  BY HoldsAssumption, MontantsNat
<1>1. /\ hold[a].etat = "absent"
      /\ hold' = [hold EXCEPT ![a] = [etat |-> "open", payer |-> p, reserve |-> n,
                                      echue |-> FALSE, job |-> FALSE]]
      /\ holds_open' = [holds_open EXCEPT ![p] = @ + n] /\ UNCHANGED balance
  BY DEF Poser
<1>2. Engages' = [Engages EXCEPT ![a] = [etat |-> "engage", payer |-> p, montant |-> n]]
  <2>1. \A b \in Appel \ {a} : Abstrait(b)' = Abstrait(b)
    BY <1>1 DEF Abstrait, TypeOK
  <2>2. Abstrait(a)' = [etat |-> "engage", payer |-> p, montant |-> n]
    BY <1>1 DEF Abstrait, TypeOK
  <2> QED
    BY <2>1, <2>2 DEF Engages
<1>3. Dispos' = [Dispos EXCEPT ![p] = @ - n]
  <2>1. \A q \in Payeur : Disponible(q)' = IF q = p THEN Disponible(q) - n ELSE Disponible(q)
    BY <1>0, <1>1 DEF Disponible, TypeOK
  <2> QED
    BY <1>0, <2>1 DEF Dispos
<1>4. Engages[a].etat = "absent" /\ (Enforce => Dispos[p] >= n \/ a \in consomme)
  BY <1>0, <1>1 DEF Engages, Abstrait, Dispos, Suffisant
<1>5. Budget!Engager(a, p, n)
  BY <1>2, <1>3, <1>4 DEF Budget!Engager, Dispos, Engages, Abstrait
<1> QED
  BY <1>0, <1>5 DEF Budget!Next

LEMMA ReunirVu ==
  ASSUME TypeOK, NEW p \in Payeur, NEW q \in Payeur, suivre_le_solde(p, q)
  PROVE  [Budget!Next]_(Budget!vars)
<1>0. p # q /\ UNCHANGED consomme
  BY HoldsAssumption DEF suivre_le_solde
<1>1. CASE UNCHANGED comptes
  BY <1>0, <1>1, RienVuLedger
<1>2. CASE ~(balance[p] = 0 /\ holds_open[p] = 0)
  <2>1. /\ balance' = [balance EXCEPT ![p] = 0, ![q] = @ + balance[p]]
        /\ holds_open' = [holds_open EXCEPT ![p] = 0, ![q] = @ + holds_open[p]]
        /\ hold' = [a \in Appel |->
                      IF hold[a].etat = "open" /\ hold[a].payer = p
                      THEN [hold[a] EXCEPT !.payer = q] ELSE hold[a]]
    BY <1>2 DEF suivre_le_solde
  <2>2. Dispos' = [Dispos EXCEPT ![q] = @ + Dispos[p], ![p] = 0]
    <3>1. \A x \in Payeur : Disponible(x)' = IF x = p THEN 0
                                             ELSE IF x = q THEN Disponible(q) + Disponible(p)
                                                  ELSE Disponible(x)
      BY <1>0, <2>1 DEF Disponible, TypeOK
    <3> QED
      BY <1>0, <3>1 DEF Dispos
  <2>3. \A a \in Appel :
          Abstrait(a)' = IF Abstrait(a).etat = "engage" /\ Abstrait(a).payer = p
                         THEN [Abstrait(a) EXCEPT !.payer = q] ELSE Abstrait(a)
    <3> TAKE a \in Appel
    <3>1. CASE hold[a].etat = "open" /\ hold[a].payer = p
      <4>1. hold'[a] = [hold[a] EXCEPT !.payer = q] /\ hold[a] \in Hold
        BY <2>1, <3>1 DEF TypeOK
      <4>2. hold'[a].etat = "open" /\ hold'[a].payer = q /\ hold'[a].reserve = hold[a].reserve
        BY <3>1, <4>1
      <4> QED
        BY <3>1, <4>2 DEF Abstrait
    <3>2. CASE ~(hold[a].etat = "open" /\ hold[a].payer = p)
      <4>1. hold'[a] = hold[a]
        BY <2>1, <3>2
      <4> QED
        BY <3>2, <4>1 DEF Abstrait
    <3> QED
      BY <3>1, <3>2
  <2>4. Engages' = [a \in Appel |->
                      IF Engages[a].etat = "engage" /\ Engages[a].payer = p
                      THEN [Engages[a] EXCEPT !.payer = q] ELSE Engages[a]]
    BY <2>3 DEF Engages
  <2>5. Budget!Reunir(p, q)
    BY <1>0, <2>2, <2>4 DEF Budget!Reunir, Dispos, Engages, Abstrait
  <2> QED
    BY <2>5 DEF Budget!Next
<1> QED
  BY <1>1, <1>2 DEF suivre_le_solde

LEMMA VerserVu ==
  ASSUME TypeOK, NEW k \in Cle, verser(k)
  PROVE  [Budget!Next]_(Budget!vars)
<1>0. versA[k] \in Payeur /\ montantDe[k] \in Int
  BY HoldsAssumption
<1>1. Dispos' = [Dispos EXCEPT ![versA[k]] = @ + montantDe[k]]
  <2>1. \A x \in Payeur : Disponible(x)' = IF x = versA[k] THEN Disponible(x) + montantDe[k]
                                           ELSE Disponible(x)
    BY <1>0 DEF verser, Disponible, TypeOK
  <2> QED
    BY <1>0, <2>1 DEF Dispos
<1>2. Engages' = Engages
  BY DEF verser, Engages, Abstrait
<1>3. Budget!Crediter
  BY <1>0, <1>1, <1>2 DEF verser, Budget!Crediter, Dispos, Engages, Abstrait
<1> QED
  BY <1>3 DEF Budget!Next

\* A call is served: nothing else that the promise sees changes.
LEMMA ServiVu ==
  ASSUME UNCHANGED <<balance, holds_open, hold>>, NEW a \in Appel,
         consomme' \in {consomme, consomme \cup {a}}
  PROVE  [Budget!Next]_(Budget!vars)
<1>1. CASE UNCHANGED consomme
  BY <1>1, RienVuLedger
<1>2. CASE consomme' = consomme \cup {a}
  <2>1. Dispos' = Dispos /\ Engages' = Engages
    BY DEF Dispos, Disponible, Engages, Abstrait
  <2>2. Budget!Consommer
    BY <1>2, <2>1 DEF Budget!Consommer, Dispos, Engages, Abstrait
  <2> QED
    BY <2>2 DEF Budget!Next
<1> QED
  BY <1>1, <1>2

LEMMA BudgetStep ==
  ASSUME IInv, [Next]_vars
  PROVE  [Budget!Next]_(Budget!vars)
<1>0. TypeOK /\ Suite /\ AuBareme
  BY DEF IInv
<1>m. \A a \in Appel : {reel[a], reserve[a], hold[a].reserve} \subseteq Montants
  BY <1>0 DEF AuBareme, Montants
<1>1. ASSUME NEW k \in Cle, verser(k) PROVE [Budget!Next]_(Budget!vars)
  BY <1>0, <1>1, VerserVu
<1>2. ASSUME NEW a \in Appel, Bord(a) PROVE [Budget!Next]_(Budget!vars)
  <2>1. CASE reserver(a) \/ reserver_tour(a)
    BY <1>0, <1>m, <2>1, PoserVu, RienVuLedger DEF reserver, reserver_tour
  <2>2. CASE envoi(a)
    BY <2>2, ServiVu DEF envoi
  <2>3. CASE solder_reussite(a)
    <3>1. UNCHANGED consomme
      BY <2>3 DEF solder_reussite
    <3>2. CASE attendre_la_releve(a) /\ hold[a].etat = "open"
      <4>1. hold' = [hold EXCEPT ![a] = [hold[a] EXCEPT !.job = TRUE, !.echue = FALSE]]
            /\ UNCHANGED <<balance, holds_open>>
        BY <3>2 DEF attendre_la_releve
      <4>2. \A b \in Appel : hold'[b].etat = hold[b].etat /\ hold'[b].payer = hold[b].payer
                             /\ hold'[b].reserve = hold[b].reserve
        BY <1>0, <4>1 DEF TypeOK
      <4> QED
        BY <3>1, <4>1, <4>2, RienVu
    <3>3. CASE attendre_la_releve(a) /\ hold[a].etat # "open"
      BY <3>1, <3>3, RienVuLedger DEF attendre_la_releve
    <3>4. CASE \E m \in {reel[a], reserve[a]} : regler(a, m, "settled")
      BY <1>0, <1>m, <3>1, <3>4, ReglerVu
    <3> QED
      BY <2>3, <3>2, <3>3, <3>4 DEF solder_reussite
  <2>4. CASE solder_echec(a) \/ FinDuTour(a)
    BY <1>0, <1>m, <2>4, ReglerVu, LibererVu, RienVuLedger DEF solder_echec, FinDuTour
  <2>5. CASE RapportPerdu(a)
    BY <2>5, RienVuLedger DEF RapportPerdu
  <2> QED
    BY <1>2, <2>1, <2>2, <2>3, <2>4, <2>5 DEF Bord
<1>3. ASSUME NEW a \in Appel, Tomber(a) \/ TravailFinit(a) PROVE [Budget!Next]_(Budget!vars)
  BY <1>3, ServiVu DEF Tomber, TravailFinit
<1>4. ASSUME NEW a \in Appel, Passe(a) PROVE [Budget!Next]_(Budget!vars)
  <2>1. \A b \in Appel : hold'[b].etat = hold[b].etat /\ hold'[b].payer = hold[b].payer
                         /\ hold'[b].reserve = hold[b].reserve
    BY <1>0, <1>4 DEF Passe, TypeOK
  <2> QED
    BY <1>4, <2>1, RienVu DEF Passe
<1>5. ASSUME NEW b \in Boucle, NEW a \in Appel, EchoirRegle(b, a)
      PROVE  [Budget!Next]_(Budget!vars)
  BY <1>0, <1>m, <1>5, ReglerVu DEF EchoirRegle
<1>6. ASSUME NEW v \in Releveur, Relever(v) PROVE [Budget!Next]_(Budget!vars)
  <2>1. releve[v] \in Appel /\ UNCHANGED consomme
    BY <1>0, <1>6 DEF Relever, TypeOK
  <2> QED
    BY <1>0, <1>m, <1>6, <2>1, ReglerVu, LibererVu, RienVuLedger DEF Relever
<1>7. ASSUME NEW r \in Rapporteur, RapportReserve(r) PROVE [Budget!Next]_(Budget!vars)
  <2>1. rapport[r] \in Appel /\ UNCHANGED consomme /\ rapport[r] \in consomme
    BY <1>0, <1>7, HoldsAssumption DEF RapportReserve, TypeOK, Suite
  <2> QED
    BY <1>0, <1>m, <1>7, <2>1, PoserVu, RienVuLedger DEF RapportReserve
<1>8. ASSUME NEW r \in Rapporteur, regler_tour(r) PROVE [Budget!Next]_(Budget!vars)
  <2>1. rapport[r] \in Appel /\ UNCHANGED consomme
    BY <1>0, <1>8, HoldsAssumption DEF regler_tour, TypeOK
  <2> QED
    BY <1>0, <1>m, <1>8, <2>1, ReglerVu DEF regler_tour
<1>9. ASSUME NEW a \in Appel, clore_les_tours(a) PROVE [Budget!Next]_(Budget!vars)
  BY <1>0, <1>m, <1>9, ReglerVu DEF clore_les_tours
<1>10. ASSUME NEW p \in Payeur, NEW q \in Payeur, suivre_le_solde(p, q)
       PROVE  [Budget!Next]_(Budget!vars)
  BY <1>0, <1>10, ReunirVu
<1>11. ASSUME \/ UNCHANGED vars \/ CloreLit
              \/ \E b \in Boucle : EchoirListe(b) \/ EchoirTombe(b)
              \/ \E v \in Releveur, b \in Appel : reservation_de_la_releve(v, b)
              \/ \E r \in Rapporteur, b \in Appel : RapportLit(r, b)
       PROVE  [Budget!Next]_(Budget!vars)
  <2>1. UNCHANGED <<balance, holds_open, hold, consomme>>
    BY <1>11 DEF vars, CloreLit, EchoirListe, EchoirTombe, reservation_de_la_releve, RapportLit
  <2> QED
    BY <2>1, RienVuLedger
<1> QED
  BY <1>1, <1>2, <1>3, <1>4, <1>5, <1>6, <1>7, <1>8, <1>9, <1>10, <1>11 DEF Next

\* The budget does what UnitBudget promises: nothing beyond what is available is engaged,
\* each call is engaged once and closed once, and units move with nothing else.
THEOREM Refinement == Spec => TientLeBudget
<1>1. Init => Budget!Init
  <2> SUFFICES ASSUME Init PROVE Budget!Init
    OBVIOUS
  <2>1. Dispos = [p \in Payeur |-> 0]
    BY DEF Init, Dispos, Disponible
  <2>2. Engages \in [Appel -> [etat : {"absent"}, payer : Payeur, montant : {0}]]
    <3>1. \A a \in Appel : hold[a].etat = "absent" /\ hold[a].payer = payeurDe[a]
                           /\ hold[a].reserve = 0 /\ payeurDe[a] \in Payeur
      BY HoldsAssumption DEF Init
    <3>2. \A a \in Appel : Abstrait(a) \in [etat : {"absent"}, payer : Payeur, montant : {0}]
      BY <3>1 DEF Abstrait
    <3> QED
      BY <3>2 DEF Engages
  <2> QED
    BY <2>1, <2>2 DEF Init, Budget!Init, Dispos, Engages, Abstrait
<1>2. IInv /\ [Next]_vars => [Budget!Next]_(Budget!vars)
  BY BudgetStep
<1> QED
  BY <1>1, <1>2, Invariance, PTL DEF Spec, TientLeBudget, Budget!Spec

-----------------------------------------------------------------------------
(* The ledger: what the movements add up to, and what the open holds do. *)

SoldeDe(M, p) == SumFunctionOnSet([m \in M |-> m.amount], {m \in M : m.payer = p})
OuvertesDe(h, p) == {a \in Appel : h[a].etat = "open" /\ h[a].payer = p}
EngageDe(h, p) == SumFunctionOnSet([a \in Appel |-> h[a].reserve], OuvertesDe(h, p))
Ouvertures(h) == {a \in Appel : h[a].etat = "open"}

\* What one hold engages of a payer.
Part(h, a, p) == IF h[a].etat = "open" /\ h[a].payer = p THEN h[a].reserve ELSE 0

\* Each closing and each merge writes its movements once: the call of a settlement is
\* closed, and a merge that was written has taken place.
Livre ==
  /\ IsFiniteSet(mouvements) /\ IsFiniteSet(Ouvertures(hold))
  /\ \A m \in mouvements :
       /\ m.kind = "settle" => m.cle \in Appel /\ hold[m.cle].etat \in Ferme
       /\ m.kind = "transfer" => m.cle \in fusionnes

LivreJuste == TypeOK /\ Livre /\ Coherence

LEMMA CoherenceDe ==
  Coherence <=> \A p \in Payeur : /\ balance[p] = SoldeDe(mouvements, p)
                                 /\ holds_open[p] = EngageDe(hold, p)
BY DEF Coherence, SoldeDe, EngageDe, OuvertesDe, Ecritures, Ouvertes

LEMMA CoherenceDePrime ==
  Coherence' <=> \A p \in Payeur : /\ balance'[p] = SoldeDe(mouvements', p)
                                  /\ holds_open'[p] = EngageDe(hold', p)
BY DEF Coherence, SoldeDe, EngageDe, OuvertesDe, Ecritures, Ouvertes

\* A new movement adds its amount to the balance of its payer, and to no other.
LEMMA SoldeEcrit ==
  ASSUME NEW M, IsFiniteSet(M), M \subseteq Mouvement, NEW m \in Mouvement, m \notin M,
         NEW p
  PROVE  /\ SoldeDe(M, p) \in Int
         /\ SoldeDe(M \cup {m}, p)
              = IF m.payer = p THEN SoldeDe(M, p) + m.amount ELSE SoldeDe(M, p)
<1> DEFINE S == {x \in M : x.payer = p}
           R == {x \in M \cup {m} : x.payer = p}
           f == [x \in M |-> x.amount]
           g == [x \in M \cup {m} |-> x.amount]
<1>1. IsFiniteSet(S) /\ m \notin S
  BY FS_Subset
<1>2. \A x \in S : f[x] = g[x] /\ f[x] \in Int /\ g[x] \in Int
  OBVIOUS
<1>3. g[m] = m.amount /\ m.amount \in Int
  OBVIOUS
<1>4. R = IF m.payer = p THEN S \cup {m} ELSE S
  OBVIOUS
<1>5. SoldeDe(M, p) = SumFunctionOnSet(f, S) /\ SoldeDe(M \cup {m}, p) = SumFunctionOnSet(g, R)
  BY DEF SoldeDe
<1> HIDE DEF S, R, f, g
<1>6. SumFunctionOnSet(f, S) \in Int
  BY <1>1, <1>2, SumType
<1>7. SumFunctionOnSet(g, S) = SumFunctionOnSet(f, S)
  BY <1>1, <1>2, SumSame
<1>8. SumFunctionOnSet(g, S \cup {m}) = SumFunctionOnSet(g, S) + g[m]
  <2>1. \A x \in S \cup {m} : g[x] \in Int
    BY <1>2, <1>3
  <2> QED
    BY <1>1, <2>1, SumAdd
<1> QED
  BY <1>3, <1>4, <1>5, <1>6, <1>7, <1>8

\* What the others engage, one hold set apart.
LEMMA EngageSans ==
  ASSUME NEW h \in [Appel -> Hold], IsFiniteSet(Ouvertures(h)), NEW a \in Appel, NEW p
  PROVE  /\ IsFiniteSet(OuvertesDe(h, p)) /\ EngageDe(h, p) \in Int
         /\ EngageDe(h, p) = Part(h, a, p)
              + SumFunctionOnSet([b \in Appel |-> h[b].reserve], OuvertesDe(h, p) \ {a})
<1> DEFINE S == OuvertesDe(h, p)
           f == [b \in Appel |-> h[b].reserve]
<1>1. IsFiniteSet(S) /\ IsFiniteSet(S \ {a})
  BY FS_Subset DEF OuvertesDe, Ouvertures
<1>2. \A b \in S : f[b] \in Int
  BY DEF OuvertesDe
<1>3. EngageDe(h, p) = SumFunctionOnSet(f, S)
  BY DEF EngageDe
<1>4. Part(h, a, p) = IF a \in S THEN f[a] ELSE 0
  BY DEF Part, OuvertesDe
<1> HIDE DEF S, f
<1>5. SumFunctionOnSet(f, S) \in Int
  BY <1>1, <1>2, SumType
<1>6. CASE a \in S
  BY <1>1, <1>2, <1>3, <1>4, <1>5, <1>6, SumRemove DEF S, f
<1>7. CASE a \notin S
  <2>1. S \ {a} = S
    BY <1>7
  <2> QED
    BY <1>1, <1>3, <1>4, <1>5, <1>7, <2>1 DEF S, f
<1> QED
  BY <1>6, <1>7

\* One hold changes: what is engaged changes by its part, for each payer.
LEMMA EngageUn ==
  ASSUME NEW h \in [Appel -> Hold], NEW k \in [Appel -> Hold], IsFiniteSet(Ouvertures(h)),
         NEW a \in Appel,
         \A b \in Appel \ {a} : /\ k[b].etat = h[b].etat /\ k[b].payer = h[b].payer
                                /\ k[b].reserve = h[b].reserve,
         NEW p
  PROVE  /\ IsFiniteSet(Ouvertures(k))
         /\ EngageDe(k, p) = EngageDe(h, p) - Part(h, a, p) + Part(k, a, p)
<1> DEFINE S == OuvertesDe(h, p) \ {a}
           f == [b \in Appel |-> h[b].reserve]
           g == [b \in Appel |-> k[b].reserve]
<1>1. IsFiniteSet(Ouvertures(k))
  <2>1. Ouvertures(k) \subseteq Ouvertures(h) \cup {a}
    BY DEF Ouvertures
  <2>2. IsFiniteSet(Ouvertures(h) \cup {a})
    BY FS_AddElement
  <2> QED
    BY <2>1, <2>2, FS_Subset
<1>2. OuvertesDe(k, p) \ {a} = S
  BY DEF OuvertesDe
<1>3. /\ IsFiniteSet(S) /\ EngageDe(h, p) = Part(h, a, p) + SumFunctionOnSet(f, S)
      /\ EngageDe(k, p) = Part(k, a, p) + SumFunctionOnSet(g, S)
  <2>1. IsFiniteSet(OuvertesDe(h, p))
        /\ EngageDe(h, p) = Part(h, a, p) + SumFunctionOnSet(f, S)
    BY EngageSans
  <2>2. EngageDe(k, p) = Part(k, a, p) + SumFunctionOnSet(g, OuvertesDe(k, p) \ {a})
    BY <1>1, EngageSans
  <2>3. IsFiniteSet(S)
    BY <2>1, FS_Subset
  <2> QED
    BY <1>2, <2>1, <2>2, <2>3
<1>4. \A b \in S : f[b] = g[b] /\ f[b] \in Int
  BY DEF OuvertesDe
<1> HIDE DEF S, f, g
<1>5. SumFunctionOnSet(g, S) = SumFunctionOnSet(f, S) /\ SumFunctionOnSet(f, S) \in Int
  BY <1>3, <1>4, SumSame, SumType
<1>6. Part(h, a, p) \in Int /\ Part(k, a, p) \in Int
  BY DEF Part
<1> QED
  BY <1>1, <1>3, <1>5, <1>6

\* The open holds of p become those of q.
LEMMA EngageReuni ==
  ASSUME NEW p \in Payeur, NEW q \in Payeur, p # q, IsFiniteSet(Ouvertures(hold)),
         \A a \in Appel :
           /\ hold[a].reserve \in Int
           /\ hold'[a].etat = hold[a].etat /\ hold'[a].reserve = hold[a].reserve
           /\ hold[a].etat = "open" /\ hold[a].payer = p => hold'[a].payer = q
           /\ ~ (hold[a].etat = "open" /\ hold[a].payer = p) => hold'[a].payer = hold[a].payer
  PROVE  /\ Ouvertures(hold') = Ouvertures(hold)
         /\ \A x : EngageDe(hold, x) \in Int
         /\ EngageDe(hold', p) = 0 /\ EngageDe(hold', q) = EngageDe(hold, q) + EngageDe(hold, p)
         /\ \A x : x \notin {p, q} => EngageDe(hold', x) = EngageDe(hold, x)
<1> DEFINE f == [a \in Appel |-> hold[a].reserve]
           g == [a \in Appel |-> hold'[a].reserve]
<1>1. Ouvertures(hold') = Ouvertures(hold)
  BY DEF Ouvertures
<1>2. /\ OuvertesDe(hold', p) = {}
      /\ OuvertesDe(hold', q) = OuvertesDe(hold, q) \cup OuvertesDe(hold, p)
      /\ \A x : x \notin {p, q} => OuvertesDe(hold', x) = OuvertesDe(hold, x)
      /\ OuvertesDe(hold, q) \cap OuvertesDe(hold, p) = {}
  BY DEF OuvertesDe
<1>3. g = f
  OBVIOUS
<1>4. \A y : /\ EngageDe(hold, y) = SumFunctionOnSet(f, OuvertesDe(hold, y))
             /\ EngageDe(hold', y) = SumFunctionOnSet(f, OuvertesDe(hold', y))
             /\ IsFiniteSet(OuvertesDe(hold, y))
  BY <1>3, FS_Subset DEF EngageDe, OuvertesDe, Ouvertures
<1>5. \A y : \A a \in OuvertesDe(hold, y) : f[a] \in Int
  BY DEF OuvertesDe
<1> HIDE DEF f, g
<1>6. EngageDe(hold', p) = 0
  BY <1>2, <1>4, SumEmpty
<1>7. EngageDe(hold', q) = EngageDe(hold, q) + EngageDe(hold, p)
  BY <1>2, <1>4, <1>5, SumUnion
<1>8. \A x : x \notin {p, q} => EngageDe(hold', x) = EngageDe(hold, x)
  BY <1>2, <1>4
<1>9. \A x : EngageDe(hold, x) \in Int
  BY <1>4, <1>5, SumType
<1> QED
  BY <1>1, <1>6, <1>7, <1>8, <1>9

\* A step that changes no movement, no balance, and nothing the ledger reads of a hold.
LEMMA LivreInchange ==
  ASSUME LivreJuste, UNCHANGED <<balance, holds_open, mouvements>>, hold' \in [Appel -> Hold],
         fusionnes \subseteq fusionnes',
         \A a \in Appel : /\ hold'[a].etat = hold[a].etat /\ hold'[a].payer = hold[a].payer
                          /\ hold'[a].reserve = hold[a].reserve
  PROVE  Livre' /\ Coherence'
<1>1. Ouvertures(hold') = Ouvertures(hold)
  BY DEF Ouvertures
<1>2. Livre'
  BY <1>1 DEF LivreJuste, Livre
<1>3. \A p : EngageDe(hold', p) = EngageDe(hold, p)
  <2> SUFFICES ASSUME NEW p PROVE EngageDe(hold', p) = EngageDe(hold, p)
    OBVIOUS
  <2>1. OuvertesDe(hold', p) = OuvertesDe(hold, p)
    BY DEF OuvertesDe
  <2>2. [a \in Appel |-> hold'[a].reserve] = [a \in Appel |-> hold[a].reserve]
    OBVIOUS
  <2> QED
    BY <2>1, <2>2 DEF EngageDe
<1> QED
  BY <1>2, <1>3, CoherenceDe, CoherenceDePrime DEF LivreJuste

\* The same of the ledger as a step leaves it.
LEMMA MouvementEcrit ==
  ASSUME TypeOK, Livre, NEW m \in Mouvement, m \notin mouvements,
         mouvements' = mouvements \cup {m}
  PROVE  /\ IsFiniteSet(mouvements')
         /\ \A p : /\ SoldeDe(mouvements, p) \in Int
                  /\ SoldeDe(mouvements', p) = IF m.payer = p
                                               THEN SoldeDe(mouvements, p) + m.amount
                                               ELSE SoldeDe(mouvements, p)
<1>1. IsFiniteSet(mouvements) /\ mouvements \subseteq Mouvement
  BY DEF TypeOK, Livre
<1>2. IsFiniteSet(mouvements')
  BY <1>1, FS_AddElement
<1> HIDE DEF Mouvement
<1>3. ASSUME NEW p
      PROVE  /\ SoldeDe(mouvements, p) \in Int
             /\ SoldeDe(mouvements', p) = IF m.payer = p
                                          THEN SoldeDe(mouvements, p) + m.amount
                                          ELSE SoldeDe(mouvements, p)
  BY <1>1, SoldeEcrit
<1> QED
  BY <1>2, <1>3

LEMMA HoldChange ==
  ASSUME TypeOK, Livre, hold' \in [Appel -> Hold], NEW a \in Appel,
         \A b \in Appel \ {a} : hold'[b] = hold[b]
  PROVE  /\ IsFiniteSet(Ouvertures(hold'))
         /\ \A p : EngageDe(hold', p)
                     = EngageDe(hold, p) - Part(hold, a, p) + Part(hold', a, p)
<1>1. hold \in [Appel -> Hold] /\ IsFiniteSet(Ouvertures(hold))
  BY DEF TypeOK, Livre
<1>2. \A b \in Appel \ {a} : /\ hold'[b].etat = hold[b].etat /\ hold'[b].payer = hold[b].payer
                             /\ hold'[b].reserve = hold[b].reserve
  OBVIOUS
<1> HIDE DEF Hold
<1>3. ASSUME NEW p
      PROVE  /\ IsFiniteSet(Ouvertures(hold'))
             /\ EngageDe(hold', p) = EngageDe(hold, p) - Part(hold, a, p) + Part(hold', a, p)
  BY <1>1, <1>2, EngageUn
<1> QED
  BY <1>3

\* One hold changes with what its payer has engaged; no movement is written.
LEMMA LivreHold ==
  ASSUME LivreJuste, UNCHANGED <<balance, mouvements, fusionnes>>, NEW a \in Appel,
         hold' \in [Appel -> Hold], \A b \in Appel \ {a} : hold'[b] = hold[b],
         hold[a].etat \notin Ferme,
         \A p \in Payeur : holds_open'[p] = holds_open[p] - Part(hold, a, p) + Part(hold', a, p)
  PROVE  Livre' /\ Coherence'
<1>1. IsFiniteSet(Ouvertures(hold')) /\ \A p : EngageDe(hold', p)
        = EngageDe(hold, p) - Part(hold, a, p) + Part(hold', a, p)
  BY HoldChange DEF LivreJuste
<1>2. Livre'
  BY <1>1 DEF LivreJuste, Livre
<1> QED
  BY <1>1, <1>2, CoherenceDe, CoherenceDePrime DEF LivreJuste

LEMMA LivreRegle ==
  ASSUME LivreJuste, NEW a \in Appel, NEW n \in Nat, NEW e \in Ferme, regler(a, n, e),
         UNCHANGED fusionnes
  PROVE  Livre' /\ Coherence'
<1>0. TypeOK /\ hold \in [Appel -> Hold] /\ hold[a].payer \in Payeur /\ hold[a].reserve \in Nat
  BY DEF LivreJuste, TypeOK
<1>1. CASE hold[a].etat # "open"
  BY <1>0, <1>1, LivreInchange DEF regler
<1>2. CASE hold[a].etat = "open"
  <2> DEFINE m == [kind |-> "settle", payer |-> hold[a].payer, amount |-> -n,
                   held |-> -hold[a].reserve, cle |-> a]
  <2>1. /\ hold' = [hold EXCEPT ![a].etat = e]
        /\ balance' = [balance EXCEPT ![hold[a].payer] = @ - n]
        /\ holds_open' = [holds_open EXCEPT ![hold[a].payer] = @ - hold[a].reserve]
        /\ mouvements' = mouvements \cup {m}
    BY <1>2 DEF regler
  <2>2. /\ hold' \in [Appel -> Hold] /\ \A b \in Appel \ {a} : hold'[b] = hold[b]
        /\ hold'[a].etat = e
    BY <1>0, <2>1, EtatChange
  <2>3. m \in Mouvement /\ m \notin mouvements /\ m.kind = "settle" /\ m.cle = a
        /\ m.payer = hold[a].payer /\ m.amount = -n
    BY <1>0, <1>2 DEF LivreJuste, Livre
  <2> HIDE DEF m
  <2>4. IsFiniteSet(mouvements') /\ \A p : /\ SoldeDe(mouvements, p) \in Int
          /\ SoldeDe(mouvements', p)
               = IF m.payer = p THEN SoldeDe(mouvements, p) + m.amount ELSE SoldeDe(mouvements, p)
    BY <2>1, <2>3, MouvementEcrit DEF LivreJuste
  <2>5. IsFiniteSet(Ouvertures(hold')) /\ \A p : EngageDe(hold', p)
          = EngageDe(hold, p) - Part(hold, a, p) + Part(hold', a, p)
    BY <2>2, HoldChange DEF LivreJuste
  <2>6. Livre'
    BY <2>1, <2>2, <2>3, <2>4, <2>5 DEF LivreJuste, Livre
  <2>7. ASSUME NEW p \in Payeur
        PROVE  balance'[p] = SoldeDe(mouvements', p) /\ holds_open'[p] = EngageDe(hold', p)
    <3>1. balance[p] = SoldeDe(mouvements, p) /\ holds_open[p] = EngageDe(hold, p)
      BY CoherenceDe DEF LivreJuste
    <3>2. Part(hold', a, p) = 0
          /\ Part(hold, a, p) = IF hold[a].payer = p THEN hold[a].reserve ELSE 0
      BY <1>2, <2>2 DEF Part
    <3>3. balance[p] \in Int /\ holds_open[p] \in Int
      BY <1>0 DEF TypeOK
    <3>4. balance'[p] = IF hold[a].payer = p THEN balance[p] - n ELSE balance[p]
      BY <1>0, <2>1 DEF TypeOK
    <3>5. holds_open'[p] = IF hold[a].payer = p THEN holds_open[p] - hold[a].reserve
                           ELSE holds_open[p]
      BY <1>0, <2>1 DEF TypeOK
    <3>6. balance'[p] = SoldeDe(mouvements', p)
      BY <2>3, <2>4, <3>1, <3>3, <3>4
    <3>7. holds_open'[p] = EngageDe(hold', p)
      BY <1>0, <2>5, <3>1, <3>2, <3>3, <3>5
    <3> QED
      BY <3>6, <3>7
  <2> QED
    BY <2>6, <2>7, CoherenceDePrime
<1> QED
  BY <1>1, <1>2

LEMMA LivreLibere ==
  ASSUME LivreJuste, NEW a \in Appel, liberer(a), UNCHANGED fusionnes
  PROVE  Livre' /\ Coherence'
<1>0. TypeOK /\ hold \in [Appel -> Hold] /\ hold[a].payer \in Payeur /\ hold[a].reserve \in Nat
  BY DEF LivreJuste, TypeOK
<1>1. CASE hold[a].etat # "open"
  BY <1>0, <1>1, LivreInchange DEF liberer
<1>2. CASE hold[a].etat = "open"
  <2>1. /\ hold' = [hold EXCEPT ![a].etat = "released"]
        /\ holds_open' = [holds_open EXCEPT ![hold[a].payer] = @ - hold[a].reserve]
        /\ UNCHANGED <<balance, mouvements, fusionnes>>
    BY <1>2 DEF liberer
  <2>2. /\ hold' \in [Appel -> Hold] /\ \A b \in Appel \ {a} : hold'[b] = hold[b]
        /\ hold'[a].etat = "released"
    BY <1>0, <2>1, EtatChange
  <2>3. ASSUME NEW p \in Payeur
        PROVE  holds_open'[p] = holds_open[p] - Part(hold, a, p) + Part(hold', a, p)
    BY <1>0, <1>2, <2>1, <2>2 DEF Part, TypeOK
  <2> QED
    BY <1>2, <2>1, <2>2, <2>3, LivreHold
<1> QED
  BY <1>1, <1>2

LEMMA LivrePose ==
  ASSUME LivreJuste, NEW a \in Appel, NEW n \in Nat, Poser(a, n), UNCHANGED fusionnes
  PROVE  Livre' /\ Coherence'
<1>0. TypeOK /\ hold \in [Appel -> Hold] /\ payeurDe[a] \in Payeur
  BY HoldsAssumption DEF LivreJuste, TypeOK
<1> DEFINE h == [etat |-> "open", payer |-> payeurDe[a], reserve |-> n,
                 echue |-> FALSE, job |-> FALSE]
<1>1. /\ hold' \in [Appel -> Hold] /\ \A b \in Appel \ {a} : hold'[b] = hold[b]
      /\ hold[a].etat = "absent"
  BY <1>0, PoserType
<1>2. hold'[a].etat = "open" /\ hold'[a].payer = payeurDe[a] /\ hold'[a].reserve = n
  BY <1>0 DEF Poser
<1>3. ASSUME NEW p \in Payeur
      PROVE  holds_open'[p] = holds_open[p] - Part(hold, a, p) + Part(hold', a, p)
  BY <1>0, <1>1, <1>2 DEF Poser, Part, TypeOK
<1>4. UNCHANGED <<balance, mouvements, fusionnes>>
  BY DEF Poser
<1> QED
  BY <1>1, <1>3, <1>4, LivreHold

LEMMA LivreVerse ==
  ASSUME LivreJuste, NEW k \in Cle, verser(k)
  PROVE  Livre' /\ Coherence'
<1> DEFINE m == [kind |-> "deposit", payer |-> versA[k], amount |-> montantDe[k],
                 held |-> 0, cle |-> k]
<1>0. TypeOK /\ versA[k] \in Payeur /\ montantDe[k] \in Int
  BY HoldsAssumption DEF LivreJuste
<1>1. /\ m \in Mouvement /\ m \notin mouvements /\ mouvements' = mouvements \cup {m}
      /\ m.kind = "deposit" /\ m.payer = versA[k] /\ m.amount = montantDe[k]
      /\ balance' = [balance EXCEPT ![versA[k]] = @ + montantDe[k]]
      /\ UNCHANGED <<holds_open, hold, fusionnes>>
  BY <1>0 DEF verser
<1> HIDE DEF m
<1>2. IsFiniteSet(mouvements') /\ \A p : /\ SoldeDe(mouvements, p) \in Int
        /\ SoldeDe(mouvements', p)
             = IF m.payer = p THEN SoldeDe(mouvements, p) + m.amount ELSE SoldeDe(mouvements, p)
  BY <1>1, MouvementEcrit DEF LivreJuste
<1>3. Livre'
  BY <1>1, <1>2 DEF LivreJuste, Livre
<1>4. ASSUME NEW p \in Payeur
      PROVE  balance'[p] = SoldeDe(mouvements', p) /\ holds_open'[p] = EngageDe(hold', p)
  <2>1. balance[p] = SoldeDe(mouvements, p) /\ holds_open[p] = EngageDe(hold, p)
    BY CoherenceDe DEF LivreJuste
  <2>2. balance'[p] = IF versA[k] = p THEN balance[p] + montantDe[k] ELSE balance[p]
    BY <1>0, <1>1 DEF TypeOK
  <2> QED
    BY <1>1, <1>2, <2>1, <2>2
<1> QED
  BY <1>3, <1>4, CoherenceDePrime

LEMMA LivreReunit ==
  ASSUME LivreJuste, NEW p \in Payeur, NEW q \in Payeur, suivre_le_solde(p, q)
  PROVE  Livre' /\ Coherence'
<1> DEFINE m == [kind |-> "transfer", payer |-> p, amount |-> -balance[p],
                 held |-> -holds_open[p], cle |-> <<p, q>>]
           n == [kind |-> "transfer", payer |-> q, amount |-> balance[p],
                 held |-> holds_open[p], cle |-> <<p, q>>]
           M == mouvements \cup {m}
<1>0. /\ TypeOK /\ hold \in [Appel -> Hold] /\ p # q /\ <<p, q>> \in fusions \ fusionnes
      /\ fusionnes' = fusionnes \cup {<<p, q>>}
      /\ balance[p] \in Int /\ holds_open[p] \in Int
  BY HoldsAssumption DEF suivre_le_solde, LivreJuste, TypeOK
<1>1. CASE UNCHANGED comptes
  BY <1>0, <1>1, LivreInchange
<1>2. CASE ~(balance[p] = 0 /\ holds_open[p] = 0)
  <2>1. /\ balance' = [balance EXCEPT ![p] = 0, ![q] = @ + balance[p]]
        /\ holds_open' = [holds_open EXCEPT ![p] = 0, ![q] = @ + holds_open[p]]
        /\ hold' = [a \in Appel |->
                      IF hold[a].etat = "open" /\ hold[a].payer = p
                      THEN [hold[a] EXCEPT !.payer = q] ELSE hold[a]]
        /\ mouvements' = M \cup {n}
    BY <1>2 DEF suivre_le_solde
  <2>2. m \in Mouvement /\ n \in Mouvement /\ m # n
    BY <1>0
  <2>3. /\ m.kind = "transfer" /\ m.cle = <<p, q>> /\ m.payer = p /\ m.amount = -balance[p]
        /\ n.kind = "transfer" /\ n.cle = <<p, q>> /\ n.payer = q /\ n.amount = balance[p]
    OBVIOUS
  <2>4. m \notin mouvements /\ n \notin mouvements
    BY <1>0, <2>3 DEF LivreJuste, Livre
  <2> HIDE DEF m, n
  <2>5. n \notin M /\ M \subseteq Mouvement /\ IsFiniteSet(M) /\ IsFiniteSet(mouvements')
        /\ IsFiniteSet(mouvements) /\ mouvements \subseteq Mouvement
    BY <2>1, <2>2, <2>4, FS_AddElement DEF LivreJuste, Livre, TypeOK
  <2>6. ASSUME NEW x
        PROVE  /\ SoldeDe(mouvements, x) \in Int
               /\ SoldeDe(mouvements', x)
                    = IF x = p THEN SoldeDe(mouvements, x) - balance[p]
                      ELSE IF x = q THEN SoldeDe(mouvements, x) + balance[p]
                           ELSE SoldeDe(mouvements, x)
    <3> HIDE DEF M, Mouvement
    <3>1. SoldeDe(M, x) \in Int /\ SoldeDe(M \cup {n}, x)
            = IF n.payer = x THEN SoldeDe(M, x) + n.amount ELSE SoldeDe(M, x)
      BY <2>2, <2>5, SoldeEcrit
    <3>2. SoldeDe(mouvements, x) \in Int /\ SoldeDe(mouvements \cup {m}, x)
            = IF m.payer = x THEN SoldeDe(mouvements, x) + m.amount
              ELSE SoldeDe(mouvements, x)
      BY <2>2, <2>4, <2>5, SoldeEcrit
    <3> QED
      BY <1>0, <2>1, <2>3, <3>1, <3>2 DEF M
  <2>7. /\ Ouvertures(hold') = Ouvertures(hold)
        /\ \A x : EngageDe(hold, x) \in Int
        /\ EngageDe(hold', p) = 0 /\ EngageDe(hold', q) = EngageDe(hold, q) + EngageDe(hold, p)
        /\ \A x : x \notin {p, q} => EngageDe(hold', x) = EngageDe(hold, x)
    <3>1. IsFiniteSet(Ouvertures(hold)) /\ p # q
      BY <1>0 DEF LivreJuste, Livre
    <3>2. \A a \in Appel :
            /\ hold[a].reserve \in Int
            /\ hold'[a].etat = hold[a].etat /\ hold'[a].reserve = hold[a].reserve
            /\ hold[a].etat = "open" /\ hold[a].payer = p => hold'[a].payer = q
            /\ ~ (hold[a].etat = "open" /\ hold[a].payer = p) => hold'[a].payer = hold[a].payer
      <4> TAKE a \in Appel
      <4>1. hold[a] \in Hold
        BY <1>0
      <4> QED
        BY <2>1, <4>1
    <3> QED
      BY ONLY <3>1, <3>2, EngageReuni
  <2>8. Livre'
    <3>1. \A a \in Appel : hold'[a].etat = hold[a].etat
      <4> TAKE a \in Appel
      <4>1. hold[a] \in Hold
        BY <1>0
      <4> QED
        BY <2>1, <4>1
    <3>2. IsFiniteSet(Ouvertures(hold'))
      BY <2>7 DEF LivreJuste, Livre
    <3>3. \A w \in mouvements' : /\ w.kind = "settle" => w.cle \in Appel /\ hold'[w.cle].etat \in Ferme
                                 /\ w.kind = "transfer" => w.cle \in fusionnes'
      BY <1>0, <2>1, <2>3, <3>1 DEF LivreJuste, Livre
    <3> QED
      BY <2>5, <3>2, <3>3 DEF Livre
  <2>9. ASSUME NEW x \in Payeur
        PROVE  balance'[x] = SoldeDe(mouvements', x) /\ holds_open'[x] = EngageDe(hold', x)
    <3>1. /\ balance[x] = SoldeDe(mouvements, x) /\ holds_open[x] = EngageDe(hold, x)
          /\ balance[p] = SoldeDe(mouvements, p) /\ holds_open[p] = EngageDe(hold, p)
          /\ holds_open[q] = EngageDe(hold, q)
      BY CoherenceDe DEF LivreJuste
    <3>2. /\ balance'[x] = IF x = p THEN 0 ELSE IF x = q THEN balance[x] + balance[p]
                                                ELSE balance[x]
          /\ holds_open'[x] = IF x = p THEN 0
                              ELSE IF x = q THEN holds_open[q] + holds_open[p]
                                   ELSE holds_open[x]
      BY <1>0, <2>1 DEF TypeOK
    <3>3. balance'[x] = SoldeDe(mouvements', x)
      BY <1>0, <2>6, <3>1, <3>2
    <3>4. holds_open'[x] = EngageDe(hold', x)
      BY <2>7, <3>1, <3>2
    <3> QED
      BY <3>3, <3>4
  <2> QED
    BY <2>8, <2>9, CoherenceDePrime
<1> QED
  BY <1>1, <1>2 DEF suivre_le_solde

LEMMA LivreStep ==
  ASSUME LivreJuste, [Next]_vars
  PROVE  Livre' /\ Coherence'
<1>0. TypeOK /\ hold \in [Appel -> Hold]
  BY DEF LivreJuste, TypeOK
<1>m. \A a \in Appel : reel[a] \in Nat /\ reserve[a] \in Nat /\ hold[a].reserve \in Nat
  BY <1>0, HoldsAssumption
<1>00. UNCHANGED comptes /\ UNCHANGED fusionnes => Livre' /\ Coherence'
  BY <1>0, LivreInchange
<1>1. ASSUME NEW k \in Cle, verser(k) PROVE Livre' /\ Coherence'
  BY <1>1, LivreVerse
<1>2. ASSUME NEW a \in Appel, Bord(a) PROVE Livre' /\ Coherence'
  <2>1. CASE reserver(a) \/ reserver_tour(a)
    BY <1>00, <1>m, <2>1, LivrePose DEF reserver, reserver_tour
  <2>2. CASE envoi(a) \/ RapportPerdu(a)
    BY <1>00, <2>2 DEF envoi, RapportPerdu
  <2>3. CASE solder_reussite(a)
    <3>1. UNCHANGED fusionnes
      BY <2>3 DEF solder_reussite
    <3>2. CASE attendre_la_releve(a) /\ hold[a].etat = "open"
      <4>1. hold' = [hold EXCEPT ![a] = [hold[a] EXCEPT !.job = TRUE, !.echue = FALSE]]
            /\ UNCHANGED <<balance, holds_open, mouvements>>
        BY <3>2 DEF attendre_la_releve
      <4>2. hold[a] \in Hold /\ [hold[a] EXCEPT !.job = TRUE, !.echue = FALSE] \in Hold
        BY ZenonT(40), <1>0
      <4>3. hold' \in [Appel -> Hold]
        BY <1>0, <4>1, <4>2
      <4>4. \A b \in Appel : hold'[b].etat = hold[b].etat /\ hold'[b].payer = hold[b].payer
                             /\ hold'[b].reserve = hold[b].reserve
        BY <1>0, <4>1
      <4> QED
        BY <3>1, <4>1, <4>3, <4>4, LivreInchange
    <3>3. CASE attendre_la_releve(a) /\ hold[a].etat # "open"
      BY <1>00, <3>1, <3>3 DEF attendre_la_releve
    <3>4. CASE \E m \in {reel[a], reserve[a]} : regler(a, m, "settled")
      BY <1>m, <3>1, <3>4, LivreRegle
    <3> QED
      BY <2>3, <3>2, <3>3, <3>4 DEF solder_reussite
  <2>4. CASE solder_echec(a) \/ FinDuTour(a)
    BY <1>00, <1>m, <2>4, LivreRegle, LivreLibere DEF solder_echec, FinDuTour
  <2> QED
    BY <1>2, <2>1, <2>2, <2>3, <2>4 DEF Bord
<1>3. ASSUME NEW a \in Appel, Tomber(a) \/ TravailFinit(a) PROVE Livre' /\ Coherence'
  BY <1>00, <1>3 DEF Tomber, TravailFinit
<1>4. ASSUME NEW a \in Appel, Passe(a) PROVE Livre' /\ Coherence'
  <2>1. hold' = [hold EXCEPT ![a] = [hold[a] EXCEPT !.echue = TRUE]]
        /\ UNCHANGED <<balance, holds_open, mouvements, fusionnes>>
    BY <1>4 DEF Passe
  <2>2. hold[a] \in Hold /\ [hold[a] EXCEPT !.echue = TRUE] \in Hold
    BY ZenonT(40), <1>0
  <2>3. hold' \in [Appel -> Hold]
    BY <1>0, <2>1, <2>2
  <2>4. \A b \in Appel : hold'[b].etat = hold[b].etat /\ hold'[b].payer = hold[b].payer
                         /\ hold'[b].reserve = hold[b].reserve
    BY <1>0, <2>1
  <2> QED
    BY <2>1, <2>3, <2>4, LivreInchange
<1>5. ASSUME NEW b \in Boucle, NEW a \in Appel, EchoirRegle(b, a) PROVE Livre' /\ Coherence'
  BY <1>m, <1>5, LivreRegle DEF EchoirRegle
<1>6. ASSUME NEW v \in Releveur, Relever(v) PROVE Livre' /\ Coherence'
  <2>1. releve[v] \in Appel /\ UNCHANGED fusionnes
    BY <1>0, <1>6 DEF Relever, TypeOK
  <2> QED
    BY <1>00, <1>m, <1>6, <2>1, LivreRegle, LivreLibere DEF Relever
<1>7. ASSUME NEW r \in Rapporteur, RapportReserve(r) PROVE Livre' /\ Coherence'
  <2>1. rapport[r] \in Appel /\ UNCHANGED fusionnes
    BY <1>0, <1>7, HoldsAssumption DEF RapportReserve, TypeOK
  <2> QED
    BY <1>00, <1>m, <1>7, <2>1, LivrePose DEF RapportReserve
<1>8. ASSUME NEW r \in Rapporteur, regler_tour(r) PROVE Livre' /\ Coherence'
  <2>1. rapport[r] \in Appel /\ UNCHANGED fusionnes
    BY <1>0, <1>8, HoldsAssumption DEF regler_tour, TypeOK
  <2> QED
    BY <1>m, <1>8, <2>1, LivreRegle DEF regler_tour
<1>9. ASSUME NEW a \in Appel, clore_les_tours(a) PROVE Livre' /\ Coherence'
  BY <1>m, <1>9, LivreRegle DEF clore_les_tours
<1>10. ASSUME NEW p \in Payeur, NEW q \in Payeur, suivre_le_solde(p, q)
       PROVE  Livre' /\ Coherence'
  BY <1>10, LivreReunit
<1>11. ASSUME \/ UNCHANGED vars \/ CloreLit
              \/ \E b \in Boucle : EchoirListe(b) \/ EchoirTombe(b)
              \/ \E v \in Releveur, b \in Appel : reservation_de_la_releve(v, b)
              \/ \E r \in Rapporteur, b \in Appel : RapportLit(r, b)
       PROVE  Livre' /\ Coherence'
  <2>1. UNCHANGED comptes /\ UNCHANGED fusionnes
    BY <1>11 DEF vars, CloreLit, EchoirListe, EchoirTombe, reservation_de_la_releve, RapportLit
  <2> QED
    BY <1>00, <2>1
<1> QED
  BY <1>1, <1>2, <1>3, <1>4, <1>5, <1>6, <1>7, <1>8, <1>9, <1>10, <1>11 DEF Next

\* The counters are what the two tables add up to: whatever is retried, expires, is
\* reported twice or merges, each deposit and each closing counts once.
THEOREM LedgerAddsUp == Spec => []Coherence
<1>1. Init => Livre /\ Coherence
  <2> SUFFICES ASSUME Init PROVE Livre /\ Coherence
    OBVIOUS
  <2>1. mouvements = {} /\ Ouvertures(hold) = {}
    BY DEF Init, Ouvertures
  <2>2. Livre
    BY <2>1, FS_EmptySet DEF Livre
  <2>3. ASSUME NEW p \in Payeur
        PROVE  balance[p] = SoldeDe(mouvements, p) /\ holds_open[p] = EngageDe(hold, p)
    <3>1. balance[p] = 0 /\ holds_open[p] = 0
      BY DEF Init
    <3>2. {m \in mouvements : m.payer = p} = {} /\ OuvertesDe(hold, p) = {}
      BY <2>1 DEF OuvertesDe, Ouvertures
    <3> QED
      BY <3>1, <3>2, SumEmpty DEF SoldeDe, EngageDe
  <2> QED
    BY <2>2, <2>3, CoherenceDe
<1>2. TypeOK /\ Livre /\ Coherence /\ [Next]_vars => Livre' /\ Coherence'
  BY LivreStep DEF LivreJuste
<1> QED
  BY <1>1, <1>2, TypeCorrect, PTL DEF Spec
=============================================================================
