---------------------------- MODULE RowQueueProofs ----------------------------
(***************************************************************************)
(* Proofs about RowQueue, for any table, sessions, runs, labels, passes    *)
(* and ceiling.                                                            *)
(*                                                                         *)
(* What a transaction read under its lock still holds when it writes:      *)
(* Verrous says who holds what, Abandons and Ecritures what was read.      *)
(* A row written by its holder has its count of takes at zero              *)
(* (EcritRemetAZero), which is why a release makes it move on.             *)
(***************************************************************************)
EXTENDS RowQueue, TLAPS, FiniteSetTheorems

USE RunsAssumption, PassesAssumption, PlafondAssumption

EnVerrou(p, r) == appel[p].etape \in {"abandon", "ecrit"} /\ r \in appel[p].lignes

Verrous == \A p \in Appelants, r \in Lignes : verrou[r] = p <=> EnVerrou(p, r)

\* What an abandonment has read under its lock.
AuBout(r) == Existe(r) /\ Libre(r) /\ ~rangee[r].abandon_reason /\ rangee[r].claims >= PLAFOND
Abandons == \A p \in Appelants, r \in Lignes :
  appel[p].etape = "abandon" /\ r \in appel[p].lignes => AuBout(r)

\* What a write has read under its lock.
Ecritures == \A p \in Appelants, r \in Lignes :
  appel[p].etape = "ecrit" /\ r \in appel[p].lignes => Existe(r) /\ _lease_guard(p, r)

\* The rows that were at the ceiling when a reservation began have left the queue, or are
\* being abandoned.
Sortie(r) == rangee[r].abandon_reason \/ ~Existe(r)
Dechues == \A p \in Appelants, r \in Lignes :
  /\ appel[p].etape = "abandon" /\ r \in appel[p].usees => Sortie(r) \/ r \in appel[p].lignes
  /\ appel[p].etape = "pioche" /\ r \in appel[p].usees => Sortie(r)
  /\ appel[p].etape = "juge" => r \notin appel[p].usees

\* A row written by its holder has its count of takes at zero.
EcritRemetAZero == \A r \in Lignes : "titulaire" \in depuis[r] => rangee[r].claims = 0

\* The inductive invariant.
IInv ==
  /\ TypeOK /\ Verrous /\ Abandons /\ Ecritures /\ Dechues /\ EcritRemetAZero
  /\ EcritureDuTitulaire /\ RunDuPreneur /\ AbandonMerite /\ PasseNonRefaite

-----------------------------------------------------------------------------
(* The rows. *)

LEMMA LigneTypee ==
  ASSUME TypeOK, NEW r \in Lignes
  PROVE  /\ rangee[r] \in Row
         /\ rangee[r].claimed_by \in Libelles \cup {Personne}
         /\ rangee[r].bail \in {"libre", "actif", "echu"}
         /\ rangee[r].claimed_run \in Runs \cup {Aucun}
         /\ rangee[r].claims \in 0..MaxClaims /\ rangee[r].claims \in Nat
         /\ rangee[r].abandon_reason \in BOOLEAN
         /\ rangee[r].etat \in Etats \cup {Supprimee}
         /\ rangee[r].revision \in BOOLEAN
<1>1. rangee[r] \in Row
  BY DEF TypeOK
<1> QED
  BY <1>1 DEF Row

\* A take keeps the type of the row and the ranks in their range.
LEMMA UneTenue ==
  ASSUME TypeOK, NEW p \in Appelants, NEW r \in Lignes, Tenir(p, r)
  PROVE  /\ rangee' \in [Lignes -> Row]
         /\ rang' \in [Lignes -> 1..Cardinality(Lignes)]
         /\ depuis' \in [Lignes -> SUBSET {"titulaire", "autre"}]
         /\ preneur' \in [Lignes -> Runs \cup {Aucun}]
         /\ rangee'[r].claimed_by = libelleDe[p] /\ rangee'[r].claimed_by # Personne
         /\ rangee'[r].bail = "actif" /\ rangee'[r].claimed_run = runDe[p]
         /\ rangee'[r].abandon_reason = rangee[r].abandon_reason
         /\ rangee'[r].claims >= rangee[r].claims
         /\ rangee'[r].etat = rangee[r].etat
         /\ \A s \in Lignes \ {r} : rangee'[s] = rangee[s]
<1>1. rangee[r] \in Row /\ rangee[r].claims \in 0..MaxClaims
  BY LigneTypee
<1>2. libelleDe[p] \in Libelles /\ runDe[p] \in Runs \cup {Aucun}
  OBVIOUS
<1> DEFINE c == IF rangee[r].claims < MaxClaims THEN rangee[r].claims + 1 ELSE rangee[r].claims
           w == [rangee[r] EXCEPT !.claimed_by = libelleDe[p], !.bail = "actif",
                   !.claimed_run = runDe[p], !.claims = c, !.revision = FALSE]
<1>3. c \in 0..MaxClaims /\ c >= rangee[r].claims
  BY <1>1
<1> HIDE DEF c
<1>4. /\ w \in Row /\ w.claimed_by = libelleDe[p] /\ w.bail = "actif"
      /\ w.claimed_run = runDe[p] /\ w.claims = c /\ w.etat = rangee[r].etat
      /\ w.abandon_reason = rangee[r].abandon_reason
  BY <1>1, <1>2, <1>3 DEF Row
<1>5. rangee' = [rangee EXCEPT ![r] = w]
  BY DEF Tenir, TypeOK, c
<1> HIDE DEF w
<1>6. Cardinality(Lignes) \in Nat
  BY FS_CardinalityType
<1>7. rang' \in [Lignes -> 1..Cardinality(Lignes)]
  <2> SUFFICES ASSUME NEW s \in Lignes PROVE rang'[s] \in 1..Cardinality(Lignes)
    BY DEF Tenir, Dernier
  <2>1. rang[s] \in 1..Cardinality(Lignes) /\ rang[r] \in 1..Cardinality(Lignes)
    BY DEF TypeOK
  <2> QED
    BY <1>6, <2>1 DEF Tenir, Dernier
<1>8. libelleDe[p] # Personne
  BY <1>2
<1>9. /\ rangee \in [Lignes -> Row] /\ depuis \in [Lignes -> SUBSET {"titulaire", "autre"}]
      /\ preneur \in [Lignes -> Runs \cup {Aucun}]
  BY DEF TypeOK
<1>10. rangee' \in [Lignes -> Row] /\ rangee'[r] = w
       /\ \A s \in Lignes \ {r} : rangee'[s] = rangee[s]
  BY <1>4, <1>5, <1>9
<1>11. /\ depuis' \in [Lignes -> SUBSET {"titulaire", "autre"}]
       /\ preneur' \in [Lignes -> Runs \cup {Aucun}]
  BY <1>2, <1>9 DEF Tenir
<1> QED
  BY <1>3, <1>4, <1>7, <1>8, <1>10, <1>11
-----------------------------------------------------------------------------
(* The locks. *)

\* A call that ends, or goes on without a lock, gives back those it had.
LEMMA SansVerrous ==
  ASSUME IInv, NEW p \in Appelants, NEW a \in Appel,
         a.etape \notin {"abandon", "ecrit"}, a.etape = "juge" => a.usees = {},
         a.etape = "pioche" => \A r \in a.usees : Sortie(r),
         appel' = [appel EXCEPT ![p] = a],
         verrou' = Deverrouiller(p), UNCHANGED <<rangee, rang, historique>>
  PROVE  IInv'
<1>1. TypeOK /\ Personne \notin Appelants
  BY DEF IInv
<1>2. TypeOK'
  BY <1>1 DEF TypeOK, Deverrouiller, historique
<1>3. appel'[p] = a /\ \A q \in Appelants \ {p} : appel'[q] = appel[q]
  BY <1>1 DEF TypeOK
<1>4. \A r \in Lignes : verrou'[r] = IF verrou[r] = p THEN Personne ELSE verrou[r]
  BY DEF Deverrouiller
<1>5. Verrous'
  BY <1>1, <1>3, <1>4 DEF IInv, Verrous, EnVerrou
<1>6. Abandons' /\ Ecritures'
  BY <1>3 DEF IInv, Abandons, Ecritures, AuBout, Existe, Libre, _lease_guard, Titulaire
<1>7. Dechues'
  BY <1>3 DEF IInv, Dechues, Sortie, Existe
<1>8. /\ EcritRemetAZero' /\ EcritureDuTitulaire' /\ RunDuPreneur' /\ AbandonMerite'
      /\ PasseNonRefaite'
  BY DEF IInv, historique, EcritRemetAZero, EcritureDuTitulaire, RunDuPreneur, AbandonMerite,
         PasseNonRefaite
<1> QED
  BY <1>2, <1>5, <1>6, <1>7, <1>8 DEF IInv

\* A session at rest, or picking, holds no lock.
LEMMA AucunVerrou ==
  ASSUME IInv, NEW p \in Appelants, appel[p].etape \notin {"abandon", "ecrit"}
  PROVE  verrou = Deverrouiller(p)
<1>1. \A r \in Lignes : verrou[r] # p
  BY DEF IInv, Verrous, EnVerrou
<1> QED
  BY <1>1 DEF IInv, TypeOK, Deverrouiller

LEMMA ReposTypes == Repos \in Appel /\ Repos.etape = "repos" /\ Repos.usees = {}
                    /\ Repos.lignes = {} /\ Repos.reserve = FALSE
BY DEF Repos, Appel, Etapes

\* A call that locks the rows it has read: nobody had them, and what it read of them is what
\* its next transaction relies on.
LEMMA PrendVerrous ==
  ASSUME IInv, NEW p \in Appelants, NEW a \in Appel,
         appel[p].etape \notin {"abandon", "ecrit"},
         a.etape \in {"abandon", "ecrit"}, Deverrouillees(a.lignes),
         a.etape = "abandon" => \A r \in a.lignes : AuBout(r),
         a.etape = "abandon" => \A r \in a.usees : Sortie(r) \/ r \in a.lignes,
         a.etape = "ecrit" => \A r \in a.lignes : Existe(r) /\ _lease_guard(p, r),
         appel' = [appel EXCEPT ![p] = a], verrou' = Verrouiller(p, a.lignes),
         UNCHANGED <<rangee, rang, depuis, preneur, passee>>, intrus' \in 0..MaxIntrus
  PROVE  IInv'
<1>1. TypeOK /\ Personne \notin Appelants /\ a.lignes \subseteq Lignes
  BY DEF IInv, Appel
<1>2. TypeOK'
  BY <1>1 DEF TypeOK, Verrouiller
<1>3. appel'[p] = a /\ \A q \in Appelants \ {p} : appel'[q] = appel[q]
  BY <1>1 DEF TypeOK
<1>4. \A r \in Lignes : verrou'[r] = IF r \in a.lignes THEN p ELSE verrou[r]
  BY DEF Verrouiller
<1>5. Verrous'
  <2> SUFFICES ASSUME NEW q \in Appelants, NEW r \in Lignes
               PROVE  verrou'[r] = q <=> EnVerrou(q, r)'
    BY DEF Verrous
  <2>1. /\ verrou[r] = q <=> EnVerrou(q, r)
        /\ verrou[r] # p /\ (r \in a.lignes => verrou[r] = Personne)
    BY DEF IInv, Verrous, EnVerrou, Deverrouillees
  <2>2. CASE q = p
    BY <1>3, <1>4, <2>1, <2>2 DEF EnVerrou
  <2>3. CASE q # p
    BY <1>1, <1>3, <1>4, <2>1, <2>3 DEF EnVerrou
  <2> QED
    BY <2>2, <2>3
<1>6. Abandons' /\ Ecritures'
  BY <1>3 DEF IInv, Abandons, Ecritures, AuBout, Existe, Libre, _lease_guard, Titulaire
<1>7. Dechues'
  BY <1>3 DEF IInv, Dechues, Sortie, Existe
<1>8. /\ EcritRemetAZero' /\ EcritureDuTitulaire' /\ RunDuPreneur' /\ AbandonMerite'
      /\ PasseNonRefaite'
  BY DEF IInv, EcritRemetAZero, EcritureDuTitulaire, RunDuPreneur, AbandonMerite,
         PasseNonRefaite
<1> QED
  BY <1>2, <1>5, <1>6, <1>7, <1>8 DEF IInv

-----------------------------------------------------------------------------
(* The calls that change no row. *)

LEMMA PasCouper ==
  ASSUME IInv, NEW p \in Appelants, Couper(p)
  PROVE  IInv'
<1>1. appel' = [appel EXCEPT ![p] = Repos]
  BY DEF Couper
<1> QED
  BY <1>1, ReposTypes, SansVerrous DEF Couper

LEMMA PasRefuser ==
  ASSUME IInv, NEW p \in Appelants, Refuser(p)
  PROVE  IInv'
BY ReposTypes, SansVerrous DEF Refuser

LEMMA PasRienAServir ==
  ASSUME IInv, NEW p \in Appelants, RienAServir(p)
  PROVE  IInv'
<1>1. verrou' = Deverrouiller(p)
  BY AucunVerrou DEF RienAServir
<1> QED
  BY <1>1, ReposTypes, SansVerrous DEF RienAServir

LEMMA PasReserver ==
  ASSUME IInv, NEW p \in Appelants, Reserver(p)
  PROVE  IInv'
<1>1. verrou' = Deverrouiller(p)
  BY AucunVerrou DEF Reserver
<1> DEFINE a == [appel[p] EXCEPT !.etape = "passe"]
<1>2. appel \in [Appelants -> Appel] /\ appel[p] \in Appel
  BY DEF IInv, TypeOK
<1>3. a \in Appel /\ a.etape = "passe"
  BY <1>2 DEF Appel, Etapes
<1>4. appel' = [appel EXCEPT ![p] = a] /\ UNCHANGED <<rangee, rang, historique>>
  BY DEF Reserver
<1> HIDE DEF a
<1> QED
  BY <1>1, <1>3, <1>4, SansVerrous

LEMMA PasJuger ==
  ASSUME IInv, NEW p \in Appelants, _juger_le_plafond(p)
  PROVE  IInv'
<1> DEFINE R == {r \in appel[p].lignes : ABout(r, PLAFOND)}
           a == [appel[p] EXCEPT !.etape = "abandon", !.lignes = R]
<1>1. appel[p] \in Appel /\ appel[p].etape = "juge"
  BY DEF _juger_le_plafond, IInv, TypeOK
<1>2. R \subseteq Lignes /\ \A r \in R : AuBout(r)
  BY <1>1 DEF ABout, AuBout, Appel
<1>3. /\ Deverrouillees(R) /\ verrou' = Verrouiller(p, R)
      /\ appel' = [appel EXCEPT ![p] = IF R = {} THEN Repos ELSE a]
  BY DEF _juger_le_plafond
<1>4. UNCHANGED <<rangee, rang, historique>>
  BY DEF _juger_le_plafond
<1> HIDE DEF R
<1>5. CASE R = {}
  <2>1. verrou' = Deverrouiller(p)
    BY <1>1, <1>3, <1>5, AucunVerrou DEF Verrouiller, Deverrouiller
  <2> QED
    BY <1>3, <1>4, <1>5, <2>1, ReposTypes, SansVerrous
<1>6. CASE R # {}
  <2>1. a \in Appel /\ a.etape = "abandon" /\ a.lignes = R /\ a.usees = appel[p].usees
    BY <1>1, <1>2 DEF Appel, Etapes
  <2>2. \A r \in a.usees : FALSE
    BY <1>1, <2>1 DEF IInv, Dechues, Appel
  <2>3. intrus' \in 0..MaxIntrus /\ UNCHANGED <<rangee, rang, depuis, preneur, passee>>
    BY <1>4 DEF historique, IInv, TypeOK
  <2>4. appel' = [appel EXCEPT ![p] = a] /\ verrou' = Verrouiller(p, a.lignes)
        /\ Deverrouillees(a.lignes)
    BY <1>3, <1>6, <2>1
  <2> HIDE DEF a
  <2> QED
    BY <1>1, <1>2, <2>1, <2>2, <2>3, <2>4, PrendVerrous
<1> QED
  BY <1>5, <1>6

LEMMA PasPasse ==
  ASSUME IInv, NEW p \in Appelants, NEW v \in Assouplis \cup {PLAFOND}, Passe(p, v)
  PROVE  IInv'
<1> DEFINE R == {r \in Lignes : ABout(r, plafond_de(v))}
           U == {r \in Lignes : /\ Existe(r) /\ Libre(r)
                                /\ rangee[r].claims >= PLAFOND /\ rangee[r].claims >= v}
           a == [etape |-> "abandon", lignes |-> R, reserve |-> TRUE, usees |-> U]
           b == Pioche(U)
<1>1. TypeOK /\ appel[p].etape = "passe"
  BY DEF Passe, IInv
<1>2. \A r \in R : AuBout(r)
  BY <1>1, LigneTypee DEF ABout, AuBout, plafond_de
<1>3. \A r \in U : Sortie(r) \/ r \in R
  BY <1>1, LigneTypee DEF ABout, Sortie, plafond_de
<1>4. /\ Deverrouillees(R) /\ verrou' = Verrouiller(p, R)
      /\ appel' = [appel EXCEPT ![p] = IF R = {} THEN b ELSE a]
      /\ UNCHANGED <<rangee, rang, historique>>
  BY DEF Passe
<1>5. R \subseteq Lignes /\ U \subseteq Lignes
  OBVIOUS
<1> HIDE DEF R, U
<1>6. CASE R = {}
  <2>1. verrou' = Deverrouiller(p)
    BY <1>1, <1>4, <1>6, AucunVerrou DEF Verrouiller, Deverrouiller
  <2>2. b \in Appel /\ b.etape = "pioche" /\ b.usees = U
    BY <1>5 DEF Pioche, Repos, Appel, Etapes
  <2> HIDE DEF b
  <2> QED
    BY <1>3, <1>4, <1>6, <2>1, <2>2, SansVerrous
<1>7. CASE R # {}
  <2>1. a \in Appel /\ a.etape = "abandon" /\ a.lignes = R /\ a.usees = U
    BY <1>5 DEF Appel, Etapes
  <2>2. intrus' \in 0..MaxIntrus /\ UNCHANGED <<rangee, rang, depuis, preneur, passee>>
    BY <1>1, <1>4 DEF historique, TypeOK
  <2>3. appel' = [appel EXCEPT ![p] = a]
    BY <1>4, <1>7
  <2> HIDE DEF a
  <2> QED
    BY <1>1, <1>2, <1>3, <1>4, <2>1, <2>2, <2>3, PrendVerrous
<1> QED
  BY <1>6, <1>7

LEMMA PasLire ==
  ASSUME IInv, NEW p \in Appelants, NEW r \in Lignes, Lire(p, r)
  PROVE  IInv'
<1> DEFINE a == [Repos EXCEPT !.etape = "ecrit", !.lignes = {r}]
<1>1. a \in Appel /\ a.etape = "ecrit" /\ a.lignes = {r}
  BY DEF Repos, Appel, Etapes
<1>2. /\ appel[p].etape = "repos" /\ verrou[r] = Personne
      /\ Existe(r) /\ _lease_guard(p, r)
      /\ appel' = [appel EXCEPT ![p] = a] /\ verrou' = Verrouiller(p, {r})
      /\ UNCHANGED <<rangee, rang, depuis, preneur, passee>>
  BY DEF Lire
<1>3. intrus' \in 0..MaxIntrus
  BY DEF Lire, IInv, TypeOK
<1>4. Deverrouillees(a.lignes)
  BY <1>1, <1>2 DEF Deverrouillees
<1> HIDE DEF a
<1> QED
  BY <1>1, <1>2, <1>3, <1>4, PrendVerrous

-----------------------------------------------------------------------------
(* The calls that change rows: rows that nobody else has locked. *)

\* What each row keeps of the invariant.
LigneBonne(r) ==
  /\ "titulaire" \in depuis[r] => rangee[r].claims = 0
  /\ rangee[r].bail = "actif" => "autre" \notin depuis[r]
  /\ rangee[r].claimed_by # Personne => rangee[r].claimed_run = preneur[r]
  /\ rangee[r].abandon_reason => rangee[r].claims >= PLAFOND
  /\ passee[r] # rangee[r].etat

\* p changes the rows R, and ends up with no lock (p is Personne when no session acts).
LEMMA ChangeLignes ==
  ASSUME IInv, TypeOK', NEW p \in Appelants \cup {Personne}, NEW R \in SUBSET Lignes,
         \A r \in Lignes \ R : /\ rangee'[r] = rangee[r] /\ depuis'[r] = depuis[r]
                              /\ preneur'[r] = preneur[r] /\ passee'[r] = passee[r],
         \A r \in R : verrou[r] \in {Personne, p} /\ LigneBonne(r)',
         verrou' = Deverrouiller(p),
         \A q \in Appelants \ {p} : /\ appel'[q].etape = appel[q].etape
                                   /\ appel'[q].lignes = appel[q].lignes
                                   /\ appel'[q].usees \subseteq appel[q].usees,
         \A r \in R : (Sortie(r) => Sortie(r)') \/ \A q \in Appelants : r \notin appel'[q].usees,
         p # Personne => /\ appel'[p].etape \notin {"abandon", "ecrit"}
                         /\ appel'[p].etape = "juge" => appel'[p].usees = {}
                         /\ appel'[p].etape = "pioche" => \A r \in appel'[p].usees : Sortie(r)'
  PROVE  IInv'
<1>1. TypeOK /\ Personne \notin Appelants
  BY DEF IInv
<1>2. \A r \in Lignes : verrou'[r] = IF verrou[r] = p THEN Personne ELSE verrou[r]
  BY DEF Deverrouiller
<1>3. Verrous'
  <2> SUFFICES ASSUME NEW q \in Appelants, NEW r \in Lignes
               PROVE  verrou'[r] = q <=> EnVerrou(q, r)'
    BY DEF Verrous
  <2>1. verrou[r] = q <=> EnVerrou(q, r)
    BY DEF IInv, Verrous
  <2>2. CASE q = p
    BY <1>1, <1>2, <2>2 DEF EnVerrou
  <2>3. CASE q # p
    BY <1>1, <1>2, <2>1, <2>3 DEF EnVerrou
  <2> QED
    BY <2>2, <2>3
<1>4. \A q \in Appelants, r \in Lignes : EnVerrou(q, r)'
         => /\ q # p /\ EnVerrou(q, r) /\ r \notin R
            /\ appel'[q].etape = appel[q].etape
            /\ rangee'[r] = rangee[r]
  <2> SUFFICES ASSUME NEW q \in Appelants, NEW r \in Lignes, EnVerrou(q, r)'
               PROVE  /\ q # p /\ EnVerrou(q, r) /\ r \notin R
                      /\ appel'[q].etape = appel[q].etape
                      /\ rangee'[r] = rangee[r]
    OBVIOUS
  <2>1. q # p
    BY <1>1 DEF EnVerrou
  <2>2. EnVerrou(q, r) /\ appel'[q].etape = appel[q].etape
    BY <2>1 DEF EnVerrou
  <2>3. verrou[r] = q
    BY <2>2 DEF IInv, Verrous
  <2> QED
    BY <1>1, <2>1, <2>2, <2>3
<1>5. Abandons'
  BY <1>4 DEF EnVerrou, IInv, Abandons, AuBout, Existe, Libre
<1>6. Ecritures'
  BY <1>4 DEF EnVerrou, IInv, Ecritures, Existe, Libre, _lease_guard, Titulaire
<1>7. Dechues'
  <2> SUFFICES ASSUME NEW q \in Appelants, NEW r \in Lignes
               PROVE  /\ appel'[q].etape = "abandon" /\ r \in appel'[q].usees
                            => Sortie(r)' \/ r \in appel'[q].lignes
                      /\ appel'[q].etape = "pioche" /\ r \in appel'[q].usees => Sortie(r)'
                      /\ appel'[q].etape = "juge" => r \notin appel'[q].usees
    BY DEF Dechues, Sortie, Existe
  <2>1. CASE q = p
    BY <1>1, <2>1
  <2>2. CASE q # p
    <3>1. r \in appel'[q].usees /\ Sortie(r) => Sortie(r)'
      BY DEF Sortie, Existe
    <3> QED
      BY <2>2, <3>1 DEF IInv, Dechues
  <2> QED
    BY <2>1, <2>2
<1>8. \A r \in Lignes : LigneBonne(r)'
  <2> SUFFICES ASSUME NEW r \in Lignes PROVE LigneBonne(r)'
    OBVIOUS
  <2>1. CASE r \in R
    BY <2>1
  <2>2. CASE r \notin R
    BY <2>2 DEF LigneBonne, IInv, EcritRemetAZero, EcritureDuTitulaire, RunDuPreneur,
                AbandonMerite, PasseNonRefaite
  <2> QED
    BY <2>1, <2>2
<1>9. /\ EcritRemetAZero' /\ EcritureDuTitulaire' /\ RunDuPreneur' /\ AbandonMerite'
      /\ PasseNonRefaite'
  BY <1>8 DEF LigneBonne, EcritRemetAZero, EcritureDuTitulaire, RunDuPreneur,
              AbandonMerite, PasseNonRefaite
<1> QED
  BY <1>3, <1>5, <1>6, <1>7, <1>9 DEF IInv

\* The same, for one row.
LEMMA ChangeLigne ==
  ASSUME IInv, TypeOK', NEW p \in Appelants \cup {Personne}, NEW r \in Lignes,
         \A s \in Lignes \ {r} : /\ rangee'[s] = rangee[s] /\ depuis'[s] = depuis[s]
                                /\ preneur'[s] = preneur[s] /\ passee'[s] = passee[s],
         verrou[r] \in {Personne, p}, LigneBonne(r)', verrou' = Deverrouiller(p),
         \A q \in Appelants \ {p} : /\ appel'[q].etape = appel[q].etape
                                   /\ appel'[q].lignes = appel[q].lignes
                                   /\ appel'[q].usees \subseteq appel[q].usees,
         (Sortie(r) => Sortie(r)') \/ \A q \in Appelants : r \notin appel'[q].usees,
         p # Personne => appel'[p].etape = "repos"
  PROVE  IInv'
<1> DEFINE R == {r}
<1>1. R \in SUBSET Lignes
  OBVIOUS
<1>2. \A s \in Lignes \ R : /\ rangee'[s] = rangee[s] /\ depuis'[s] = depuis[s]
                           /\ preneur'[s] = preneur[s] /\ passee'[s] = passee[s]
  OBVIOUS
<1>3. \A s \in R : verrou[s] \in {Personne, p} /\ LigneBonne(s)'
  BY DEF LigneBonne
<1>4. \A s \in R : (Sortie(s) => Sortie(s)') \/ \A q \in Appelants : s \notin appel'[q].usees
  BY DEF Sortie, Existe
<1>5. p # Personne => /\ appel'[p].etape \notin {"abandon", "ecrit"}
                      /\ appel'[p].etape = "juge" => appel'[p].usees = {}
                      /\ appel'[p].etape = "pioche" => \A s \in appel'[p].usees : Sortie(s)'
  OBVIOUS
<1> HIDE DEF R
<1> QED
  BY <1>1, <1>2, <1>3, <1>4, <1>5, ChangeLignes

\* The rows of the call that ends, at rest.
LEMMA AuRepos ==
  ASSUME TypeOK, NEW p \in Appelants, NEW a \in Appel, appel' = [appel EXCEPT ![p] = a]
  PROVE  /\ appel' \in [Appelants -> Appel] /\ appel'[p] = a
         /\ \A q \in Appelants \ {p} : appel'[q] = appel[q]
BY DEF TypeOK

LEMMA Bredouille ==
  ASSUME IInv, UNCHANGED vars
  PROVE  IInv'
<1>1. TypeOK' /\ Verrous' /\ Abandons' /\ Ecritures' /\ Dechues'
  BY DEF IInv, vars, TypeOK, Verrous, EnVerrou, Abandons, AuBout, Ecritures, Dechues, Sortie,
         Existe, Libre, _lease_guard, Titulaire
<1>2. /\ EcritRemetAZero' /\ EcritureDuTitulaire' /\ RunDuPreneur' /\ AbandonMerite'
      /\ PasseNonRefaite'
  BY DEF IInv, vars, EcritRemetAZero, EcritureDuTitulaire, RunDuPreneur, AbandonMerite,
         PasseNonRefaite
<1> QED
  BY <1>1, <1>2 DEF IInv

\* A take leaves a good row: nobody has written it since, and its run is the one that took it.
LEMMA TenueBonne ==
  ASSUME IInv, NEW p \in Appelants, NEW r \in Lignes, Tenir(p, r),
         UNCHANGED <<verrou, passee, intrus>>, appel' \in [Appelants -> Appel]
  PROVE  /\ TypeOK' /\ LigneBonne(r)' /\ (Sortie(r) => Sortie(r)')
         /\ \A s \in Lignes \ {r} : /\ rangee'[s] = rangee[s] /\ depuis'[s] = depuis[s]
                                   /\ preneur'[s] = preneur[s] /\ passee'[s] = passee[s]
<1>1. TypeOK
  BY DEF IInv
<1>2. /\ rangee' \in [Lignes -> Row]
      /\ rang' \in [Lignes -> 1..Cardinality(Lignes)]
      /\ depuis' \in [Lignes -> SUBSET {"titulaire", "autre"}]
      /\ preneur' \in [Lignes -> Runs \cup {Aucun}]
      /\ rangee'[r].claimed_by = libelleDe[p] /\ rangee'[r].claimed_by # Personne
      /\ rangee'[r].bail = "actif" /\ rangee'[r].claimed_run = runDe[p]
      /\ rangee'[r].abandon_reason = rangee[r].abandon_reason
      /\ rangee'[r].claims >= rangee[r].claims
      /\ rangee'[r].etat = rangee[r].etat
      /\ \A s \in Lignes \ {r} : rangee'[s] = rangee[s]
  BY <1>1, UneTenue
<1>3. TypeOK'
  BY <1>1, <1>2 DEF TypeOK
<1>4. /\ depuis'[r] = {} /\ preneur'[r] = runDe[p] /\ passee' = passee
      /\ \A s \in Lignes \ {r} : depuis'[s] = depuis[s] /\ preneur'[s] = preneur[s]
  BY <1>1 DEF Tenir, TypeOK
<1>5. /\ rangee[r].claims \in Nat /\ rangee'[r].claims \in Nat
      /\ rangee[r].abandon_reason => rangee[r].claims >= PLAFOND
      /\ passee[r] # rangee[r].etat
  BY <1>1, <1>3, LigneTypee DEF IInv, AbandonMerite, PasseNonRefaite, TypeOK, Row
<1>6. LigneBonne(r)'
  <2>1. rangee'[r].abandon_reason => rangee'[r].claims >= PLAFOND
    BY <1>2, <1>5
  <2> QED
    BY <1>2, <1>4, <1>5, <2>1 DEF LigneBonne
<1>7. Sortie(r) => Sortie(r)'
  BY <1>2 DEF Sortie, Existe
<1> QED
  BY <1>2, <1>3, <1>4, <1>6, <1>7

LEMMA PasClaimNext ==
  ASSUME IInv, NEW p \in Appelants, NEW r \in Lignes, _datastore_claim_next_once(p, r)
  PROVE  IInv'
<1>1. /\ TypeOK /\ Tenir(p, r) /\ verrou[r] = Personne
      /\ appel[p].etape = "pioche" /\ appel' = [appel EXCEPT ![p] = Repos]
      /\ UNCHANGED <<verrou, passee, intrus>>
  BY DEF IInv, _datastore_claim_next_once, EnTete
<1>2. verrou' = Deverrouiller(p)
  BY <1>1, AucunVerrou
<1>3. /\ appel' \in [Appelants -> Appel] /\ appel'[p] = Repos
      /\ \A q \in Appelants \ {p} : appel'[q] = appel[q]
  BY <1>1, ReposTypes, AuRepos
<1>4. TypeOK' /\ LigneBonne(r)' /\ (Sortie(r) => Sortie(r)')
      /\ \A s \in Lignes \ {r} : /\ rangee'[s] = rangee[s] /\ depuis'[s] = depuis[s]
                                /\ preneur'[s] = preneur[s] /\ passee'[s] = passee[s]
  BY <1>1, <1>3, TenueBonne
<1> QED
  BY <1>1, <1>2, <1>3, <1>4, ReposTypes, ChangeLigne

LEMMA PasClaimRow ==
  ASSUME IInv, NEW p \in Appelants, NEW r \in Lignes, datastore_claim_row(p, r)
  PROVE  IInv'
<1>1. /\ TypeOK /\ appel[p].etape = "repos" /\ verrou[r] = Personne
      /\ UNCHANGED <<verrou, appel, passee, intrus>>
  BY DEF IInv, datastore_claim_row
<1>2. verrou' = Deverrouiller(p)
  BY <1>1, AucunVerrou
<1>3. CASE Tenir(p, r)
  <2>1. appel' \in [Appelants -> Appel]
    BY <1>1 DEF TypeOK
  <2>2. TypeOK' /\ LigneBonne(r)' /\ (Sortie(r) => Sortie(r)')
        /\ \A s \in Lignes \ {r} : /\ rangee'[s] = rangee[s] /\ depuis'[s] = depuis[s]
                                  /\ preneur'[s] = preneur[s] /\ passee'[s] = passee[s]
    BY <1>1, <1>3, <2>1, TenueBonne
  <2> QED
    BY <1>1, <1>2, <2>2, ChangeLigne
<1>4. CASE Prolonger(p, r)
  <2>1. UNCHANGED vars
    BY <1>1, <1>4 DEF Prolonger, vars
  <2> QED
    BY <2>1, Bredouille
<1> QED
  BY <1>3, <1>4 DEF datastore_claim_row

LEMMA PasExpirer ==
  ASSUME IInv, NEW r \in Lignes, Expirer(r)
  PROVE  IInv'
<1>1. /\ TypeOK /\ rangee[r].bail = "actif"
      /\ UNCHANGED <<rang, verrou, appel, depuis, preneur, passee, intrus>>
  BY DEF IInv, Expirer, historique
<1> DEFINE w == [rangee[r] EXCEPT !.bail = "echu"]
<1>2. rangee[r] \in Row
  BY <1>1, LigneTypee
<1>3. /\ w \in Row /\ w.bail = "echu" /\ w.claimed_by = rangee[r].claimed_by
      /\ w.claimed_run = rangee[r].claimed_run /\ w.claims = rangee[r].claims
      /\ w.abandon_reason = rangee[r].abandon_reason /\ w.etat = rangee[r].etat
  BY <1>2 DEF Row
<1>4. rangee' = [rangee EXCEPT ![r] = w]
  BY DEF Expirer
<1> HIDE DEF w
<1>5. /\ rangee' \in [Lignes -> Row] /\ rangee'[r] = w
      /\ \A s \in Lignes \ {r} : rangee'[s] = rangee[s]
  BY <1>1, <1>3, <1>4 DEF TypeOK
<1>6. rangee[r].claimed_by # Personne
  BY <1>1 DEF TypeOK
<1>7. TypeOK'
  BY <1>1, <1>3, <1>5, <1>6 DEF TypeOK
<1>8. Verrous' /\ Abandons' /\ Ecritures' /\ Dechues'
  <2>1. \A s \in Lignes : Existe(s)' = Existe(s) /\ (Libre(s) => Libre(s)')
    BY <1>1, <1>3, <1>5 DEF Existe, Libre
  <2>2. \A s \in Lignes : /\ rangee'[s].abandon_reason = rangee[s].abandon_reason
                          /\ rangee'[s].claims = rangee[s].claims
                          /\ rangee'[s].claimed_run = rangee[s].claimed_run
    BY <1>3, <1>5
  <2>3. Abandons'
    BY <1>1, <2>1, <2>2 DEF IInv, Abandons, AuBout
  <2>4. Ecritures'
    BY <1>1, <2>1, <2>2 DEF IInv, Ecritures, _lease_guard, Titulaire
  <2>5. Dechues'
    BY <1>1, <2>1, <2>2 DEF IInv, Dechues, Sortie
  <2> QED
    BY <1>1, <2>3, <2>4, <2>5 DEF IInv, Verrous, EnVerrou
<1>9. /\ EcritRemetAZero' /\ EcritureDuTitulaire' /\ RunDuPreneur' /\ AbandonMerite'
      /\ PasseNonRefaite'
  BY <1>1, <1>3, <1>5 DEF IInv, EcritRemetAZero, EcritureDuTitulaire, RunDuPreneur,
                          AbandonMerite, PasseNonRefaite
<1> QED
  BY <1>7, <1>8, <1>9 DEF IInv

\* A row that a write changes is struck off what reservations have judged.
LEMMA Radiee ==
  ASSUME TypeOK, NEW r \in Lignes
  PROVE  /\ Oubliee(r) \in [Appelants -> Appel]
         /\ \A q \in Appelants : /\ Oubliee(r)[q].etape = appel[q].etape
                                /\ Oubliee(r)[q].lignes = appel[q].lignes
                                /\ Oubliee(r)[q].usees \subseteq appel[q].usees
                                /\ r \notin Oubliee(r)[q].usees
<1> SUFFICES ASSUME NEW q \in Appelants
             PROVE  /\ Oubliee(r)[q] \in Appel
                    /\ Oubliee(r)[q].etape = appel[q].etape
                    /\ Oubliee(r)[q].lignes = appel[q].lignes
                    /\ Oubliee(r)[q].usees \subseteq appel[q].usees
                    /\ r \notin Oubliee(r)[q].usees
  BY DEF Oubliee
<1>1. appel[q] \in Appel /\ Oubliee(r)[q] = [appel[q] EXCEPT !.usees = @ \ {r}]
  BY DEF Oubliee, TypeOK
<1> QED
  BY <1>1 DEF Appel

\* A row rewritten: its count is zero and it is back in the queue.
LEMMA Remise ==
  ASSUME NEW x \in Row, NEW e \in Etats \cup {Supprimee}, NEW b \in BOOLEAN
  PROVE  [x EXCEPT !.etat = e, !.claims = 0, !.abandon_reason = FALSE, !.revision = b] \in Row
<1>1. 0 \in 0..MaxClaims /\ FALSE \in BOOLEAN
  OBVIOUS
<1> QED
  BY <1>1 DEF Row

LEMMA PasRecalculer ==
  ASSUME IInv, NEW r \in Lignes, RecalculerFormules(r)
  PROVE  IInv'
<1>1. /\ TypeOK /\ verrou[r] = Personne /\ appel' = Oubliee(r)
      /\ UNCHANGED <<rang, verrou, depuis, preneur, passee, intrus>>
  BY DEF IInv, RecalculerFormules, historique
<1> DEFINE w == [rangee[r] EXCEPT !.claims = 0, !.abandon_reason = FALSE]
<1>2. rangee[r] \in Row
  BY <1>1, LigneTypee
<1>3. /\ w \in Row /\ w.bail = rangee[r].bail /\ w.claimed_by = rangee[r].claimed_by
      /\ w.claimed_run = rangee[r].claimed_run /\ w.claims = 0
      /\ w.abandon_reason = FALSE /\ w.etat = rangee[r].etat
  <2>1. rangee[r].etat \in Etats \cup {Supprimee} /\ rangee[r].revision \in BOOLEAN
    BY <1>1, LigneTypee
  <2>2. w = [rangee[r] EXCEPT !.etat = rangee[r].etat, !.claims = 0, !.abandon_reason = FALSE,
                              !.revision = rangee[r].revision]
    BY <1>2 DEF Row
  <2>3. w \in Row
    BY <1>2, <2>1, <2>2, Remise
  <2> QED
    BY <1>2, <2>3 DEF Row
<1>4. rangee' = [rangee EXCEPT ![r] = w]
  BY DEF RecalculerFormules
<1> HIDE DEF w
<1>5. /\ rangee' \in [Lignes -> Row] /\ rangee'[r] = w
      /\ \A s \in Lignes \ {r} : rangee'[s] = rangee[s]
  BY <1>1, <1>3, <1>4 DEF TypeOK
<1>6. TypeOK'
  <2>1. \A s \in Lignes : rangee'[s].claimed_by = Personne
            => rangee'[s].bail = "libre" /\ rangee'[s].claimed_run = Aucun
    BY <1>1, <1>3, <1>5 DEF TypeOK
  <2>2. appel' \in [Appelants -> Appel]
    BY <1>1, Radiee
  <2> QED
    BY <1>1, <1>5, <2>1, <2>2 DEF TypeOK
<1>7. LigneBonne(r)'
  BY <1>1, <1>3, <1>5 DEF LigneBonne, IInv, EcritureDuTitulaire, RunDuPreneur, PasseNonRefaite
<1>8. verrou' = Deverrouiller(Personne)
  BY <1>1 DEF Deverrouiller, TypeOK
<1>9. \A q \in Appelants : /\ appel'[q].etape = appel[q].etape
                          /\ appel'[q].lignes = appel[q].lignes
                          /\ appel'[q].usees \subseteq appel[q].usees
                          /\ r \notin appel'[q].usees
  BY <1>1, Radiee
<1> QED
  BY <1>1, <1>5, <1>6, <1>7, <1>8, <1>9, ChangeLigne

LEMMA PasEcrire ==
  ASSUME IInv, NEW p \in Appelants, NEW r \in Lignes, NEW e \in Etats,
         datastore_merge_row_locked(p, r, e)
  PROVE  IInv'
<1> DEFINE v == rangee[r].claimed_by # Personne /\ (rangee[r].revision \/ e # rangee[r].etat)
           w == [rangee[r] EXCEPT !.etat = e, !.claims = 0, !.abandon_reason = FALSE,
                                  !.revision = v]
<1>1. /\ TypeOK /\ appel[p].etape = "ecrit" /\ appel[p].lignes = {r}
      /\ verrou' = Deverrouiller(p) /\ appel' = [Oubliee(r) EXCEPT ![p] = Repos]
      /\ depuis' = [depuis EXCEPT ![r] = @ \union Ecrivain(p, r)]
      /\ passee' = [passee EXCEPT ![r] = IF e # rangee[r].etat THEN Aucun ELSE @]
      /\ UNCHANGED <<rang, preneur, intrus>>
  BY DEF IInv, datastore_merge_row_locked
<1>2. rangee[r] \in Row /\ v \in BOOLEAN /\ rangee[r].revision \in BOOLEAN
  BY <1>1, LigneTypee
<1> HIDE DEF v
<1>3. /\ w \in Row /\ w.bail = rangee[r].bail /\ w.claimed_by = rangee[r].claimed_by
      /\ w.claimed_run = rangee[r].claimed_run /\ w.claims = 0
      /\ w.abandon_reason = FALSE /\ w.etat = e
  <2>1. w \in Row
    BY <1>2, Remise
  <2> QED
    BY <1>2, <2>1 DEF Row
<1>4. rangee' = [rangee EXCEPT ![r] = w]
  BY DEF datastore_merge_row_locked, v
<1> HIDE DEF w
<1>5. /\ rangee' \in [Lignes -> Row] /\ rangee'[r] = w
      /\ \A s \in Lignes \ {r} : rangee'[s] = rangee[s]
  BY <1>1, <1>3, <1>4 DEF TypeOK
<1>6. /\ depuis' \in [Lignes -> SUBSET {"titulaire", "autre"}]
      /\ depuis'[r] = depuis[r] \cup Ecrivain(p, r)
      /\ passee' \in [Lignes -> Etats \cup {Aucun}]
      /\ passee'[r] = IF e # rangee[r].etat THEN Aucun ELSE passee[r]
      /\ \A s \in Lignes \ {r} : depuis'[s] = depuis[s] /\ passee'[s] = passee[s]
  BY <1>1 DEF TypeOK, Ecrivain
<1>7. /\ appel' \in [Appelants -> Appel] /\ appel'[p] = Repos
      /\ \A q \in Appelants \ {p} : appel'[q] = Oubliee(r)[q]
  BY <1>1, Radiee, ReposTypes
<1>8. TypeOK'
  BY <1>1, <1>3, <1>5, <1>6, <1>7 DEF TypeOK, Deverrouiller
<1>9. rangee[r].bail = "actif" => "autre" \notin depuis'[r]
  <2>1. Libre(r) \/ Titulaire(p, r)
    BY <1>1 DEF IInv, Ecritures, _lease_guard
  <2>2. rangee[r].bail = "actif" => "autre" \notin depuis[r] /\ Titulaire(p, r)
    BY <2>1 DEF IInv, EcritureDuTitulaire, Libre
  <2>3. Titulaire(p, r) => "autre" \notin Ecrivain(p, r)
    BY DEF Ecrivain
  <2> QED
    BY <1>6, <2>2, <2>3
<1>10. passee'[r] # e
  BY <1>6 DEF IInv, PasseNonRefaite
<1>11. LigneBonne(r)'
  BY <1>1, <1>3, <1>5, <1>9, <1>10 DEF LigneBonne, IInv, RunDuPreneur
<1>12. verrou[r] = p
  BY <1>1 DEF IInv, Verrous, EnVerrou
<1>13. /\ \A q \in Appelants \ {p} : /\ appel'[q].etape = appel[q].etape
                                   /\ appel'[q].lignes = appel[q].lignes
                                   /\ appel'[q].usees \subseteq appel[q].usees
       /\ \A q \in Appelants : r \notin appel'[q].usees
       /\ appel'[p].etape = "repos"
  BY <1>1, <1>7, Radiee, ReposTypes
<1>14. \A s \in Lignes \ {r} : /\ rangee'[s] = rangee[s] /\ depuis'[s] = depuis[s]
                              /\ preneur'[s] = preneur[s] /\ passee'[s] = passee[s]
  BY <1>1, <1>5, <1>6
<1> QED
  BY <1>1, <1>8, <1>11, <1>12, <1>13, <1>14, ChangeLigne

LEMMA PasSupprimer ==
  ASSUME IInv, NEW p \in Appelants, NEW r \in Lignes, datastore_delete_row(p, r)
  PROVE  IInv'
<1> DEFINE w == [claimed_by |-> Personne, bail |-> "libre", claimed_run |-> Aucun, claims |-> 0,
                 abandon_reason |-> FALSE, etat |-> Supprimee, revision |-> FALSE]
<1>1. /\ TypeOK /\ appel[p].etape = "repos" /\ verrou[r] = Personne
      /\ rangee' = [rangee EXCEPT ![r] = w]
      /\ depuis' = [depuis EXCEPT ![r] = {}] /\ preneur' = [preneur EXCEPT ![r] = Aucun]
      /\ passee' = [passee EXCEPT ![r] = Aucun]
      /\ UNCHANGED <<rang, verrou, appel, intrus>>
  BY DEF IInv, datastore_delete_row
<1>2. /\ w \in Row /\ w.bail = "libre" /\ w.claimed_by = Personne /\ w.claimed_run = Aucun
      /\ w.claims = 0 /\ w.abandon_reason = FALSE /\ w.etat = Supprimee
  BY DEF Row
<1> HIDE DEF w
<1>3. /\ rangee' \in [Lignes -> Row] /\ rangee'[r] = w /\ depuis'[r] = {}
      /\ preneur'[r] = Aucun /\ passee'[r] = Aucun
      /\ \A s \in Lignes \ {r} : /\ rangee'[s] = rangee[s] /\ depuis'[s] = depuis[s]
                                /\ preneur'[s] = preneur[s] /\ passee'[s] = passee[s]
  BY <1>1, <1>2 DEF TypeOK
<1>4. TypeOK'
  BY <1>1, <1>2, <1>3 DEF TypeOK
<1>5. LigneBonne(r)' /\ Sortie(r)'
  BY <1>2, <1>3 DEF LigneBonne, Sortie, Existe
<1>6. verrou' = Deverrouiller(p)
  BY <1>1, AucunVerrou
<1> QED
  BY <1>1, <1>3, <1>4, <1>5, <1>6, ChangeLigne

LEMMA PasAbandonner ==
  ASSUME IInv, NEW p \in Appelants, abandonner_les_lignes_a_bout(p)
  PROVE  IInv'
<1> DEFINE R == {r \in appel[p].lignes : Existe(r)}
           a == IF appel[p].reserve THEN Pioche(appel[p].usees) ELSE Repos
<1>1. /\ TypeOK /\ appel[p].etape = "abandon"
      /\ rangee' = [r \in Lignes |-> IF r \in R THEN Abandonnee(rangee[r]) ELSE rangee[r]]
      /\ passee' = [r \in Lignes |-> IF r \in R /\ EtatAbandon # Aucun
                                     THEN Aucun ELSE passee[r]]
      /\ depuis' = [r \in Lignes |-> IF r \in R THEN {} ELSE depuis[r]]
      /\ preneur' = [r \in Lignes |-> IF r \in R THEN Aucun ELSE preneur[r]]
      /\ verrou' = Deverrouiller(p) /\ appel' = [appel EXCEPT ![p] = a]
      /\ UNCHANGED <<rang, intrus>>
  BY DEF IInv, abandonner_les_lignes_a_bout
<1>2. appel[p] \in Appel /\ appel[p].usees \subseteq Lignes
      /\ R \in SUBSET Lignes /\ R \subseteq appel[p].lignes
  BY <1>1 DEF TypeOK, Appel
<1>3. \A r \in R : verrou[r] = p /\ AuBout(r)
  BY <1>1, <1>2 DEF IInv, Verrous, EnVerrou, Abandons
<1>4. \A r \in appel[p].lignes : r \in R
  BY <1>1, <1>2 DEF IInv, Abandons, AuBout, TypeOK, Appel
<1> HIDE DEF R
<1>5. a \in Appel /\ a.etape \in {"pioche", "repos"}
      /\ (a.etape = "pioche" => a.usees = appel[p].usees)
  BY <1>2, ReposTypes DEF Pioche, Repos, Appel, Etapes
<1>6. /\ appel' \in [Appelants -> Appel] /\ appel'[p] = a
      /\ \A q \in Appelants \ {p} : appel'[q] = appel[q]
  BY <1>1, <1>5, AuRepos
<1> HIDE DEF a
<1>7. \A r \in R : /\ rangee'[r] \in Row /\ rangee'[r].abandon_reason
                   /\ rangee'[r].claimed_by = Personne /\ rangee'[r].bail = "libre"
                   /\ rangee'[r].claimed_run = Aucun /\ rangee'[r].claims = rangee[r].claims
                   /\ rangee'[r].etat = IF EtatAbandon = Aucun THEN rangee[r].etat
                                                              ELSE EtatAbandon
  <2> SUFFICES ASSUME NEW r \in R
               PROVE  /\ rangee'[r] \in Row /\ rangee'[r].abandon_reason
                      /\ rangee'[r].claimed_by = Personne /\ rangee'[r].bail = "libre"
                      /\ rangee'[r].claimed_run = Aucun /\ rangee'[r].claims = rangee[r].claims
                      /\ rangee'[r].etat = IF EtatAbandon = Aucun THEN rangee[r].etat
                                                                 ELSE EtatAbandon
    OBVIOUS
  <2>1. rangee[r] \in Row /\ rangee'[r] = Abandonnee(rangee[r])
    BY <1>1, <1>2, LigneTypee
  <2>2. TRUE \in BOOLEAN /\ FALSE \in BOOLEAN
    OBVIOUS
  <2>3. Abandonnee(rangee[r]) \in Row
    BY <2>1, <2>2 DEF Abandonnee, Row
  <2> QED
    BY <2>1, <2>3 DEF Abandonnee, Row
<1>8. \A r \in Lignes \ R : /\ rangee'[r] = rangee[r] /\ depuis'[r] = depuis[r]
                           /\ preneur'[r] = preneur[r] /\ passee'[r] = passee[r]
  BY <1>1
<1>9. \A r \in R : /\ depuis'[r] = {} /\ preneur'[r] = Aucun
                   /\ passee'[r] = IF EtatAbandon # Aucun THEN Aucun ELSE passee[r]
  BY <1>1, <1>2
<1>10. TypeOK'
  <2>1. \A r \in Lignes : rangee'[r] \in Row
    BY <1>7, <1>8, <1>1, LigneTypee
  <2>2. rangee' \in [Lignes -> Row]
    BY <1>1, <2>1
  <2>3. \A r \in Lignes : rangee'[r].claimed_by = Personne
            => rangee'[r].bail = "libre" /\ rangee'[r].claimed_run = Aucun
    BY <1>1, <1>7, <1>8 DEF TypeOK
  <2>4. /\ depuis' \in [Lignes -> SUBSET {"titulaire", "autre"}]
        /\ preneur' \in [Lignes -> Runs \cup {Aucun}]
        /\ passee' \in [Lignes -> Etats \cup {Aucun}]
        /\ verrou' \in [Lignes -> Appelants \cup {Personne}]
    BY <1>1 DEF TypeOK, Deverrouiller
  <2> QED
    BY <1>1, <1>6, <2>2, <2>3, <2>4 DEF TypeOK
<1>11. \A r \in R : LigneBonne(r)' /\ Sortie(r)'
  <2> SUFFICES ASSUME NEW r \in R PROVE LigneBonne(r)' /\ Sortie(r)'
    OBVIOUS
  <2>1. rangee[r].claims >= PLAFOND
    BY <1>3 DEF AuBout
  <2>2. passee'[r] # rangee'[r].etat
    BY <1>2, <1>7, <1>9 DEF IInv, PasseNonRefaite
  <2> QED
    BY <1>7, <1>9, <2>1, <2>2 DEF LigneBonne, Sortie
<1>12. \A q \in Appelants \ {p} : /\ appel'[q].etape = appel[q].etape
                                /\ appel'[q].lignes = appel[q].lignes
                                /\ appel'[q].usees \subseteq appel[q].usees
  BY <1>6
<1>13. appel'[p].etape = "pioche" => \A r \in appel'[p].usees : Sortie(r)'
  <2> SUFFICES ASSUME appel'[p].etape = "pioche", NEW r \in appel'[p].usees PROVE Sortie(r)'
    BY DEF Sortie, Existe
  <2>1. r \in appel[p].usees /\ r \in Lignes
    BY <1>2, <1>5, <1>6
  <2>2. Sortie(r) \/ r \in appel[p].lignes
    BY <1>1, <2>1 DEF IInv, Dechues
  <2>3. CASE r \in R
    BY <1>11, <2>3
  <2>4. CASE r \notin R
    BY <1>4, <1>8, <2>1, <2>2, <2>4 DEF Sortie, Existe
  <2> QED
    BY <2>3, <2>4
<1>14. appel'[p].etape \notin {"abandon", "ecrit", "juge"}
  BY <1>5, <1>6
<1> QED
  BY SMTT(20), <1>1, <1>2, <1>3, <1>8, <1>10, <1>11, <1>12, <1>13, <1>14, ChangeLignes

\* Rows given back: what moves on is what its holder wrote.
LEMMA PasRelacher ==
  ASSUME IInv, NEW p \in Appelants, NEW R \in SUBSET Lignes, _relacher(p, R)
  PROVE  IInv'
<1> DEFINE a == [Repos EXCEPT !.etape = "juge", !.lignes = R]
<1>1. /\ TypeOK /\ appel[p].etape = "repos" /\ Deverrouillees(R)
      /\ rangee' = [r \in Lignes |-> IF r \in R THEN Relachee(rangee[r]) ELSE rangee[r]]
      /\ passee' = [r \in Lignes |-> IF r \notin R THEN passee[r]
                                     ELSE IF PasseFaite(r) THEN rangee[r].etat ELSE Aucun]
      /\ appel' = [appel EXCEPT ![p] = a]
      /\ depuis' = [r \in Lignes |-> IF r \in R THEN {} ELSE depuis[r]]
      /\ preneur' = [r \in Lignes |-> IF r \in R THEN Aucun ELSE preneur[r]]
      /\ UNCHANGED <<rang, verrou, intrus>>
  BY DEF IInv, _relacher
<1>2. a \in Appel /\ a.etape = "juge" /\ a.usees = {}
  BY DEF Repos, Appel, Etapes
<1> HIDE DEF a
<1>3. /\ appel' \in [Appelants -> Appel] /\ appel'[p] = a
      /\ \A q \in Appelants \ {p} : appel'[q] = appel[q]
  BY <1>1, <1>2, AuRepos
<1>4. ASSUME NEW r \in R
      PROVE  /\ rangee'[r] \in Row
             /\ rangee'[r].claimed_by = Personne /\ rangee'[r].bail = "libre"
             /\ rangee'[r].claimed_run = Aucun /\ rangee'[r].claims = rangee[r].claims
             /\ rangee'[r].abandon_reason = rangee[r].abandon_reason
             /\ rangee'[r].etat = IF _avance_de(rangee[r]) THEN Suite[rangee[r].etat]
                                                          ELSE rangee[r].etat
  <2>1. rangee[r] \in Row /\ rangee'[r] = Relachee(rangee[r])
    BY <1>1, LigneTypee
  <2>2. FALSE \in BOOLEAN /\ Aucun \in Runs \cup {Aucun}
    OBVIOUS
  <2> DEFINE e == IF _avance_de(rangee[r]) THEN Suite[rangee[r].etat] ELSE rangee[r].etat
  <2>3. e \in Etats \cup {Supprimee}
    BY <1>1, LigneTypee DEF _avance_de
  <2>4. Relachee(rangee[r]) = [rangee[r] EXCEPT !.claimed_by = Personne, !.bail = "libre",
                                 !.claimed_run = Aucun, !.etat = e, !.revision = FALSE]
    BY <2>1 DEF Relachee, Row
  <2> HIDE DEF e
  <2>5. Relachee(rangee[r]) \in Row
    BY <2>1, <2>2, <2>3, <2>4 DEF Row
  <2>6. /\ Relachee(rangee[r]).claimed_by = Personne /\ Relachee(rangee[r]).bail = "libre"
        /\ Relachee(rangee[r]).claimed_run = Aucun
        /\ Relachee(rangee[r]).claims = rangee[r].claims
        /\ Relachee(rangee[r]).abandon_reason = rangee[r].abandon_reason
        /\ Relachee(rangee[r]).etat = e
    BY <2>1, <2>4 DEF Row
  <2> QED
    BY <2>1, <2>5, <2>6 DEF e
<1>5. \A r \in Lignes \ R : /\ rangee'[r] = rangee[r] /\ depuis'[r] = depuis[r]
                           /\ preneur'[r] = preneur[r] /\ passee'[r] = passee[r]
  BY <1>1
<1>6. TypeOK'
  <2>1. \A r \in Lignes : rangee'[r] \in Row
    BY <1>1, <1>4, <1>5, LigneTypee
  <2>2. rangee' \in [Lignes -> Row]
    BY <1>1, <2>1
  <2>3. \A r \in Lignes : rangee'[r].claimed_by = Personne
            => rangee'[r].bail = "libre" /\ rangee'[r].claimed_run = Aucun
    BY <1>1, <1>4, <1>5 DEF TypeOK
  <2>4. /\ depuis' \in [Lignes -> SUBSET {"titulaire", "autre"}]
        /\ preneur' \in [Lignes -> Runs \cup {Aucun}]
    BY <1>1 DEF TypeOK
  <2>5. passee' \in [Lignes -> Etats \cup {Aucun}]
    <3>1. \A r \in Lignes : PasseFaite(r) => rangee[r].etat \in Etats
      BY DEF PasseFaite
    <3> QED
      BY <1>1, <3>1 DEF TypeOK
  <2> QED
    BY <1>1, <1>3, <2>2, <2>3, <2>4, <2>5 DEF TypeOK
<1>7. ASSUME NEW r \in R
      PROVE  verrou[r] \in {Personne, p} /\ LigneBonne(r)' /\ (Sortie(r) => Sortie(r)')
  <2>1. rangee[r].etat \in Etats \cup {Supprimee}
    BY <1>1, LigneTypee
  <2>2. depuis'[r] = {}
    BY <1>1
  <2>3. passee'[r] # rangee'[r].etat
    <3>1. CASE PasseFaite(r)
      <4>1. _avance_de(rangee[r])
        BY <3>1 DEF PasseFaite, _avance_de, IInv, EcritRemetAZero
      <4>2. rangee'[r].etat = Suite[rangee[r].etat] /\ passee'[r] = rangee[r].etat
        BY <1>1, <1>4, <3>1, <4>1
      <4> QED
        BY <3>1, <4>2 DEF PasseFaite
    <3>2. CASE ~PasseFaite(r)
      <4>1. passee'[r] = Aucun
        BY <1>1, <3>2
      <4>2. rangee'[r].etat \in Etats \cup {Supprimee}
        BY <1>6, <1>1, LigneTypee DEF TypeOK, Row
      <4> QED
        BY <4>1, <4>2
    <3> QED
      BY <3>1, <3>2
  <2>4. Sortie(r) => Sortie(r)'
    BY <1>4, <2>1 DEF Sortie, Existe, _avance_de
  <2>5. rangee[r].abandon_reason => rangee[r].claims >= PLAFOND
    BY DEF IInv, AbandonMerite
  <2> QED
    BY <1>1, <1>4, <2>2, <2>3, <2>4, <2>5 DEF LigneBonne, Deverrouillees
<1>8. verrou' = Deverrouiller(p)
  BY <1>1, AucunVerrou
<1>9. \A q \in Appelants \ {p} : /\ appel'[q].etape = appel[q].etape
                               /\ appel'[q].lignes = appel[q].lignes
                               /\ appel'[q].usees \subseteq appel[q].usees
  BY <1>3
<1>10. /\ appel'[p].etape \notin {"abandon", "ecrit"}
       /\ appel'[p].etape = "juge" => appel'[p].usees = {}
       /\ appel'[p].etape = "pioche" => \A r \in appel'[p].usees : Sortie(r)'
  BY <1>2, <1>3
<1>11. \A r \in R : verrou[r] \in {Personne, p} /\ LigneBonne(r)' /\ (Sortie(r) => Sortie(r)')
  BY <1>7
<1> QED
  BY <1>5, <1>6, <1>8, <1>9, <1>10, <1>11, ChangeLignes

-----------------------------------------------------------------------------
(* The theorems. *)

LEMMA Depart ==
  ASSUME Init
  PROVE  IInv
<1>1. \A r \in Lignes : /\ rangee[r].claimed_by = Personne /\ rangee[r].bail = "libre"
                        /\ rangee[r].claimed_run = Aucun /\ rangee[r].claims = 0
                        /\ rangee[r].abandon_reason = FALSE /\ rangee[r].etat \in Filtre
                        /\ rangee[r] \in Row
  <2> SUFFICES ASSUME NEW r \in Lignes
               PROVE  /\ rangee[r].claimed_by = Personne /\ rangee[r].bail = "libre"
                      /\ rangee[r].claimed_run = Aucun /\ rangee[r].claims = 0
                      /\ rangee[r].abandon_reason = FALSE /\ rangee[r].etat \in Filtre
                      /\ rangee[r] \in Row
    OBVIOUS
  <2>1. PICK e \in Filtre :
            rangee[r] = [claimed_by |-> Personne, bail |-> "libre", claimed_run |-> Aucun,
                         claims |-> 0, abandon_reason |-> FALSE, etat |-> e,
                         revision |-> FALSE]
    BY DEF Init
  <2> QED
    BY <2>1 DEF Row
<1>2. \A p \in Appelants : appel[p] = Repos /\ appel[p].etape = "repos"
  BY ReposTypes DEF Init
<1>3. TypeOK
  <2>1. rangee \in [Lignes -> Row]
    BY <1>1 DEF Init
  <2>2. appel \in [Appelants -> Appel]
    BY ReposTypes DEF Init
  <2>3. rang \in [Lignes -> 1..Cardinality(Lignes)]
    BY DEF Init
  <2> QED
    BY <1>1, <2>1, <2>2, <2>3 DEF Init, TypeOK
<1>4. Verrous /\ Abandons /\ Ecritures /\ Dechues
  BY <1>2, RunsAssumption DEF Init, Verrous, EnVerrou, Abandons, Ecritures, Dechues
<1>5. /\ EcritRemetAZero /\ EcritureDuTitulaire /\ RunDuPreneur /\ AbandonMerite
      /\ PasseNonRefaite
  BY <1>1 DEF Init, EcritRemetAZero, EcritureDuTitulaire, RunDuPreneur, AbandonMerite,
              PasseNonRefaite
<1> QED
  BY <1>3, <1>4, <1>5 DEF IInv

LEMMA Pas ==
  ASSUME IInv, [Next]_vars
  PROVE  IInv'
<1>1. ASSUME NEW p \in Appelants, Reserver(p) PROVE IInv'
  BY <1>1, PasReserver
<1>2. ASSUME NEW p \in Appelants, NEW v \in Assouplis \union {PLAFOND}, Passe(p, v) PROVE IInv'
  BY <1>2, PasPasse
<1>3. ASSUME NEW p \in Appelants, RienAServir(p) \/ Refuser(p) \/ Couper(p) PROVE IInv'
  BY <1>3, PasRienAServir, PasRefuser, PasCouper
<1>4. ASSUME NEW p \in Appelants, _juger_le_plafond(p) \/ abandonner_les_lignes_a_bout(p)
      PROVE  IInv'
  BY <1>4, PasJuger, PasAbandonner
<1>5. ASSUME NEW p \in Appelants, datastore_release_by_run(p) PROVE IInv'
  BY <1>5, PasRelacher DEF datastore_release_by_run, SousBail
<1>6. ASSUME NEW p \in Appelants, NEW r \in Lignes,
             _datastore_claim_next_once(p, r) \/ datastore_claim_row(p, r)
      PROVE  IInv'
  BY <1>6, PasClaimNext, PasClaimRow
<1>7. ASSUME NEW p \in Appelants, NEW r \in Lignes, Lire(p, r) \/ datastore_delete_row(p, r)
      PROVE  IInv'
  BY <1>7, PasLire, PasSupprimer
<1>8. ASSUME NEW p \in Appelants, NEW r \in Lignes, NEW e \in Etats,
             datastore_merge_row_locked(p, r, e)
      PROVE  IInv'
  BY <1>8, PasEcrire
<1>9. ASSUME NEW p \in Appelants, NEW r \in Lignes, NEW force \in BOOLEAN,
             datastore_release_claim(p, r, force)
      PROVE  IInv'
  BY <1>9, PasRelacher DEF datastore_release_claim, SousBail
<1>10. ASSUME NEW r \in Lignes, RecalculerFormules(r) \/ Expirer(r) PROVE IInv'
  BY <1>10, PasRecalculer, PasExpirer
<1>11. CASE UNCHANGED vars
  BY <1>11, Bredouille
<1>12. ASSUME NEW p \in Appelants,
              \E r \in Lignes :
                \/ _datastore_claim_next_once(p, r) \/ datastore_claim_row(p, r)
                \/ Lire(p, r) \/ datastore_delete_row(p, r)
                \/ \E e \in Etats : datastore_merge_row_locked(p, r, e)
                \/ \E force \in BOOLEAN : datastore_release_claim(p, r, force)
       PROVE  IInv'
  BY <1>6, <1>7, <1>8, <1>9, <1>12
<1>13. ASSUME NEW p \in Appelants,
              \/ Reserver(p)
              \/ \E v \in Assouplis \union {PLAFOND} : Passe(p, v)
              \/ RienAServir(p) \/ Refuser(p) \/ Couper(p)
              \/ _juger_le_plafond(p) \/ abandonner_les_lignes_a_bout(p)
              \/ datastore_release_by_run(p)
       PROVE  IInv'
  BY <1>1, <1>2, <1>3, <1>4, <1>5, <1>13
<1> QED
  BY <1>10, <1>11, <1>12, <1>13 DEF Next

\* The invariant holds in every state of the queue.
THEOREM Invariance == Spec => []IInv
<1>1. Init => IInv
  BY Depart
<1>2. IInv /\ [Next]_vars => IInv'
  BY Pas
<1> QED
  BY <1>1, <1>2, PTL DEF Spec

\* Every variable keeps its type, and a row without a holder has neither lease nor run.
THEOREM TypeCorrect == Spec => []TypeOK
<1>1. IInv => TypeOK
  BY DEF IInv
<1> QED
  BY <1>1, Invariance, PTL

\* Under a live lease, only the run that holds the row writes it, and the row carries the run
\* that took it.
THEOREM LeaseRespected == Spec => []BailRespecte
<1>1. IInv => BailRespecte
  BY DEF IInv, BailRespecte
<1> QED
  BY <1>1, Invariance, PTL

\* An abandoned row has had as many unwritten takes as its ceiling says.
THEOREM AbandonIsEarned == Spec => []AbandonMerite
<1>1. IInv => AbandonMerite
  BY DEF IInv
<1> QED
  BY <1>1, Invariance, PTL

\* A pass done by its holder, and left to the queue to move on, is not done again.
THEOREM PassNotRepeated == Spec => []PasseNonRefaite
<1>1. IInv => PasseNonRefaite
  BY DEF IInv
<1> QED
  BY <1>1, Invariance, PTL

\* No step but an abandonment takes a row out of the queue.
LEMMA SeulLAbandon ==
  ASSUME TypeOK, NEW r \in Lignes, [Next]_vars,
         ~rangee[r].abandon_reason, rangee'[r].abandon_reason
  PROVE  \E p \in Appelants : abandonner_les_lignes_a_bout(p)
<1> SUFFICES ASSUME \A p \in Appelants : ~abandonner_les_lignes_a_bout(p) PROVE FALSE
  OBVIOUS
<1>1. \A s \in Lignes : rangee[s] \in Row
  BY LigneTypee
<1>2. rangee'[r] # rangee[r]
  OBVIOUS
<1>3. ASSUME NEW p \in Appelants, NEW s \in Lignes, Tenir(p, s) PROVE FALSE
  <2>1. /\ rangee'[s].abandon_reason = rangee[s].abandon_reason
        /\ \A t \in Lignes \ {s} : rangee'[t] = rangee[t]
    BY <1>3, UneTenue
  <2> QED
    BY <2>1
<1>4. ASSUME NEW p \in Appelants, NEW R \in SUBSET Lignes, _relacher(p, R) PROVE FALSE
  <2>1. rangee'[r] = IF r \in R THEN Relachee(rangee[r]) ELSE rangee[r]
    BY <1>4 DEF _relacher
  <2>2. Relachee(rangee[r]).abandon_reason = rangee[r].abandon_reason
    BY <1>1 DEF Relachee, Row
  <2> QED
    BY <2>1, <2>2
<1>5. ASSUME NEW p \in Appelants, NEW s \in Lignes, NEW e \in Etats,
             datastore_merge_row_locked(p, s, e)
      PROVE  FALSE
  <2>1. rangee'[r].abandon_reason = IF r = s THEN FALSE ELSE rangee[r].abandon_reason
    BY <1>1, <1>5 DEF datastore_merge_row_locked, TypeOK, Row
  <2> QED
    BY <2>1
<1>6. ASSUME NEW p \in Appelants, NEW s \in Lignes, datastore_delete_row(p, s) PROVE FALSE
  <2>1. rangee'[r].abandon_reason = IF r = s THEN FALSE ELSE rangee[r].abandon_reason
    BY <1>6 DEF datastore_delete_row, TypeOK
  <2> QED
    BY <2>1
<1>7. ASSUME NEW s \in Lignes, RecalculerFormules(s) PROVE FALSE
  <2>1. rangee' = [rangee EXCEPT ![s] = [@ EXCEPT !.claims = 0, !.abandon_reason = FALSE]]
    BY <1>7 DEF RecalculerFormules
  <2>2. rangee'[r].abandon_reason = IF r = s THEN FALSE ELSE rangee[r].abandon_reason
    BY <1>1, <2>1 DEF TypeOK, Row
  <2> QED
    BY <2>2
<1>8. ASSUME NEW s \in Lignes, Expirer(s) PROVE FALSE
  <2>1. rangee'[r].abandon_reason = rangee[r].abandon_reason
    BY <1>1, <1>8 DEF Expirer, TypeOK, Row
  <2> QED
    BY <2>1
<1>9. ASSUME NEW p \in Appelants,
             \/ datastore_release_by_run(p)
             \/ \E s \in Lignes, force \in BOOLEAN : datastore_release_claim(p, s, force)
      PROVE  FALSE
  BY <1>4, <1>9 DEF datastore_release_by_run, datastore_release_claim, SousBail
<1>10. ASSUME NEW p \in Appelants, NEW s \in Lignes,
              _datastore_claim_next_once(p, s) \/ datastore_claim_row(p, s)
       PROVE  FALSE
  BY <1>2, <1>3, <1>10 DEF _datastore_claim_next_once, datastore_claim_row, Prolonger
<1>11. ASSUME NEW p \in Appelants,
              \/ Reserver(p) \/ RienAServir(p) \/ Refuser(p) \/ Couper(p)
              \/ _juger_le_plafond(p) \/ \E s \in Lignes : Lire(p, s)
              \/ \E v \in Assouplis \union {PLAFOND} : Passe(p, v)
       PROVE  FALSE
  BY <1>2, <1>11 DEF Reserver, RienAServir, Refuser, Couper, _juger_le_plafond, Lire, Passe
<1>12. CASE UNCHANGED vars
  BY <1>2, <1>12 DEF vars
<1> QED
  BY <1>5, <1>6, <1>7, <1>8, <1>9, <1>10, <1>11, <1>12 DEF Next

\* A row under a live lease is never taken out of the queue.
THEOREM LeaseNotAbandoned == Spec => JamaisSousBail
<1>1. IInv /\ [Next]_vars
        => [\A r \in Lignes : ~rangee[r].abandon_reason /\ rangee'[r].abandon_reason
                              => Libre(r)]_vars
  <2> SUFFICES ASSUME IInv, [Next]_vars, NEW r \in Lignes,
                      ~rangee[r].abandon_reason, rangee'[r].abandon_reason
               PROVE  Libre(r)
    OBVIOUS
  <2>1. PICK p \in Appelants : abandonner_les_lignes_a_bout(p)
    BY SeulLAbandon DEF IInv
  <2>2. r \in appel[p].lignes /\ appel[p].etape = "abandon"
    BY <2>1 DEF abandonner_les_lignes_a_bout
  <2> QED
    BY <2>2 DEF IInv, Abandons, AuBout
<1> QED
  BY <1>1, Invariance, PTL DEF Spec, JamaisSousBail

\* A reservation does not serve a row that was at the ceiling when it began.
THEOREM CeilingJudged == Spec => PlafondJuge
<1>1. IInv /\ [Next]_vars
        => [\A p \in Appelants, r \in Lignes :
              appel[p].etape = "pioche" /\ r \in appel[p].usees
                => ~_datastore_claim_next_once(p, r)]_vars
  <2> SUFFICES ASSUME IInv, NEW p \in Appelants, NEW r \in Lignes,
                      appel[p].etape = "pioche", r \in appel[p].usees,
                      _datastore_claim_next_once(p, r)
               PROVE  FALSE
    OBVIOUS
  <2>1. Sortie(r)
    BY DEF IInv, Dechues
  <2>2. Existe(r) /\ ~rangee[r].abandon_reason
    BY DEF _datastore_claim_next_once, EnTete, Servables, _LIBRE_ET_EN_FILE
  <2> QED
    BY <2>1, <2>2 DEF Sortie
<1> QED
  BY <1>1, Invariance, PTL DEF Spec, PlafondJuge

\* The ceiling of takes is judged before a row is served again, and never against its holder.
THEOREM AbandonIsJust == Spec => AbandonJuste
<1> QED
  BY LeaseNotAbandoned, CeilingJudged DEF AbandonJuste
=============================================================================
