---------------------------- MODULE CreditFeedProofs ----------------------------
(***************************************************************************)
(* Proofs about CreditFeed, for any transactions, of this database or of   *)
(* another, any calls, payers, merges, margin and page size.               *)
(*                                                                         *)
(* The instants that a page gives bound everything that is not served yet: *)
(* what runs (Vivants), what committed above the horizon (Retenues) and    *)
(* the calls it settles (Tenues).  A bound of the sessions, once read,     *)
(* holds until the page is, whatever commits or starts in between.         *)
(***************************************************************************)
EXTENDS CreditFeed, TLAPS

USE FeedAssumption DEF bd, lecteur, Hold, Absente, Mouvement, Fermes

EnCours(t) == etat[t] = "ecrit"

\* What runs in this database is dated from b on.
Vivants(b) == \A t \in Tx \ ailleurs : EnVie(t) => debut[t] >= b

\* What runs started, and what is not published yet did so less than MARGE ago.
Debuts == \A t \in Tx \ ailleurs : EnVie(t) => /\ debut[t] <= now
                                               /\ etat[t] = "prend" => now - debut[t] <= MARGE

\* The ranks are all different, and the cursor is behind those that run.
LesRangs ==
  /\ prochain > curseur[1]
  /\ \A t \in Tx : EnCours(t) => xid[t] < prochain /\ xid[t] > curseur[1]
  /\ \A t, u \in Tx : EnCours(t) /\ EnCours(u) /\ xid[t] = xid[u] => t = u
  /\ \A m \in mouvements : m.xid < prochain /\ \A t \in Tx : EnCours(t) => m.xid # xid[t]
  /\ \A m, n \in mouvements : m.xid = n.xid /\ m.id = n.id => m = n

Instants ==
  /\ as_of <= now - MARGE /\ complet <= as_of /\ Vivants(as_of)
  /\ \A p \in lecteurs : /\ settled_as_of[p] <= as_of
                         /\ Suivi(p) => releve[p] <= settled_as_of[p]
  /\ lecture => as_of <= borne /\ borne <= now - MARGE /\ Vivants(borne)

\* A movement above a rank that runs.
Retenu(m) == \E t \in Tx : EnCours(t) /\ xid[t] < m.xid
Retenues == \A m \in mouvements : Retenu(m) => m.created >= as_of

NonReglee(a) == hold[a].etat = "open" \/ \E m \in mouvements : m.appel = a /\ Retenu(m)
Tenues ==
  \A p \in lecteurs, a \in Appel :
    Suivi(p) /\ Pour(p, a) /\ NonReglee(a) => hold[a].created >= settled_as_of[p]

\* The inductive invariant.
IInv ==
  /\ TypeOK /\ Debuts /\ LesRangs /\ Instants /\ Retenues /\ Tenues
  /\ RienDerriereLeCurseur /\ PeriodeComplete /\ ReleveComplet

-----------------------------------------------------------------------------
(* The transactions. *)

\* What a commit writes: movements at its rank, and calls that it closes, gives to a payer
\* of a merge, or opens.
Ecrits(t, N) ==
  /\ N \in SUBSET Mouvement /\ mouvements' = mouvements \cup N
  /\ \A n \in N : n.xid = xid[t] /\ n.created = debut[t]
  /\ \A m, n \in N : m.id = n.id => m = n
  /\ \A n \in N : n.appel \in Appel => hold[n.appel].etat = "open"

Change(t, a) ==
  \/ hold'[a] = hold[a]
  \/ /\ hold[a].etat = "open" /\ hold'[a].etat \in Fermes
     /\ hold'[a].payer = hold[a].payer /\ hold'[a].created = hold[a].created
  \/ /\ hold[a].etat = "open" /\ hold'[a].etat = "open"
     /\ hold'[a].payer \in arrivee' /\ hold'[a].created = hold[a].created
  \/ hold[a].etat = "absent" /\ hold'[a].etat = "open" /\ hold'[a].created = debut[t]

\* A commit dates its movements from its start, which no instant has passed, and gives them
\* its rank, which the cursor has not reached.
LEMMA Validation ==
  ASSUME IInv, NEW t \in Tx, Valide(t), NEW N \in SUBSET Mouvement,
         Ecrits(t, N)
  PROVE  /\ Debuts' /\ LesRangs' /\ Retenues' /\ RienDerriereLeCurseur' /\ PeriodeComplete'
         /\ Vivants(as_of)' /\ (lecture => Vivants(borne)')
         /\ \A m \in mouvements : Retenu(m)' => Retenu(m)
         /\ now' \in Int /\ etat' \in [Tx -> {"libre", "prend", "ouverte", "ecrit", "finie"}]
         /\ mouvements' \in SUBSET Mouvement
<1> USE DEF Ecrits
<1>1. /\ etat[t] = "ecrit" /\ t \notin ailleurs /\ etat' = [etat EXCEPT ![t] = "finie"]
      /\ UNCHANGED <<now, debut, xid, prochain, lecteur>>
  BY DEF Valide
<1>2. TypeOK
  BY DEF IInv
<1>3. etat' \in [Tx -> {"libre", "prend", "ouverte", "ecrit", "finie"}]
  BY <1>1, <1>2 DEF TypeOK
<1>4. \A u \in Tx : (EnVie(u)' => EnVie(u) /\ etat'[u] = etat[u]) /\ (EnCours(u)' => EnCours(u))
  BY <1>1, <1>2 DEF TypeOK, EnVie, EnCours
<1>5. Debuts' /\ Vivants(as_of)' /\ (lecture => Vivants(borne)')
  BY <1>1, <1>4 DEF IInv, Debuts, Instants, Vivants
<1>6. \A m \in Mouvement : Retenu(m)' => Retenu(m)
  BY <1>1, <1>4 DEF Retenu
<1>7. LesRangs'
  <2>1. EnCours(t) /\ ~EnCours(t)'
    BY <1>1, <1>2 DEF EnCours, TypeOK
  <2>2. /\ prochain' > curseur'[1]
        /\ \A u \in Tx : EnCours(u)' => xid'[u] < prochain' /\ xid'[u] > curseur'[1]
        /\ \A u, v \in Tx : EnCours(u)' /\ EnCours(v)' /\ xid'[u] = xid'[v] => u = v
    BY <1>1, <1>4 DEF IInv, LesRangs
  <2>3. \A m \in mouvements' : m.xid < prochain'
    BY <1>1, <2>1 DEF IInv, LesRangs
  <2>4. \A m \in mouvements', u \in Tx : EnCours(u)' => m.xid # xid'[u]
    BY <1>1, <1>4, <2>1 DEF IInv, LesRangs
  <2>5. \A m, n \in mouvements' : m.xid = n.xid /\ m.id = n.id => m = n
    BY <2>1 DEF IInv, LesRangs
  <2> QED
    BY <2>2, <2>3, <2>4, <2>5 DEF LesRangs
<1>8. debut[t] >= as_of /\ debut[t] >= complet /\ xid[t] > curseur[1]
  BY <1>1, <1>2 DEF IInv, Instants, Vivants, EnVie, EnCours, LesRangs, TypeOK
<1>9. Retenues'
  BY <1>1, <1>2, <1>6, <1>8 DEF IInv, Retenues, TypeOK
<1>10. RienDerriereLeCurseur'
  BY <1>1, <1>2, <1>8 DEF IInv, RienDerriereLeCurseur, Apres, TypeOK
<1>11. PeriodeComplete'
  BY <1>1, <1>2, <1>8 DEF IInv, PeriodeComplete, TypeOK
<1> QED
  BY <1>1, <1>2, <1>3, <1>5, <1>6, <1>7, <1>9, <1>10, <1>11 DEF TypeOK

\* A commit that leaves the calls as they are, closes some that were open, or opens one
\* dated from the start of its transaction, keeps the invariant.
LEMMA Cloture ==
  ASSUME IInv, NEW t \in Tx, Valide(t), NEW N \in SUBSET Mouvement,
         Ecrits(t, N), \A a \in Appel : Change(t, a),
         hold' \in [Appel -> Hold], arrivee' \in SUBSET Payeur, arrivee \subseteq arrivee'
  PROVE  IInv'
<1> USE DEF Ecrits, Change
<1>1. /\ etat[t] = "ecrit" /\ t \notin ailleurs
      /\ UNCHANGED <<now, debut, xid, prochain, lecteur>>
  BY DEF Valide
<1>2. TypeOK /\ Instants /\ Tenues /\ ReleveComplet
  BY DEF IInv
<1>3. /\ Debuts' /\ LesRangs' /\ Retenues' /\ RienDerriereLeCurseur' /\ PeriodeComplete'
      /\ Vivants(as_of)' /\ (lecture => Vivants(borne)')
      /\ \A m \in mouvements : Retenu(m)' => Retenu(m)
      /\ etat' \in [Tx -> {"libre", "prend", "ouverte", "ecrit", "finie"}]
      /\ mouvements' \in SUBSET Mouvement
  BY Validation
<1>4. TypeOK'
  BY <1>1, <1>2, <1>3 DEF TypeOK
<1>5. \A p \in lecteurs : Suivi(p)' => Suivi(p)
  BY DEF Suivi
<1>6. Instants'
  BY <1>1, <1>2, <1>3, <1>5 DEF Instants
<1>7. debut[t] >= as_of /\ \A p \in lecteurs : settled_as_of[p] <= as_of
  BY <1>1, <1>2 DEF Instants, Vivants, EnVie, TypeOK
<1>8. \A p \in lecteurs, a \in Appel :
        Suivi(p)' /\ Pour(p, a)' /\ hold'[a].etat # "absent" =>
           \/ hold[a].etat # "absent" /\ Pour(p, a) /\ hold'[a].created = hold[a].created
           \/ hold'[a].etat = "open" /\ hold'[a].created = debut[t]
  BY DEF Suivi, Pour
<1>9. Tenues'
  <2> SUFFICES ASSUME NEW p \in lecteurs, NEW a \in Appel,
                      Suivi(p)', Pour(p, a)', NonReglee(a)'
               PROVE  hold'[a].created >= settled_as_of[p]
    BY <1>1 DEF Tenues
  <2>1. /\ hold'[a] \in Hold /\ hold[a] \in Hold /\ settled_as_of[p] \in Int /\ as_of \in Int
        /\ debut[t] \in Int
    BY <1>2, <1>4 DEF TypeOK
  <2>2. CASE hold'[a].etat = "open" /\ hold'[a].created = debut[t]
    BY <1>7, <2>1, <2>2
  <2>3. CASE hold'[a].etat = "absent"
    BY <1>3, <1>5, <2>1, <2>3, <1>2 DEF NonReglee, Tenues, Pour
  <2>4. CASE /\ hold[a].etat # "absent" /\ Pour(p, a) /\ hold'[a].created = hold[a].created
             /\ hold'[a].etat # "absent"
    <3>1. NonReglee(a)
      <4>1. CASE hold'[a].etat = "open"
        BY <2>4, <4>1 DEF NonReglee
      <4>2. CASE \E m \in mouvements' : m.appel = a /\ Retenu(m)'
        BY <1>3, <4>2 DEF NonReglee
      <4> QED
        BY <4>1, <4>2 DEF NonReglee
    <3> QED
      BY <1>2, <1>5, <2>4, <3>1 DEF Tenues
  <2> QED
    BY <1>8, <2>2, <2>3, <2>4
<1>10. ReleveComplet'
  <2> SUFFICES ASSUME NEW p \in lecteurs, NEW a \in Appel, Suivi(p)', Pour(p, a)',
                      hold'[a].etat # "absent", hold'[a].created < releve[p]
               PROVE  /\ hold'[a].etat \in Fermes
                      /\ \A m \in mouvements' : m.appel = a => m \in servis
    BY <1>1 DEF ReleveComplet
  <2>1. releve[p] <= settled_as_of[p] /\ Suivi(p)
    BY <1>2, <1>5 DEF Instants
  <2>2. /\ settled_as_of[p] \in Int /\ as_of \in Int /\ releve[p] \in Int /\ debut[t] \in Int
        /\ hold[a] \in Hold /\ hold'[a] \in Hold
    BY <1>2, <1>4 DEF TypeOK
  <2>3. hold[a].etat # "absent" /\ Pour(p, a) /\ hold'[a].created = hold[a].created
    BY <1>7, <1>8, <2>1, <2>2
  <2>4. hold[a].etat \in Fermes /\ \A m \in mouvements : m.appel = a => m \in servis
    BY <1>2, <2>1, <2>3 DEF ReleveComplet
  <2> QED
    BY <2>2, <2>3, <2>4
<1> QED
  BY <1>3, <1>4, <1>6, <1>9, <1>10 DEF IInv

-----------------------------------------------------------------------------
(* The reader. *)

\* What is retained is above a rank that runs, and conversely.
LEMMA Retention ==
  ASSUME IInv, NEW x \in Rangs, EstMin(x, Rangs)
  PROVE  /\ x \in Nat
         /\ \A m \in mouvements : m.xid >= x <=> Retenu(m)
         /\ x <= prochain /\ \A t \in Tx : EnCours(t) => x <= xid[t]
<1>1. TypeOK /\ LesRangs
  BY DEF IInv
<1>2. x <= prochain /\ x \in Nat /\ \A t \in Tx : EnCours(t) => x <= xid[t]
  BY <1>1 DEF EstMin, Rangs, EnCours, TypeOK
<1>3. ASSUME NEW m \in mouvements, m.xid >= x PROVE Retenu(m)
  <2>1. m.xid \in Nat /\ x # prochain
    BY <1>1, <1>2, <1>3 DEF TypeOK, LesRangs
  <2>2. PICK t \in Tx : EnCours(t) /\ x = xid[t]
    BY <2>1 DEF Rangs, EnCours
  <2> QED
    BY <1>1, <1>2, <1>3, <2>1, <2>2 DEF Retenu, LesRangs
<1>4. ASSUME NEW m \in mouvements, Retenu(m) PROVE m.xid >= x
  BY <1>1, <1>2, <1>4 DEF Retenu, TypeOK
<1> QED
  BY <1>2, <1>3, <1>4

\* A page that takes the first movements after the cursor leaves none behind it.
LEMMA Curseur ==
  ASSUME IInv, NEW x \in Rangs, EstMin(x, Rangs), NEW S \in SUBSET SousHorizon(x),
         Page(S, x), Servir(S)
  PROVE  /\ \A m \in mouvements : m \in servis' \/ Apres(m)'
         /\ curseur' \in Nat \X (0 .. 2) /\ servis' \in SUBSET mouvements
         /\ prochain > curseur'[1] /\ \A t \in Tx : EnCours(t) => xid[t] > curseur'[1]
<1>1. TypeOK /\ LesRangs /\ RienDerriereLeCurseur /\ servis' = servis \cup S
  BY DEF IInv, Servir
<1>2. /\ x \in Nat /\ x <= prochain
      /\ \A t \in Tx : EnCours(t) => x <= xid[t]
  BY Retention
<1>3. servis' \in SUBSET mouvements
  BY <1>1 DEF TypeOK, SousHorizon
<1>4. CASE UNCHANGED curseur
  BY <1>1, <1>3, <1>4 DEF RienDerriereLeCurseur, Apres, TypeOK, LesRangs
<1>5. ASSUME NEW n \in S, \A m \in S : Avant(m, n), curseur' = <<n.xid, n.id>>
      PROVE  /\ \A m \in mouvements : m \in servis' \/ Apres(m)'
             /\ curseur' \in Nat \X (0 .. 2) /\ curseur'[1] < x
  <2>1. n \in mouvements /\ n \in Mouvement /\ n.xid < x
    BY <1>1 DEF SousHorizon, TypeOK
  <2>2. curseur' \in Nat \X (0 .. 2) /\ curseur'[1] = n.xid /\ curseur'[2] = n.id
    BY <1>5, <2>1
  <2>3. ASSUME NEW m \in mouvements, m \notin servis', ~Apres(m)' PROVE FALSE
    <3>1. m \in Mouvement /\ Apres(m)
      BY <1>1, <2>3 DEF RienDerriereLeCurseur, TypeOK
    <3>2. Avant(m, n) /\ m.xid <= n.xid
      BY <2>1, <2>2, <2>3, <3>1 DEF Apres, Avant
    <3>3. m \in SousHorizon(x) \ S
      BY <1>1, <1>2, <2>1, <2>3, <3>1, <3>2 DEF SousHorizon
    <3>4. Avant(n, m)
      BY <3>3 DEF Page
    <3>5. m.xid = n.xid /\ m.id = n.id
      BY <2>1, <3>1, <3>2, <3>4 DEF Avant
    <3> QED
      BY <1>1, <2>1, <3>3, <3>5 DEF LesRangs
  <2> QED
    BY <2>1, <2>2, <2>3
<1>6. CASE ~UNCHANGED curseur
  <2>1. PICK n \in S : (\A m \in S : Avant(m, n)) /\ curseur' = <<n.xid, n.id>>
    BY <1>6 DEF Servir
  <2>2. /\ \A m \in mouvements : m \in servis' \/ Apres(m)'
        /\ curseur' \in Nat \X (0 .. 2) /\ curseur'[1] < x
    BY <1>5, <2>1
  <2> QED
    BY <1>1, <1>2, <1>3, <2>2 DEF TypeOK
<1> QED
  BY <1>4, <1>6

\* The two instants of a page bound what it does not serve, and neither recedes.
LEMMA LesInstants ==
  ASSUME IInv, lecture, NEW x \in Rangs, EstMin(x, Rangs),
         NEW b \in AsOf(x), EstMin(b, AsOf(x))
  PROVE  /\ b \in Int /\ as_of <= b /\ b <= borne
         /\ \A m \in mouvements : Retenu(m) => m.created >= b
<1>1. TypeOK /\ Instants /\ Retenues
  BY DEF IInv
<1>2. \A m \in mouvements : m.xid >= x <=> Retenu(m)
  BY Retention
<1>3. b <= borne /\ \A m \in mouvements : Retenu(m) => m.created >= b
  BY <1>2 DEF EstMin, AsOf, Retenus
<1>4. b = borne \/ \E m \in mouvements : Retenu(m) /\ b = m.created
  BY <1>2 DEF AsOf, Retenus
<1> QED
  BY <1>1, <1>3, <1>4 DEF TypeOK, Instants, Retenues

LEMMA LesReglements ==
  ASSUME IInv, lecture, NEW x \in Rangs, EstMin(x, Rangs),
         NEW b \in AsOf(x), EstMin(b, AsOf(x)), NEW p \in lecteurs,
         NEW c \in SettledAsOf(p, b, x), EstMin(c, SettledAsOf(p, b, x))
  PROVE  /\ c \in Int /\ c <= b /\ (Suivi(p) => settled_as_of[p] <= c)
         /\ \A a \in Appel : Pour(p, a) /\ NonReglee(a) => hold[a].created >= c
<1>1. TypeOK /\ Instants /\ Tenues /\ b \in Int /\ as_of <= b
  BY LesInstants DEF IInv
<1>2. \A m \in mouvements : m.xid >= x <=> Retenu(m)
  BY Retention
<1>3. \A a \in Appel : a \in NonReglees(x) <=> NonReglee(a)
  BY <1>2 DEF NonReglees, Retenus, NonReglee
<1>4. c <= b /\ \A a \in Appel : Pour(p, a) /\ NonReglee(a) => hold[a].created >= c
  BY <1>3 DEF EstMin, SettledAsOf
<1>5. c = b \/ \E a \in Appel : Pour(p, a) /\ NonReglee(a) /\ c = hold[a].created
  <2>1. c = b \/ \E a \in NonReglees(x) : Pour(p, a) /\ c = hold[a].created
    BY DEF SettledAsOf
  <2>2. NonReglees(x) \subseteq Appel
    BY DEF NonReglees
  <2> QED
    BY <1>3, <2>1, <2>2
<1>6. c \in Int
  BY <1>1, <1>5 DEF TypeOK
<1>7. ASSUME Suivi(p) PROVE settled_as_of[p] <= c
  <2>1. settled_as_of[p] \in Int /\ as_of \in Int /\ settled_as_of[p] <= as_of
    BY <1>1 DEF TypeOK, Instants
  <2>2. CASE c = b
    BY <1>1, <2>1, <2>2
  <2>3. CASE \E a \in Appel : Pour(p, a) /\ NonReglee(a) /\ c = hold[a].created
    BY <1>1, <1>7, <2>3 DEF Tenues
  <2> QED
    BY <1>5, <2>2, <2>3
<1> QED
  BY <1>4, <1>6, <1>7

LEMMA Lecture ==
  ASSUME IInv, page_de_mouvements
  PROVE  /\ IInv'
         /\ as_of' >= as_of
         /\ \A p \in lecteurs : Suivi(p)' => settled_as_of'[p] >= settled_as_of[p]
<1>1. PICK x \in Rangs :
        /\ EstMin(x, Rangs)
        /\ \E b \in AsOf(x) :
             /\ EstMin(b, AsOf(x)) /\ as_of' = b
             /\ settled_as_of' \in [lecteurs -> SettledAsOf(Tous, b, x)]
             /\ \A p \in lecteurs : EstMin(settled_as_of'[p], SettledAsOf(p, b, x))
        /\ \E S \in SUBSET SousHorizon(x) : Page(S, x) /\ Servir(S)
  BY DEF page_de_mouvements
<1>2. PICK b \in AsOf(x) :
        /\ EstMin(b, AsOf(x)) /\ as_of' = b
        /\ settled_as_of' \in [lecteurs -> SettledAsOf(Tous, b, x)]
        /\ \A p \in lecteurs : EstMin(settled_as_of'[p], SettledAsOf(p, b, x))
  BY <1>1
<1>3. PICK S \in SUBSET SousHorizon(x) : Page(S, x) /\ Servir(S)
  BY <1>1
<1>4. lecture /\ lecture' = FALSE /\ UNCHANGED <<bd, borne>>
  BY DEF page_de_mouvements
<1>5. /\ TypeOK /\ Debuts /\ LesRangs /\ Instants /\ Retenues
      /\ RienDerriereLeCurseur /\ PeriodeComplete /\ ReleveComplet
  BY DEF IInv
<1>6. /\ as_of' \in Int /\ as_of <= as_of' /\ as_of' <= borne
      /\ \A m \in mouvements : Retenu(m) => m.created >= as_of'
  BY <1>1, <1>2, <1>4, LesInstants
<1>7. \A p \in lecteurs :
        /\ settled_as_of'[p] \in Int /\ settled_as_of'[p] <= as_of'
        /\ Suivi(p) => settled_as_of[p] <= settled_as_of'[p]
        /\ \A a \in Appel : Pour(p, a) /\ NonReglee(a) => hold[a].created >= settled_as_of'[p]
  <2> SUFFICES ASSUME NEW p \in lecteurs
               PROVE  /\ settled_as_of'[p] \in Int /\ settled_as_of'[p] <= as_of'
                      /\ Suivi(p) => settled_as_of[p] <= settled_as_of'[p]
                      /\ \A a \in Appel : Pour(p, a) /\ NonReglee(a)
                                            => hold[a].created >= settled_as_of'[p]
    OBVIOUS
  <2>1. /\ settled_as_of'[p] \in SettledAsOf(p, b, x)
        /\ EstMin(settled_as_of'[p], SettledAsOf(p, b, x))
    BY <1>2 DEF EstMin
  <2> QED
    BY <1>1, <1>2, <1>4, <2>1, LesReglements
<1>8. /\ \A m \in mouvements : m \in servis' \/ Apres(m)'
      /\ curseur' \in Nat \X (0 .. 2) /\ servis' \in SUBSET mouvements
      /\ prochain > curseur'[1] /\ \A t \in Tx : EnCours(t) => xid[t] > curseur'[1]
  BY <1>1, <1>3, Curseur
<1>9. settled_as_of' \in [lecteurs -> Int]
  BY <1>2, <1>7
\* A movement that is neither served nor on the page is retained, when the feed was read
\* to its end.
<1>10. /\ servis \subseteq servis'
       /\ \/ UNCHANGED <<complet, releve>>
          \/ /\ complet' = as_of' /\ releve' = settled_as_of'
             /\ \A m \in mouvements : m \in servis' \/ Retenu(m)
  <2>1. servis' = servis \cup S
    BY <1>3 DEF Servir
  <2>2. ASSUME Cardinality(S) < limite PROVE \A m \in mouvements : m \in servis' \/ Retenu(m)
    <3>1. S = SousHorizon(x)
      BY <1>3, <2>2 DEF Page
    <3> SUFFICES ASSUME NEW m \in mouvements, ~Retenu(m) PROVE m \in servis'
      OBVIOUS
    <3>2. m.xid < x
      <4>1. ~(m.xid >= x) /\ x \in Nat
        BY <1>1, Retention
      <4> QED
        BY <1>5, <4>1 DEF TypeOK
    <3> QED
      BY <1>5, <2>1, <3>1, <3>2 DEF RienDerriereLeCurseur, SousHorizon
  <2> QED
    BY <1>3, <2>1, <2>2 DEF Servir
<1>11. \A m : Retenu(m)' <=> Retenu(m)
  BY <1>4 DEF Retenu, EnCours
<1>12. \A p : Suivi(p)' <=> Suivi(p)
  BY <1>4 DEF Suivi
<1>13. TypeOK'
  BY <1>4, <1>5, <1>6, <1>8, <1>9, <1>10 DEF TypeOK
<1>14. Debuts' /\ LesRangs' /\ Retenues' /\ RienDerriereLeCurseur'
  <2>1. Debuts'
    BY <1>4, <1>5 DEF Debuts, EnVie
  <2>2. LesRangs'
    BY <1>4, <1>5, <1>8 DEF LesRangs, EnCours
  <2>3. Retenues'
    BY <1>4, <1>6, <1>11 DEF Retenues
  <2> QED
    BY <1>4, <1>8, <2>1, <2>2, <2>3 DEF RienDerriereLeCurseur
<1>15. Instants'
  <2>1. as_of' <= now' - MARGE /\ Vivants(as_of)'
    BY <1>4, <1>5, <1>6 DEF Instants, Vivants, EnVie, TypeOK
  <2>2. complet' <= as_of'
    BY <1>5, <1>6, <1>10 DEF Instants, TypeOK
  <2>3. \A p \in lecteurs : Suivi(p)' => releve'[p] <= settled_as_of'[p]
    BY <1>5, <1>7, <1>9, <1>10, <1>12 DEF Instants, TypeOK
  <2> QED
    BY <1>4, <1>7, <2>1, <2>2, <2>3 DEF Instants
<1>16. Tenues'
  BY <1>4, <1>7, <1>11 DEF Tenues, Pour, NonReglee
<1>17. PeriodeComplete'
  <2> SUFFICES ASSUME NEW m \in mouvements, m.created < complet' PROVE m \in servis'
    BY <1>4 DEF PeriodeComplete
  <2>1. CASE UNCHANGED complet
    BY <1>5, <1>10, <2>1 DEF PeriodeComplete
  <2>2. CASE complet' = as_of' /\ (m \in servis' \/ Retenu(m))
    BY <1>5, <1>6, <2>2 DEF TypeOK
  <2> QED
    BY <1>10, <2>1, <2>2
<1>18. ReleveComplet'
  <2> SUFFICES ASSUME NEW p \in lecteurs, NEW a \in Appel, Suivi(p), Pour(p, a),
                      hold[a].etat # "absent", hold[a].created < releve'[p]
               PROVE  /\ hold[a].etat \in Fermes
                      /\ \A m \in mouvements : m.appel = a => m \in servis'
    BY <1>4, <1>12 DEF ReleveComplet, Pour
  <2>1. CASE UNCHANGED releve
    BY <1>5, <1>10, <2>1 DEF ReleveComplet
  <2>2. CASE /\ releve' = settled_as_of'
             /\ \A m \in mouvements : m \in servis' \/ Retenu(m)
    <3>1. hold[a] \in Hold /\ settled_as_of'[p] \in Int
      BY <1>5, <1>7 DEF TypeOK
    <3>2. ~NonReglee(a)
      BY <1>7, <2>2, <3>1
    <3> QED
      BY <2>2, <3>1, <3>2 DEF NonReglee
  <2> QED
    BY <1>10, <2>1, <2>2
<1> QED
  BY <1>6, <1>7, <1>12, <1>13, <1>14, <1>15, <1>16, <1>17, <1>18 DEF IInv, TypeOK

-----------------------------------------------------------------------------
(* The theorems. *)

LEMMA InitInv == Init => IInv
<1> SUFFICES ASSUME Init PROVE IInv
  OBVIOUS
<1>1. TypeOK
  <2>1. -MARGE \in Int /\ <<0, 0>> \in Nat \X (0 .. 2) /\ Absente \in Hold
    OBVIOUS
  <2> DEFINE i == -MARGE
  <2>2. settled_as_of \in [lecteurs -> Int] /\ releve \in [lecteurs -> Int]
    <3>1. settled_as_of = [p \in lecteurs |-> i] /\ releve = [p \in lecteurs |-> i] /\ i \in Int
      BY <2>1 DEF Init
    <3> HIDE DEF i
    <3> QED
      BY <3>1
  <2>3. hold \in [Appel -> Hold]
    BY <2>1 DEF Init
  <2>4. now \in Int /\ prochain \in Nat
    BY DEF Init
  <2>5. lecture \in BOOLEAN
    BY DEF Init
  <2>6. borne \in Int /\ as_of \in Int /\ complet \in Int
    <3>1. borne = i /\ as_of = i /\ complet = i /\ i \in Int
      BY <2>1 DEF Init
    <3> HIDE DEF i
    <3> QED
      BY <3>1
  <2>7. /\ curseur \in Nat \X (0 .. 2) /\ mouvements \in SUBSET Mouvement
        /\ servis \in SUBSET mouvements /\ arrivee \in SUBSET Payeur
    BY <2>1 DEF Init
  <2>8. /\ etat \in [Tx -> {"libre", "prend", "ouverte", "ecrit", "finie"}]
        /\ debut \in [Tx -> Int] /\ xid \in [Tx -> Nat]
    BY DEF Init
  <2> QED
    BY <2>2, <2>3, <2>4, <2>5, <2>6, <2>7, <2>8 DEF TypeOK
<1>2. /\ Debuts /\ LesRangs /\ Instants /\ Retenues /\ Tenues
      /\ RienDerriereLeCurseur /\ PeriodeComplete /\ ReleveComplet
  BY DEF Init, Debuts, LesRangs, Instants, Vivants, EnVie, EnCours, Retenues, Tenues, NonReglee,
         RienDerriereLeCurseur, PeriodeComplete, ReleveComplet
<1> QED
  BY <1>1, <1>2 DEF IInv

\* A step of a transaction that commits nothing, or of the clock.
LEMMA Attente ==
  ASSUME IInv, NEW t \in Tx, Commence(t) \/ Publie(t) \/ Ecrit(t) \/ Finit(t) \/ Tic
  PROVE  IInv'
<1>1. TypeOK
  BY DEF IInv
<1>2. UNCHANGED <<hold, mouvements, arrivee, lecteur>>
  BY DEF Commence, Publie, Ecrit, Finit, Tic
<1>3. TypeOK'
  BY <1>1, <1>2 DEF TypeOK, Commence, Publie, Ecrit, Finit, Tic
<1>4. Debuts'
  BY <1>1 DEF IInv, TypeOK, Debuts, EnVie, Commence, Publie, Ecrit, Finit, Tic
<1>5. LesRangs'
  <2>1. CASE Ecrit(t)
    BY <1>1, <2>1 DEF IInv, TypeOK, LesRangs, EnCours, Ecrit
  <2>2. CASE Commence(t) \/ Publie(t) \/ Finit(t) \/ Tic
    <3>1. UNCHANGED <<xid, prochain, mouvements, curseur>>
      BY <2>2 DEF Commence, Publie, Finit, Tic
    <3>2. \A u \in Tx : EnCours(u)' => EnCours(u)
      BY <1>1, <2>2 DEF TypeOK, EnCours, Commence, Publie, Finit, Tic
    <3> QED
      BY <3>1, <3>2 DEF IInv, LesRangs
  <2> QED
    BY <2>1, <2>2
<1>6. \A m \in mouvements : Retenu(m)' => Retenu(m)
  <2>1. CASE Ecrit(t)
    BY <1>1, <2>1 DEF IInv, TypeOK, LesRangs, Retenu, EnCours, Ecrit
  <2>2. CASE Commence(t) \/ Publie(t) \/ Finit(t) \/ Tic
    BY <1>1, <2>2 DEF TypeOK, Retenu, EnCours, Commence, Publie, Finit, Tic
  <2> QED
    BY <2>1, <2>2
<1>7. ASSUME NEW b \in Int, Vivants(b), b <= now - MARGE
      PROVE  Vivants(b)' /\ b <= now' - MARGE
  BY <1>1, <1>7 DEF TypeOK, Vivants, EnVie, Commence, Publie, Ecrit, Finit, Tic
<1>8. Instants'
  BY <1>1, <1>2, <1>7 DEF IInv, TypeOK, Instants, Suivi, Vivants
<1>9. Retenues' /\ Tenues'
  BY <1>2, <1>6 DEF IInv, Retenues, Tenues, NonReglee, Pour, Suivi
<1>10. RienDerriereLeCurseur' /\ PeriodeComplete' /\ ReleveComplet'
  BY <1>2 DEF IInv, RienDerriereLeCurseur, PeriodeComplete, ReleveComplet, Apres, Pour, Suivi
<1> QED
  BY <1>3, <1>4, <1>5, <1>8, <1>9, <1>10 DEF IInv

\* The bound of the sessions covers what is not published yet, thanks to the margin.
LEMMA Sessions == ASSUME IInv, LireLesSessions PROVE IInv'
<1>1. PICK b \in _SESSIONS_ECRIVANTES : EstMin(b, _SESSIONS_ECRIVANTES) /\ borne' = b
  BY DEF LireLesSessions
<1>2. TypeOK /\ Debuts /\ Instants /\ lecture' = TRUE
      /\ UNCHANGED <<bd, as_of, settled_as_of, curseur, servis, complet, releve>>
  BY DEF IInv, LireLesSessions
<1>3. b \in Int /\ b <= now - MARGE
  <2>1. /\ b <= now - MARGE
        /\ b = now - MARGE \/ \E t \in Tx : b = debut[t]
    BY <1>1 DEF EstMin, _SESSIONS_ECRIVANTES
  <2> QED
    BY <1>2, <2>1 DEF TypeOK
<1>4. Vivants(b)
  <2> SUFFICES ASSUME NEW t \in Tx \ ailleurs, EnVie(t) PROVE debut[t] >= b
    BY DEF Vivants
  <2>1. CASE etat[t] = "prend"
    BY <1>2, <1>3, <2>1 DEF Debuts, EnVie, TypeOK
  <2>2. CASE etat[t] \in {"ouverte", "ecrit"}
    BY <1>1, <2>2 DEF EstMin, _SESSIONS_ECRIVANTES
  <2> QED
    BY <2>1, <2>2 DEF EnVie
<1>5. as_of <= b
  BY <1>1, <1>2 DEF EstMin, _SESSIONS_ECRIVANTES, Instants, Vivants, EnVie
<1>6. TypeOK' /\ Instants'
  BY <1>1, <1>2, <1>3, <1>4, <1>5 DEF TypeOK, Instants, Vivants, EnVie, Suivi
<1>7. /\ Debuts' /\ LesRangs' /\ Retenues' /\ Tenues'
      /\ RienDerriereLeCurseur' /\ PeriodeComplete' /\ ReleveComplet'
  BY <1>2 DEF IInv, Debuts, EnVie, LesRangs, EnCours, Retenues, Retenu, Tenues, NonReglee, Pour,
              Suivi, RienDerriereLeCurseur, PeriodeComplete, ReleveComplet, Apres
<1> QED
  BY <1>6, <1>7 DEF IInv

\* The calls that a commit opens, closes or gives to another payer.
LEMMA Budget ==
  ASSUME IInv, NEW t \in Tx,
         \/ verser(t) \/ (\E a \in Appel, p \in Payeur : reserver(t, a, p))
         \/ (\E a \in Appel : regler(t, a) \/ liberer(t, a))
         \/ (\E p, q \in Payeur : suivre_le_solde(t, p, q))
  PROVE  IInv'
<1>1. TypeOK
  BY DEF IInv
<1>2. \A i \in 1 .. 2, a \in Appel \cup {NoAppel} :
        /\ Mvt(t, i, a) \in Mouvement
        /\ Mvt(t, i, a).xid = xid[t] /\ Mvt(t, i, a).created = debut[t]
        /\ Mvt(t, i, a).id = i /\ Mvt(t, i, a).appel = a
  BY <1>1 DEF Mvt, TypeOK
<1>3. CASE verser(t)
  <2> DEFINE N == {Mvt(t, 1, NoAppel)}
  <2>1. N \in SUBSET Mouvement /\ Ecrits(t, N)
    BY <1>2, <1>3 DEF verser, Ecrits
  <2>2. Valide(t) /\ UNCHANGED <<hold, arrivee>> /\ \A a \in Appel : Change(t, a)
    BY <1>3 DEF verser, Change
  <2> HIDE DEF N
  <2> QED
    BY <1>1, <2>1, <2>2, Cloture DEF TypeOK
<1>4. ASSUME NEW a \in Appel, NEW p \in Payeur, reserver(t, a, p) PROVE IInv'
  <2> DEFINE h == [etat |-> "open", payer |-> p, created |-> debut[t]]
  <2>1. h \in Hold /\ h.etat = "open" /\ h.created = debut[t]
    BY <1>1 DEF TypeOK
  <2> HIDE DEF h
  <2>2. /\ Valide(t) /\ hold[a].etat = "absent" /\ hold' = [hold EXCEPT ![a] = h]
        /\ UNCHANGED <<mouvements, arrivee>>
    BY <1>4 DEF reserver, h
  <2>3. hold' \in [Appel -> Hold] /\ hold'[a] = h /\ \A c \in Appel \ {a} : hold'[c] = hold[c]
    BY <1>1, <2>1, <2>2 DEF TypeOK
  <2>4. Ecrits(t, {}) /\ \A c \in Appel : Change(t, c)
    BY <2>1, <2>2, <2>3 DEF Ecrits, Change
  <2> QED
    BY <1>1, <2>1, <2>2, <2>3, <2>4, Cloture DEF TypeOK
<1>5. ASSUME NEW a \in Appel, NEW e \in Fermes, Valide(t), hold[a].etat = "open",
             hold' = [hold EXCEPT ![a].etat = e], UNCHANGED arrivee,
             mouvements' = mouvements \cup {Mvt(t, 1, a)} \/ UNCHANGED mouvements
      PROVE  IInv'
  <2>1. hold[a] \in Hold /\ hold[a] # Absente
    BY <1>1, <1>5 DEF TypeOK
  <2>2. [hold[a] EXCEPT !.etat = e] \in Hold
    BY <2>1
  <2>3. /\ hold' \in [Appel -> Hold] /\ \A c \in Appel \ {a} : hold'[c] = hold[c]
        /\ hold'[a].etat = e /\ hold'[a].payer = hold[a].payer /\ hold'[a].created = hold[a].created
    BY <1>1, <1>5, <2>1, <2>2 DEF TypeOK
  <2>4. \A c \in Appel : Change(t, c)
    BY <1>5, <2>3 DEF Change
  <2>5. CASE mouvements' = mouvements \cup {Mvt(t, 1, a)}
    <3> DEFINE N == {Mvt(t, 1, a)}
    <3>1. N \in SUBSET Mouvement /\ Ecrits(t, N)
      BY <1>2, <1>5, <2>5 DEF Ecrits
    <3> HIDE DEF N
    <3> QED
      BY <1>1, <1>5, <2>3, <2>4, <3>1, Cloture DEF TypeOK
  <2>6. CASE UNCHANGED mouvements
    <3>1. Ecrits(t, {})
      BY <2>6 DEF Ecrits
    <3> QED
      BY <1>1, <1>5, <2>3, <2>4, <3>1, Cloture DEF TypeOK
  <2> QED
    BY <1>5, <2>5, <2>6
<1>6. ASSUME NEW a \in Appel, regler(t, a) \/ liberer(t, a) PROVE IInv'
  BY <1>5, <1>6 DEF regler, liberer
<1>7. ASSUME NEW p \in Payeur, NEW q \in Payeur, suivre_le_solde(t, p, q) PROVE IInv'
  <2> DEFINE N == {Mvt(t, 1, NoAppel), Mvt(t, 2, NoAppel)}
  <2>1. N \in SUBSET Mouvement /\ Ecrits(t, N)
    BY <1>2, <1>7 DEF suivre_le_solde, Ecrits
  <2>2. Valide(t) /\ arrivee' = arrivee \cup {q}
    BY <1>7 DEF suivre_le_solde
  <2>3. ASSUME NEW a \in Appel
        PROVE  \/ hold'[a] = hold[a]
               \/ /\ hold[a].etat = "open" /\ hold'[a].etat = "open" /\ hold'[a].payer = q
                  /\ hold'[a].created = hold[a].created /\ hold'[a] \in Hold
    <3>1. hold[a] \in Hold
      BY <1>1 DEF TypeOK
    <3>2. CASE hold[a].etat = "open" /\ hold[a].payer = p
      <4>1. hold'[a] = [hold[a] EXCEPT !.payer = q] /\ hold[a] # Absente
        BY <1>7, <3>2 DEF suivre_le_solde
      <4> QED
        BY <3>1, <3>2, <4>1
    <3>3. CASE ~(hold[a].etat = "open" /\ hold[a].payer = p)
      BY <1>7, <3>3 DEF suivre_le_solde
    <3> QED
      BY <3>2, <3>3
  <2>4. hold' \in [Appel -> Hold]
    <3>1. hold' = [a \in Appel |-> hold'[a]]
      BY <1>7 DEF suivre_le_solde
    <3>2. \A a \in Appel : hold'[a] \in Hold
      BY <1>1, <2>3 DEF TypeOK
    <3> QED
      BY <3>1, <3>2
  <2> HIDE DEF N
  <2>5. /\ arrivee' \in SUBSET Payeur /\ arrivee \subseteq arrivee' /\ \A a \in Appel : Change(t, a)
    BY <1>1, <2>2, <2>3 DEF TypeOK, Change
  <2> QED
    BY <1>1, <2>1, <2>2, <2>4, <2>5, Cloture
<1> QED
  BY <1>3, <1>4, <1>6, <1>7

LEMMA StepInv == IInv /\ [Next]_vars => IInv'
<1> SUFFICES ASSUME IInv, [Next]_vars PROVE IInv'
  OBVIOUS
<1>1. ASSUME NEW t \in Tx, Commence(t) \/ Transaction(t) PROVE IInv'
  BY <1>1, Attente, Budget DEF Transaction
<1>2. CASE Tic
  <2>1. CASE \E t \in Tx : TRUE
    BY <1>2, <2>1, Attente
  <2>2. CASE Tx = {}
    BY <1>2, <2>2 DEF IInv, Tic, TypeOK, Debuts, LesRangs, Instants, Vivants, Retenues, Tenues,
       Retenu, NonReglee, Pour, Suivi, RienDerriereLeCurseur, PeriodeComplete, ReleveComplet, Apres
  <2> QED
    BY <2>1, <2>2
<1>3. CASE LireLesSessions
  BY <1>3, Sessions
<1>4. CASE page_de_mouvements
  BY <1>4, Lecture
<1>5. CASE UNCHANGED vars
  BY <1>5 DEF vars, IInv, TypeOK, Debuts, EnVie, LesRangs, EnCours, Instants, Vivants, Retenues,
     Retenu, Tenues, NonReglee, Pour, Suivi, RienDerriereLeCurseur, PeriodeComplete,
     ReleveComplet, Apres
<1> QED
  BY <1>1, <1>2, <1>3, <1>4, <1>5 DEF Next

THEOREM Invariance == Spec => []IInv
<1> QED
  BY InitInv, StepInv, PTL DEF Spec

\* The shapes.
THEOREM TypeCorrect == Spec => []TypeOK
<1>1. IInv => TypeOK
  BY DEF IInv
<1> QED
  BY <1>1, Invariance, PTL

\* The cursor of page_de_mouvements misses no movement, whatever commits late, at any size
\* of page.
THEOREM NothingBehindTheCursor == Spec => []RienDerriereLeCurseur
<1>1. IInv => RienDerriereLeCurseur
  BY DEF IInv
<1> QED
  BY <1>1, Invariance, PTL

\* A period that ends before an `as_of` is complete once the feed is read to its end, and the
\* calls reserved before a `settled_as_of` are all closed, their settlements served.
THEOREM PageKeepsItsWord == Spec => []PageTientParole
<1>1. IInv => PageTientParole
  BY DEF IInv, PageTientParole
<1> QED
  BY <1>1, Invariance, PTL

\* The two instants never recede, but for a payer that a merge brought calls to.
THEOREM InstantsNeverRecede == Spec => Monotone
<1>1. IInv /\ [Next]_vars
        => [/\ as_of' >= as_of
            /\ \A p \in lecteurs :
                 p = Tous \/ p \notin arrivee' => settled_as_of'[p] >= settled_as_of[p]]_vars
  <2> SUFFICES ASSUME IInv, Next
               PROVE  /\ as_of' >= as_of
                      /\ \A p \in lecteurs : p = Tous \/ p \notin arrivee'
                                               => settled_as_of'[p] >= settled_as_of[p]
    OBVIOUS
  <2>1. TypeOK
    BY DEF IInv
  <2>2. CASE UNCHANGED <<as_of, settled_as_of>>
    BY <2>1, <2>2 DEF TypeOK
  <2>3. CASE page_de_mouvements
    BY <2>3, Lecture DEF Suivi
  <2> QED
    BY <2>2, <2>3 DEF Next, Transaction, Commence, Publie, Ecrit, Finit, Valide, verser, reserver,
       regler, liberer, suivre_le_solde, Tic, LireLesSessions
<1> QED
  BY <1>1, Invariance, PTL DEF Spec, Monotone

=============================================================================
