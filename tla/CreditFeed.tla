------------------------------ MODULE CreditFeed ------------------------------
(***************************************************************************)
(* The movements of the units budget as the commerce reads them:           *)
(* src/oto_mcp/db/credits.py page_de_mouvements, over the transactions of  *)
(* the budget (verser, reserver, regler, liberer, suivre_le_solde).        *)
(*                                                                         *)
(* PostgreSQL is external.  A transaction takes the time of what it writes *)
(* (NOW()) when it starts, is published in pg_stat_activity a little later,*)
(* gets its rank (xid) when it first writes, and shows its writes when it  *)
(* commits; those on one call or on one payer wait for each other (the     *)
(* locks of the hold and of the balance), hence the guards of Valide.  The *)
(* reader lists the sessions, then reads the page in one snapshot.         *)
(***************************************************************************)
EXTENDS Integers, FiniteSets

CONSTANTS Tx,          \* transactions, of any process
          ailleurs,    \* those of another database of the server
          Appel, Payeur,
          fusions,     \* pairs of accounts that may be merged
          lecteurs,    \* whose `settled_as_of` is read: a payer, or all of them (Tous)
          MARGE,       \* _MARGE_S
          limite,      \* of a page
          MaxT,        \* bound of the model: the clock
          Tous, NoAppel, NoOne

ASSUME FeedAssumption ==
  /\ ailleurs \subseteq Tx
  /\ fusions \subseteq Payeur \X Payeur /\ lecteurs \subseteq Payeur \cup {Tous}
  /\ MARGE \in Nat /\ limite \in Nat \ {0} /\ MaxT \in Nat
  /\ Tous \notin Payeur /\ NoAppel \notin Appel /\ NoOne \notin Payeur

VARIABLES
  now,
  etat, debut, xid,       \* of a transaction
  prochain,               \* the next rank
  hold,                   \* credit_holds
  mouvements,             \* credit_movements, committed
  lecture, borne,         \* between the two reads of the reader
  as_of, settled_as_of,   \* what the last page said
  curseur, servis,        \* where the reader is, what it was served
  complet, releve,        \* history: as_of and settled_as_of of a page that ended the feed
  arrivee                 \* history: the payers a merge brought holds to

bd == <<now, etat, debut, xid, prochain, hold, mouvements, arrivee>>
lecteur == <<lecture, borne, as_of, settled_as_of, curseur, servis, complet, releve>>
vars == <<bd, lecteur>>

Fermes == {"settled", "released"}
Absente == [etat |-> "absent", payer |-> NoOne, created |-> 0]
Hold == {Absente} \cup [etat : {"open"} \cup Fermes, payer : Payeur, created : Int]
Mouvement == [xid : Nat, id : 1 .. 2, created : Int, appel : Appel \cup {NoAppel}]

\* The calls, the pages and their instants keep their shape: what was not reserved is not
\* settled.
TypeOK ==
  /\ now \in Int /\ etat \in [Tx -> {"libre", "prend", "ouverte", "ecrit", "finie"}]
  /\ debut \in [Tx -> Int] /\ xid \in [Tx -> Nat] /\ prochain \in Nat
  /\ hold \in [Appel -> Hold] /\ mouvements \in SUBSET Mouvement
  /\ lecture \in BOOLEAN /\ borne \in Int
  /\ as_of \in Int /\ settled_as_of \in [lecteurs -> Int]
  /\ curseur \in Nat \X (0 .. 2) /\ servis \in SUBSET mouvements
  /\ complet \in Int /\ releve \in [lecteurs -> Int] /\ arrivee \in SUBSET Payeur

Init ==
  /\ now = 0 /\ etat = [t \in Tx |-> "libre"] /\ debut = [t \in Tx |-> 0]
  /\ xid = [t \in Tx |-> 0] /\ prochain = 1
  /\ hold = [a \in Appel |-> Absente]
  /\ mouvements = {} /\ arrivee = {}
  /\ lecture = FALSE /\ borne = -MARGE
  /\ as_of = -MARGE /\ settled_as_of = [p \in lecteurs |-> -MARGE]
  /\ curseur = <<0, 0>> /\ servis = {}
  /\ complet = -MARGE /\ releve = [p \in lecteurs |-> -MARGE]

-----------------------------------------------------------------------------
(* Transactions. *)

EnVie(t) == etat[t] \in {"prend", "ouverte", "ecrit"}

\* NOW() is taken, but not published yet.
Commence(t) ==
  /\ etat[t] = "libre" /\ t \notin ailleurs
  /\ etat' = [etat EXCEPT ![t] = "prend"] /\ debut' = [debut EXCEPT ![t] = now]
  /\ UNCHANGED <<now, xid, prochain, hold, mouvements, arrivee, lecteur>>
Publie(t) ==
  /\ etat[t] = "prend" /\ etat' = [etat EXCEPT ![t] = "ouverte"]
  /\ UNCHANGED <<now, debut, xid, prochain, hold, mouvements, arrivee, lecteur>>

\* The first write gives its rank to the transaction; of one of another database, only the
\* rank is seen.
Ecrit(t) ==
  /\ etat[t] = (IF t \in ailleurs THEN "libre" ELSE "ouverte")
  /\ etat' = [etat EXCEPT ![t] = "ecrit"]
  /\ xid' = [xid EXCEPT ![t] = prochain] /\ prochain' = prochain + 1
  /\ UNCHANGED <<now, debut, hold, mouvements, arrivee, lecteur>>

\* It ends without a write, or undoes what it wrote; the one of another database too.
Finit(t) ==
  /\ etat[t] \in {"ouverte", "ecrit"} /\ etat' = [etat EXCEPT ![t] = "finie"]
  /\ UNCHANGED <<now, debut, xid, prochain, hold, mouvements, arrivee, lecteur>>

Valide(t) ==
  /\ etat[t] = "ecrit" /\ t \notin ailleurs /\ etat' = [etat EXCEPT ![t] = "finie"]
  /\ UNCHANGED <<now, debut, xid, prochain, lecteur>>

Mvt(t, i, a) == [xid |-> xid[t], id |-> i, created |-> debut[t], appel |-> a]

verser(t) ==
  /\ Valide(t)
  /\ mouvements' = mouvements \cup {Mvt(t, 1, NoAppel)}
  /\ UNCHANGED <<hold, arrivee>>

reserver(t, a, p) ==
  /\ Valide(t)
  /\ hold[a].etat = "absent"
  /\ hold' = [hold EXCEPT ![a] = [etat |-> "open", payer |-> p, created |-> debut[t]]]
  /\ UNCHANGED <<mouvements, arrivee>>

\* A settlement, or an expiry.
regler(t, a) ==
  /\ Valide(t)
  /\ hold[a].etat = "open"
  /\ hold' = [hold EXCEPT ![a].etat = "settled"]
  /\ mouvements' = mouvements \cup {Mvt(t, 1, a)}
  /\ UNCHANGED arrivee

liberer(t, a) ==
  /\ Valide(t)
  /\ hold[a].etat = "open"
  /\ hold' = [hold EXCEPT ![a].etat = "released"]
  /\ UNCHANGED <<mouvements, arrivee>>

suivre_le_solde(t, p, q) ==
  /\ Valide(t) /\ <<p, q>> \in fusions
  /\ hold' = [a \in Appel |-> IF hold[a].etat = "open" /\ hold[a].payer = p
                              THEN [hold[a] EXCEPT !.payer = q] ELSE hold[a]]
  /\ mouvements' = mouvements \cup {Mvt(t, 1, NoAppel), Mvt(t, 2, NoAppel)}
  /\ arrivee' = arrivee \cup {q}

\* A transaction publishes its start less than MARGE after it took it.
Tic ==
  /\ now < MaxT /\ \A t \in Tx : etat[t] = "prend" => now + 1 - debut[t] <= MARGE
  /\ now' = now + 1
  /\ UNCHANGED <<etat, debut, xid, prochain, hold, mouvements, arrivee, lecteur>>

-----------------------------------------------------------------------------
(* The reader. *)

EstMin(b, S) == b \in S /\ \A x \in S : b <= x

\* The instants before which no open session of this database writes: each at its start,
\* with or without a rank; and the reading itself, less the margin.
_SESSIONS_ECRIVANTES ==
  {now - MARGE} \cup {debut[t] : t \in {u \in Tx \ ailleurs : etat[u] \in {"ouverte", "ecrit"}}}

LireLesSessions ==
  /\ ~lecture /\ lecture' = TRUE
  /\ \E b \in _SESSIONS_ECRIVANTES : EstMin(b, _SESSIONS_ECRIVANTES) /\ borne' = b
  /\ UNCHANGED <<bd, as_of, settled_as_of, curseur, servis, complet, releve>>

\* pg_snapshot_xmin is the least: all transactions of a lower rank, of any database, ended.
Rangs == {prochain} \cup {xid[t] : t \in {u \in Tx : etat[u] = "ecrit"}}

Retenus(x) == {m \in mouvements : m.xid >= x}
AsOf(x) == {borne} \cup {m.created : m \in Retenus(x)}

\* The calls not settled as far as the horizon: open, or settled by a retained movement.
OuvertesSeules(x) == {a \in Appel : hold[a].etat = "open"}
NonReglees(x) == {a \in Appel : \/ hold[a].etat = "open"
                                \/ \E m \in Retenus(x) : m.appel = a}
Pour(p, a) == p = Tous \/ hold[a].payer = p
SettledAsOf(p, b, x) == {b} \cup {hold[a].created : a \in {c \in NonReglees(x) : Pour(p, c)}}

Avant(m, n) == m.xid < n.xid \/ (m.xid = n.xid /\ m.id <= n.id)
Apres(m) == m.xid > curseur[1] \/ (m.xid = curseur[1] /\ m.id > curseur[2])
ToutCeQuiEstValide(x) == {m \in mouvements : Apres(m)}
SousHorizon(x) == {m \in mouvements : m.xid < x /\ Apres(m)}

\* The first movements after the cursor, up to the limit.
Page(S, x) ==
  /\ Cardinality(S) <= limite
  /\ \A m \in S, n \in SousHorizon(x) \ S : Avant(m, n)
  /\ S = SousHorizon(x) \/ Cardinality(S) = limite

\* The reader follows the feed: its next page starts where this one ends, and a page
\* shorter than the limit ends it.
SansAvancer(S) ==
  /\ servis' = servis \cup S /\ UNCHANGED curseur
  /\ IF Cardinality(S) < limite
     THEN complet' = as_of' /\ releve' = settled_as_of'
     ELSE UNCHANGED <<complet, releve>>
Servir(S) ==
  /\ servis' = servis \cup S
  /\ \/ S = {} /\ UNCHANGED curseur
     \/ \E m \in S : (\A n \in S : Avant(n, m)) /\ curseur' = <<m.xid, m.id>>
  /\ IF Cardinality(S) < limite
     THEN complet' = as_of' /\ releve' = settled_as_of'
     ELSE UNCHANGED <<complet, releve>>

page_de_mouvements ==
  /\ lecture /\ lecture' = FALSE
  /\ \E x \in Rangs :
       /\ EstMin(x, Rangs)
       /\ \E b \in AsOf(x) :
            /\ EstMin(b, AsOf(x)) /\ as_of' = b
            /\ settled_as_of' \in [lecteurs -> SettledAsOf(Tous, b, x)]
            /\ \A p \in lecteurs : EstMin(settled_as_of'[p], SettledAsOf(p, b, x))
       /\ \E S \in SUBSET SousHorizon(x) : Page(S, x) /\ Servir(S)
  /\ UNCHANGED <<bd, borne>>

-----------------------------------------------------------------------------
Transaction(t) ==
  \/ Publie(t) \/ Ecrit(t) \/ Finit(t) \/ verser(t)
  \/ \E a \in Appel, p \in Payeur : reserver(t, a, p)
  \/ \E a \in Appel : regler(t, a) \/ liberer(t, a)
  \/ \E p, q \in Payeur : suivre_le_solde(t, p, q)

Next == \/ \E t \in Tx : Commence(t) \/ Transaction(t)
        \/ Tic \/ LireLesSessions \/ page_de_mouvements

Spec == Init /\ [][Next]_vars

\* A transaction that started ends, of any database, and the commerce reads on.
FairSpec ==
  /\ Spec
  /\ \A t \in Tx : WF_vars(EnVie(t) /\ Transaction(t))
  /\ WF_vars(LireLesSessions) /\ WF_vars(page_de_mouvements)

-----------------------------------------------------------------------------
(* Properties. *)

\* The cursor misses nothing: a movement at or before it was served, although
\* transactions commit in an order that is neither that of their ranks nor that of their
\* starts.
RienDerriereLeCurseur == \A m \in mouvements : m \in servis \/ Apres(m)

\* A period that ends at an `as_of` is complete once the feed was read to its end: no
\* movement dated in it ever appears later (`as_of`, term by term).
PeriodeComplete == \A m \in mouvements : m.created < complet => m \in servis

\* Every call reserved before a `settled_as_of` read to the end of the feed is closed, and
\* its settlement was served: for all payers, and for one whom no merge has reached.
Suivi(p) == p = Tous \/ p \notin arrivee
ReleveComplet ==
  \A p \in lecteurs, a \in Appel :
    /\ Suivi(p) /\ Pour(p, a)
    /\ hold[a].etat # "absent" /\ hold[a].created < releve[p]
    => /\ hold[a].etat \in Fermes
       /\ \A m \in mouvements : m.appel = a => m \in servis

\* The two instants a page carries are kept, whatever commits after it.
PageTientParole == PeriodeComplete /\ ReleveComplet

\* From one page to the next, neither instant recedes.
Monotone ==
  [][/\ as_of' >= as_of
     /\ \A p \in lecteurs :
          p = Tous \/ p \notin arrivee' => settled_as_of'[p] >= settled_as_of[p]]_vars

\* A movement is late as long as a transaction of the server is, and never lost.
ToutEstServi ==
  \A t \in Tx : (\E m \in mouvements : m.xid = xid[t])
                  ~> (\A m \in mouvements : m.xid = xid[t] => m \in servis)
=============================================================================
