----------------------------- MODULE UnitBudget -----------------------------
(***************************************************************************)
(* What the units budget promises, whatever the calls, their retries,      *)
(* their deadlines and the crashes: a call engages the worst case once,    *)
(* before it is sent, and what is engaged is closed once, at some amount;  *)
(* where the budget refuses, nothing is engaged beyond what is available,  *)
(* but for a call that has consumed already; the available units of a      *)
(* payer move with a deposit, an engagement, its closing, or the merge of  *)
(* two accounts, and with nothing else.                                    *)
(***************************************************************************)
EXTENDS Integers

CONSTANTS Payeur,   \* org:<id>, user:<sub>
          Appel,    \* call uids: tool calls and model calls
          Montant,  \* the amounts a call may engage or cost
          Depot,    \* the amounts, signed, that may be deposited
          Refuse    \* mode `enforce`

VARIABLES disponible,  \* units a payer may still engage
          engage,      \* of a call: engaged or not, by whom, for how much
          consomme     \* the calls whose request the provider has served

vars == <<disponible, engage, consomme>>

Init == /\ disponible = [p \in Payeur |-> 0]
        /\ engage \in [Appel -> [etat : {"absent"}, payer : Payeur, montant : {0}]]
        /\ consomme = {}

Crediter == /\ \E p \in Payeur, n \in Depot : disponible' = [disponible EXCEPT ![p] = @ + n]
            /\ UNCHANGED <<engage, consomme>>

Consommer == /\ \E a \in Appel : consomme' = consomme \cup {a}
             /\ UNCHANGED <<disponible, engage>>

Engager(a, p, n) ==
  /\ engage[a].etat = "absent"
  /\ Refuse => disponible[p] >= n \/ a \in consomme
  /\ engage' = [engage EXCEPT ![a] = [etat |-> "engage", payer |-> p, montant |-> n]]
  /\ disponible' = [disponible EXCEPT ![p] = @ - n]
  /\ UNCHANGED consomme

\* Closed at m: less than what was engaged gives the rest back, more is owed.
Clore(a, m) ==
  /\ engage[a].etat = "engage"
  /\ engage' = [engage EXCEPT ![a].etat = "clos"]
  /\ disponible' = [disponible EXCEPT ![engage[a].payer] = @ + engage[a].montant - m]
  /\ UNCHANGED consomme

\* Two accounts of one person: what p has, and what it engaged, go to q.
Reunir(p, q) ==
  /\ p # q
  /\ disponible' = [disponible EXCEPT ![q] = @ + disponible[p], ![p] = 0]
  /\ engage' = [a \in Appel |->
                  IF engage[a].etat = "engage" /\ engage[a].payer = p
                  THEN [engage[a] EXCEPT !.payer = q] ELSE engage[a]]
  /\ UNCHANGED consomme

Next == \/ Crediter
        \/ Consommer
        \/ \E a \in Appel, p \in Payeur, n \in Montant : Engager(a, p, n)
        \/ \E a \in Appel, m \in Montant : Clore(a, m)
        \/ \E p, q \in Payeur : Reunir(p, q)

Spec == Init /\ [][Next]_vars
=============================================================================
