---------------------------- MODULE MCCreditHolds ----------------------------
(* Two calls and a turn of two accounts that merge: t is a tool call, s a       *)
(* submission, u a model call; u consumes more than it reserves, t less.        *)
EXTENDS CreditHolds
CONSTANTS t, s, u, p1, p2, k1, b1, v1, r1
MCPayeurDe == [a \in Appel |-> p1]
MCReserve == [a \in Appel |-> IF a = t THEN 2 ELSE 1]
MCReel == [a \in Appel |-> CASE a = t -> 1 [] a = s -> 0 [] a = u -> 2]
MCVersA == [k \in Cle |-> p1]
MCMontantDe == [k \in Cle |-> 2]
MCFusions == {<<p1, p2>>}

==============================================================================
