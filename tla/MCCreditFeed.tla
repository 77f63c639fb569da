---------------------------- MODULE MCCreditFeed ----------------------------
(* Two transactions of the budget and one of another database, one call, two     *)
(* accounts that merge.                                                           *)
EXTENDS CreditFeed
CONSTANTS t1, t2, x1, a1, p1, p2
MCFusions == {<<p1, p2>>}
=============================================================================
