--------------------------- MODULE MCTriggerSystem ---------------------------
(* Instances of TriggerSystem for TLC: scheduled agents, or a webhook. *)
EXTENDS TriggerSystem, TLC
CONSTANTS t1, t2
Ligne(k, n, d) == [kind |-> k, max_per_day |-> n, max_per_hour |-> d]
Programmes == {t1 :> Ligne("schedule", 1, 1) @@ t2 :> Ligne("schedule", 1, 1)}
Appeles == {t1 :> Ligne("webhook", 2, 1), t1 :> Ligne("webhook", 3, 2)}
SymLivraison == Permutations(Livraison)
==============================================================================
