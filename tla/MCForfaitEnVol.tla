--------------------------- MODULE MCForfaitEnVol ---------------------------
(* One subscription, that of s1, reached by three paths: s1 asks for j1 in o1, *)
(* and lends it to o1, where s2, who has none of his own that serves, asks for *)
(* j2; and it is open in o2, which takes no loans and runs the fleet job j3.   *)
EXTENDS ForfaitEnVol

CONSTANTS j1, j2, j3, s1, s2, o1, o2, w1, w2, w3

MCDemandeur == [j \in Job |-> IF j = j2 THEN s2 ELSE s1]
MCDemandeurUn == [j \in Job |-> s1]
MCOrgDe == [j \in Job |-> IF j = j3 THEN o2 ELSE o1]
MCMode == [o \in Org |-> IF o = o1 THEN "aucun" ELSE "personnel"]
MCModePool == [o \in Org |-> "pool"]
MCPrets == {<<s1, o1>>}
MCOuverts == {<<s1, o1>>, <<s1, o2>>}
MCDeuxPrises == [j \in Job |-> 2]
MCPrises == [j \in Job |-> IF j = j1 THEN 2 ELSE 1]
MCUnePrise == [j \in Job |-> 1]
=============================================================================
