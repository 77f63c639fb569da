------------------------------ MODULE MCRowQueue ------------------------------
(* Two rows in two passes; two agents with a run each that sign with the same    *)
(* label.                                                                        *)
EXTENDS RowQueue

CONSTANTS l1, l2, p1, p2, r1, r2, w1

MCRunDe == [p \in Appelants |-> IF p = p1 THEN r1 ELSE r2]
MCLibelleDe == [p \in Appelants |-> w1]
MCSuite == [e \in {"e1"} |-> "e2"]
=============================================================================
