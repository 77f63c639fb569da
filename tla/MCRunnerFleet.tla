---------------------------- MODULE MCRunnerFleet ----------------------------
(* Instances of RunnerFleet for TLC. *)
EXTENDS RunnerFleet, TLC
CONSTANT f1
UnSeul == f1 :> 1
DeuxLignes == f1 :> 2
QuatreLignes == f1 :> 4

\* Nothing tells a worker from an other, nor an orchestrator.
Symetrie == Permutations(Worker) \cup Permutations(Ordonnanceur)
==============================================================================
