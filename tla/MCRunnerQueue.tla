---------------------------- MODULE MCRunnerQueue ----------------------------
(* The queue on two jobs and three workers. *)
EXTENDS RunnerQueue

CONSTANTS j1, j2, p1, p2, p3, s1, s2, s3, o1, o2, f1, t1

\* j1 comes from a webhook trigger, with a freshness delay and two takes;
\* j2 was enqueued by hand and has one take.
MCMaxAttempts == [j \in Job |-> IF j = j1 THEN 2 ELSE 1]
MCDeclencheurDe == [j \in Job |-> IF j = j1 THEN t1 ELSE NoDeclencheur]
MCOrgDe == [j \in Job |-> IF j = j1 THEN o1 ELSE o2]
MCFamilleDe == [j \in Job |-> f1]
MCTout == [p \in Proc |-> Job]

\* One token per process, or one token for both.
MCSubPropre == [p \in Proc |-> CASE p = p1 -> s1 [] p = p2 -> s2 [] OTHER -> s3]
MCSubPartage == [p \in Proc |-> s1]
=============================================================================
