---------------------------- MODULE JobLifecycle ----------------------------
(***************************************************************************)
(* What the execution queue of the runner promises about ONE row of        *)
(* runner_jobs, whatever the workers, their leases and the triggers do:    *)
(* which status may follow which, that a terminal status is final, and     *)
(* that no job is ever taken more than max_attempts times in a row without *)
(* one of the takes being handed back uncounted.                           *)
(*                                                                         *)
(* Several jobs may move in one step (the poll of a worker marks the       *)
(* wrecks before it serves; a trigger freezes all its jobs), each of them  *)
(* by at most one transition.                                              *)
(***************************************************************************)
EXTENDS Naturals

CONSTANTS Job,          \* the ids of runner_jobs
          MaxAttempts   \* runner_jobs.max_attempts, per job

VARIABLES status,       \* runner_jobs.status ("absent": no such row yet)
          attempts      \* runner_jobs.attempts

vars == <<status, attempts>>

Terminal == {"done", "failed", "expired"}
Status == {"absent", "pending", "held", "claimed"} \cup Terminal

Init == /\ status = [j \in Job |-> "absent"]
        /\ attempts = [j \in Job |-> 0]

\* A status reached from another one, the count of takes being left alone.
Follows(from, to) ==
  \/ from = "absent"  /\ to = "pending"
  \/ from = "pending" /\ to \in {"held", "expired"}
  \/ from = "held"    /\ to \in {"pending", "expired"}
  \/ from = "claimed" /\ to \in {"done", "failed"}

Moves(j) == Follows(status[j], status'[j]) /\ attempts'[j] = attempts[j]

\* A take, of a waiting job or of one whose worker was given up on.
Taken(j) ==
  /\ status[j] \in {"pending", "claimed"} /\ attempts[j] < MaxAttempts[j]
  /\ status'[j] = "claimed" /\ attempts'[j] = attempts[j] + 1

\* A failed take goes back to the queue only while takes are left.
Retried(j) ==
  /\ status[j] = "claimed" /\ attempts[j] < MaxAttempts[j]
  /\ status'[j] = "pending" /\ attempts'[j] = attempts[j]

\* A take handed back is not counted.
HandedBack(j) ==
  /\ status[j] = "claimed" /\ attempts[j] > 0
  /\ status'[j] = "pending" /\ attempts'[j] = attempts[j] - 1

Rests(j) == status'[j] = status[j] /\ attempts'[j] = attempts[j]

Next == /\ status' \in [Job -> Status]
        /\ attempts' \in [Job -> Nat]
        /\ \A j \in Job :
             Moves(j) \/ Taken(j) \/ Retried(j) \/ HandedBack(j) \/ Rests(j)

Spec == Init /\ [][Next]_vars
=============================================================================
