---------------------------- MODULE TaskLifecycle ----------------------------
(***************************************************************************)
(* What a task store promises to everyone who reads a task's state,        *)
(* whichever requests, cancellations, time-outs and deletions raced to     *)
(* write it: a task is created once, moves only along the lifecycle edges, *)
(* never leaves a terminal state except by being deleted, and a deleted id *)
(* never comes back.  A2AServer implements this specification.             *)
(***************************************************************************)
EXTENDS TaskStates

CONSTANT Tasks

VARIABLE status

TypeOK == status \in [Tasks -> TaskState \cup Absent]

Init == status = [t \in Tasks |-> "UNUSED"]

Create(t) ==
  /\ status[t] = "UNUSED"
  /\ status' = [status EXCEPT ![t] = "SUBMITTED"]

Move(t, s) ==
  /\ status[t] \in TaskState
  /\ LegalMove(status[t], s)
  /\ status' = [status EXCEPT ![t] = s]

\* delete_context drops every task of one investigation at once.
Delete(doomed) ==
  /\ \A t \in doomed : status[t] \in TaskState
  /\ status' = [t \in Tasks |-> IF t \in doomed THEN "DELETED" ELSE status[t]]

Next ==
  \/ \E t \in Tasks : Create(t)
  \/ \E t \in Tasks, s \in TaskState : Move(t, s)
  \/ \E doomed \in SUBSET Tasks : Delete(doomed)

Spec == Init /\ [][Next]_status
=============================================================================
