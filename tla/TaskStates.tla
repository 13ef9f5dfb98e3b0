----------------------------- MODULE TaskStates -----------------------------
(***************************************************************************)
(* The A2A task states and the lifecycle edges every task store enforces   *)
(* (app/a2a/types.py, app/a2a/task_store.py).  Constant-level only: the    *)
(* abstract lifecycle, the server and the investigation share it.          *)
(* TASK_STATE_UNSPECIFIED is left out: nothing in the code assigns it.     *)
(***************************************************************************)

TaskState == { "SUBMITTED", "WORKING", "INPUT_REQUIRED", "AUTH_REQUIRED",
               "COMPLETED", "FAILED", "CANCELED", "REJECTED" }

\* TaskState.is_terminal
IsTerminal == { "COMPLETED", "FAILED", "CANCELED", "REJECTED" }

\* The states in which nothing is running on the task's behalf: it has ended,
\* or it waits for somebody outside the agent.
AtRest == IsTerminal \cup { "INPUT_REQUIRED", "AUTH_REQUIRED" }

\* _ALLOWED: which states may follow a given one.
Allowed(from) ==
  CASE from = "SUBMITTED" -> { "WORKING", "REJECTED", "FAILED", "CANCELED" }
    [] from = "WORKING"   -> { "COMPLETED", "FAILED", "CANCELED",
                               "INPUT_REQUIRED", "AUTH_REQUIRED" }
    [] from \in { "INPUT_REQUIRED", "AUTH_REQUIRED" }
                          -> { "WORKING", "CANCELED", "FAILED" }
    [] OTHER              -> {}

\* A check that only keeps a task from going back to SUBMITTED.
MutLegalMoveOnlyForward(from, to) == to = from \/ to # "SUBMITTED"

\* assert_transition(current, new) returns, instead of raising.
LegalMove(from, to) ==
  /\ from \notin IsTerminal
  /\ to = from \/ to \in Allowed(from)

\* What a store says of a task id that it does not hold: never created, or
\* removed by delete_context.  Ids are fresh UUIDs, so a removed id stays so.
Absent == { "UNUSED", "DELETED" }
=============================================================================
