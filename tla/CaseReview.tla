------------------------------ MODULE CaseReview ------------------------------
(***************************************************************************)
(* What an investigation promises the analysts who review it, whatever     *)
(* becomes of its runs, its peers and its clients.  A case is paused only  *)
(* with all of its findings stored; only a decision that is on record      *)
(* takes it on from there; each decision files one report at most and its  *)
(* run nothing else; it is completed by a run that stored every artifact   *)
(* or by a decision; and once it has ended nothing but its deletion        *)
(* changes its state.  Module Investigation implements this.               *)
(***************************************************************************)
EXTENDS TaskStates, Sequences

CONSTANTS
  Opener,     \* the run that opens the case
  Decisions,  \* the runs of the analysts' decisions
  Findings    \* what a case is judged by

VARIABLES
  status,     \* the state of the case
  artifacts,  \* what is stored of it, in order: the run and what it filed
  decided     \* the decisions on record

review == << status, artifacts, decided >>

Filed(r, what) == \E i \in DOMAIN artifacts : artifacts[i] = [run |-> r, of |-> what]
Assessed == \A role \in Findings : Filed(Opener, role)

Init == status = "UNUSED" /\ artifacts = << >> /\ decided = {}

Open ==
  /\ status = "UNUSED"
  /\ status' = "SUBMITTED"
  /\ UNCHANGED << artifacts, decided >>

\* A run files an artifact, once; a decision's run only the report.
File(r, what) ==
  /\ status \in TaskState
  /\ ~Filed(r, what)
  /\ r \in Decisions => r \in decided /\ what = "reporting"
  /\ artifacts' = Append(artifacts, [run |-> r, of |-> what])
  /\ UNCHANGED << status, decided >>

\* Work begins, or goes on after a pause because of a decision.
Work ==
  /\ \/ status = "SUBMITTED"
     \/ status = "INPUT_REQUIRED" /\ decided # {}
  /\ status' = "WORKING"
  /\ UNCHANGED << artifacts, decided >>

Pause ==
  /\ status = "WORKING"
  /\ Assessed /\ ~Filed(Opener, "reporting")
  /\ status' = "INPUT_REQUIRED"
  /\ UNCHANGED << artifacts, decided >>

\* A decision is recorded of a case that was paused, if it is still there.
Decide(d) ==
  /\ d \notin decided
  /\ status # "UNUSED" /\ (status \in TaskState => Assessed)
  /\ decided' = decided \cup { d }
  /\ UNCHANGED << status, artifacts >>

Complete ==
  /\ status = "WORKING"
  /\ Assessed
  /\ decided # {} \/ Filed(Opener, "reporting")
  /\ status' = "COMPLETED"
  /\ UNCHANGED << artifacts, decided >>

\* A case that has not ended may end otherwise at any time.
Abort ==
  /\ status \in { "SUBMITTED", "WORKING", "INPUT_REQUIRED" }
  /\ status' \in { "REJECTED", "FAILED", "CANCELED" }
  /\ UNCHANGED << artifacts, decided >>

Delete ==
  /\ status \in TaskState
  /\ status' = "DELETED"
  /\ artifacts' = << >>
  /\ UNCHANGED decided

Next ==
  \/ Open \/ Work \/ Pause \/ Complete \/ Abort \/ Delete
  \/ \E r \in { Opener } \cup Decisions, what \in Findings \cup { "reporting" } : File(r, what)
  \/ \E d \in Decisions : Decide(d)

Spec == Init /\ [][Next]_review
=============================================================================
