---------------------------- MODULE Investigation ----------------------------
(***************************************************************************)
(* One investigation (one contextId): the orchestrator's runs over it      *)
(* (app/agents/orchestrator.py), the REST gateway that opens, decides and  *)
(* deletes it (app/api/routes.py), and the rows it leaves in the stores of *)
(* its peers.                                                              *)
(*                                                                         *)
(* The Opener is the POST that creates the case; each Decision is a POST   *)
(* .../decision.  Either makes a run: the executor publishes events on a   *)
(* queue of its own, and the run's handler persists them one by one        *)
(* (module A2AServer has that handler's every seam; here a store access    *)
(* and the bookkeeping around it are one step).  What a peer finds is      *)
(* open; of the findings only what asks for a human matters here.          *)
(***************************************************************************)
EXTENDS TaskStates, Naturals, Sequences, FiniteSets

CONSTANTS
  Opener,       \* the request that opens the case
  Decisions,    \* the analysts' decision requests
  Specialists,  \* _SPECIALISTS: the roles of the fixed pipeline, in order
  Settings      \* the configurations to start under

ASSUME RunsAssumption == Opener \notin Decisions
ASSUME PipelineAssumption ==
  /\ Specialists \in Seq(STRING)
  /\ \A i \in DOMAIN Specialists : Specialists[i] \notin TaskState \cup { "risk", "reporting" }
  /\ \A i, j \in DOMAIN Specialists : Specialists[i] = Specialists[j] => i = j
ASSUME SettingsAssumption ==
  Settings \subseteq [review : BOOLEAN, iterations : Nat]

Runs == { Opener } \cup Decisions

\* The whole pipeline: specialists, then Risk, then Reporting.
Pipeline   == Specialists \o << "risk", "reporting" >>
RiskAt     == Len(Specialists) + 1
ReportAt   == Len(Specialists) + 2
Roles      == { Pipeline[i] : i \in DOMAIN Pipeline }
Findings   == Roles \ { "reporting" }

\* The findings that can make a case one for a human: Risk's band or SAR
\* flag, Sanctions' subject or counterparty hit.
Alarming == { "risk", "sanctions" }

\* What a run publishes: a status, or the artifact of a role.
Event == TaskState \cup Roles

\* delete_investigation visits the stores in the order of AgentRole.
Stores == << "orchestrator" >> \o Pipeline

VARIABLES
  settings,   \* the configuration
  status,     \* the stored state of the case's task
  artifacts,  \* its stored artifacts, in order
  pc,         \* where each run's executor stands
  at,         \* the pipeline step it is at
  streamed,   \* the case was opened by the streaming endpoint
  failures,   \* _delegate's failures, per run
  alarms,     \* the alarming findings each run holds
  queue,      \* each run's event queue
  wire,       \* requests to a peer that it has not taken yet
  rows,       \* the tasks peers created for the case
  ghosts,     \* decisions that opened a task of their own
  audit,      \* the case's audit entries
  sweep,      \* the next store delete_investigation visits; 0 before it starts
  calm        \* nothing was under way when it started, and nothing came since

run  == << pc, at, streamed, failures, alarms >>
peers == << wire, rows >>
removal == << sweep, calm >>
vars == << settings, status, artifacts, run, queue, peers, ghosts, audit, removal >>

Step == { "idle", "planning", "starting", "checked", "resuming", "delegating",
          "calling", "gate", "requesting", "concluding", "recording", "over" }
AuditAction == { "investigation_started", "review_requested", "human_decision",
                 "investigation_completed", "investigation_failed",
                 "investigation_deleted" }

TypeOK ==
  /\ settings \in Settings
  /\ status \in TaskState \cup Absent
  /\ artifacts \in Seq([run : Runs, of : Roles])
  /\ pc \in [Runs -> Step]
  /\ at \in [Runs -> DOMAIN Pipeline]
  /\ streamed \in BOOLEAN
  /\ failures \in [Runs -> SUBSET Roles]
  /\ alarms \in [Runs -> SUBSET Alarming]
  /\ queue \in [Runs -> Seq(Event)]
  /\ wire \subseteq Runs \X Roles
  /\ rows \subseteq Runs \X Roles
  /\ ghosts \subseteq Decisions
  /\ audit \subseteq AuditAction \X Runs
  /\ sweep \in 0 .. Len(Stores) + 2
  /\ calm \in BOOLEAN

Init ==
  /\ settings \in Settings
  /\ status = "UNUSED"
  /\ artifacts = << >>
  /\ pc = [r \in Runs |-> "idle"]
  /\ at = [r \in Runs |-> 1]
  /\ streamed = FALSE
  /\ failures = [r \in Runs |-> {}]
  /\ alarms = [r \in Runs |-> {}]
  /\ queue = [r \in Runs |-> << >>]
  /\ wire = {}
  /\ rows = {}
  /\ ghosts = {}
  /\ audit = {}
  /\ sweep = 0
  /\ calm = FALSE

Live == status \in TaskState
Stored(role) == \E i \in DOMAIN artifacts : artifacts[i].of = role

Go(r, step) == pc' = [pc EXCEPT ![r] = step]
Publish(r, event) == queue' = [queue EXCEPT ![r] = Append(@, event)]
Record(action, r) == audit' = audit \cup { << action, r >> }

\* The executor or the handler behind it still has something to do.
Busy(r) == pc[r] \notin { "idle", "checked", "over" } \/ queue[r] # << >>

-----------------------------------------------------------------------------
(* OrchestratorExecutor.run and _resume.                                   *)

\* POST /investigations or its streaming twin: a fresh task in a fresh context.
Open ==
  /\ pc[Opener] = "idle"
  /\ status' = "SUBMITTED"
  /\ streamed' \in BOOLEAN
  /\ Go(Opener, "planning")
  /\ UNCHANGED << settings, artifacts, at, failures, alarms, queue, peers,
                  ghosts, audit, removal >>

\* run() up to the pipeline.
Plan ==
  /\ pc[Opener] = "planning"
  /\ Publish(Opener, "WORKING")
  /\ Go(Opener, "starting")
  /\ UNCHANGED << settings, status, artifacts, at, streamed, failures, alarms,
                  peers, ghosts, audit, removal >>

RecordStart ==
  /\ pc[Opener] = "starting"
  /\ Record("investigation_started", Opener)
  /\ Go(Opener, "delegating")
  /\ UNCHANGED << settings, status, artifacts, at, streamed, failures, alarms,
                  queue, peers, ghosts, removal >>

\* run() called with a delegation_depth at the limit, as a peer may.
RefuseDepth ==
  /\ pc[Opener] = "planning"
  /\ Publish(Opener, "REJECTED")
  /\ Go(Opener, "over")
  /\ UNCHANGED << settings, status, artifacts, at, streamed, failures, alarms,
                  peers, ghosts, audit, removal >>

\* The loop over the specialists counts its steps against max_agent_iterations.
OutOfSteps(r) == /\ r = Opener
                 /\ at[r] < RiskAt
                 /\ at[r] > settings.iterations

GiveUp ==
  /\ pc[Opener] = "delegating"
  /\ OutOfSteps(Opener)
  /\ Publish(Opener, "FAILED")
  /\ Go(Opener, "over")
  /\ UNCHANGED << settings, status, artifacts, at, streamed, failures, alarms,
                  peers, ghosts, audit, removal >>

\* _delegate, up to its await: announce the hop and send the request.
Delegate(r) ==
  /\ pc[r] = "delegating"
  /\ ~OutOfSteps(r)
  /\ Publish(r, "WORKING")
  /\ wire' = wire \cup { << r, Pipeline[at[r]] >> }
  /\ Go(r, "calling")
  /\ UNCHANGED << settings, status, artifacts, at, streamed, failures, alarms,
                  rows, ghosts, audit, removal >>

\* The client tries again: the request, or the answer to it, was lost.
Resend(r) ==
  /\ pc[r] = "calling"
  /\ wire' = wire \cup { << r, Pipeline[at[r]] >> }
  /\ UNCHANGED << settings, status, artifacts, run, queue, rows, ghosts, audit, removal >>

\* A peer takes a request and creates its task in the case's context, even
\* if whoever sent it has given up meanwhile.
PeerCreates(r, role) ==
  /\ << r, role >> \in wire
  /\ wire' = wire \ { << r, role >> }
  /\ rows' = rows \cup { << r, role >> }
  /\ UNCHANGED << settings, status, artifacts, run, queue, ghosts, audit, removal >>

\* A pipeline counter that runs past its last step.
MutAdvanceRunsOff(r) ==
  /\ at' = [at EXCEPT ![r] = @ + 1]
  /\ Go(r, CASE at[r] = RiskAt   -> "gate"
             [] at[r] = ReportAt -> "concluding"
             [] OTHER            -> "delegating")

\* Where the pipeline goes after the step r is at.
Advance(r) ==
  /\ at' = [at EXCEPT ![r] = IF @ = ReportAt THEN @ ELSE @ + 1]
  /\ Go(r, CASE at[r] = RiskAt   -> "gate"
             [] at[r] = ReportAt -> "concluding"
             [] OTHER            -> "delegating")

\* The peer took the request and its task is COMPLETED with an artifact (and
\* may have been deleted since): it is emitted as one of this task's, and
\* the finding kept.
PeerAnswers(r) ==
  LET role == Pipeline[at[r]] IN
    /\ pc[r] = "calling"
    /\ << r, role >> \notin wire
    /\ Publish(r, role)
    /\ \E found \in SUBSET (Alarming \cap { role }) :
         alarms' = [alarms EXCEPT ![r] = @ \cup found]
    /\ Advance(r)
    /\ UNCHANGED << settings, status, artifacts, streamed, failures, peers,
                    ghosts, audit, removal >>

\* An A2AError, or a task without a result: carry on degraded.  The request
\* may never have left, or be on its way still.
PeerFails(r) ==
  LET role == Pipeline[at[r]] IN
    /\ pc[r] = "calling"
    /\ failures' = [failures EXCEPT ![r] = @ \cup { role }]
    /\ wire' \in { wire, wire \ { << r, role >> } }
    /\ Publish(r, "WORKING")
    /\ Advance(r)
    /\ UNCHANGED << settings, status, artifacts, streamed, alarms, rows,
                    ghosts, audit, removal >>

\* Anything else the call raises ends the run: the server's runner makes
\* the task FAILED.
CallRaises(r) ==
  /\ pc[r] = "calling"
  /\ Publish(r, "FAILED")
  /\ Go(r, "over")
  /\ UNCHANGED << settings, status, artifacts, at, streamed, failures, alarms,
                  peers, ghosts, audit, removal >>

\* _requires_review
RequiresReview(r) == alarms[r] # {}

\* A gate that also holds degraded cases for a human, without their findings.
MutGateHoldsDegraded ==
  /\ pc[Opener] = "gate"
  /\ IF settings.review /\ RequiresReview(Opener)
       THEN Publish(Opener, "INPUT_REQUIRED") /\ Go(Opener, "requesting")
       ELSE Go(Opener, "delegating") /\ UNCHANGED queue
  /\ UNCHANGED << settings, status, artifacts, at, streamed, failures, alarms,
                  peers, ghosts, audit, removal >>

\* A gate that only looks at the risk assessment.
MutGateIgnoresSanctions ==
  /\ pc[Opener] = "gate"
  /\ IF failures[Opener] = {} /\ settings.review /\ "risk" \in alarms[Opener]
       THEN Publish(Opener, "INPUT_REQUIRED") /\ Go(Opener, "requesting")
       ELSE Go(Opener, "delegating") /\ UNCHANGED queue
  /\ UNCHANGED << settings, status, artifacts, at, streamed, failures, alarms,
                  peers, ghosts, audit, removal >>

\* The human-in-the-loop gate: pause, or go straight on to Reporting.
Gate ==
  /\ pc[Opener] = "gate"
  /\ IF failures[Opener] = {} /\ settings.review /\ RequiresReview(Opener)
       THEN Publish(Opener, "INPUT_REQUIRED") /\ Go(Opener, "requesting")
       ELSE Go(Opener, "delegating") /\ UNCHANGED queue
  /\ UNCHANGED << settings, status, artifacts, at, streamed, failures, alarms,
                  peers, ghosts, audit, removal >>

\* The audit entry that follows the pause; run() returns after it.
RequestReview ==
  /\ pc[Opener] = "requesting"
  /\ Record("review_requested", Opener)
  /\ Go(Opener, "over")
  /\ UNCHANGED << settings, status, artifacts, at, streamed, failures, alarms,
                  queue, peers, ghosts, removal >>

\* A verdict that lets a partial pipeline pass for a clean result.
MutConcludeAlwaysCompletes(r) ==
  /\ pc[r] = "concluding"
  /\ Publish(r, "COMPLETED")
  /\ Go(r, "recording")
  /\ UNCHANGED << settings, status, artifacts, at, streamed, failures, alarms,
                  peers, ghosts, audit, removal >>

\* run() looks at its failures; _resume threw its own away.
Degraded(r) == r = Opener /\ failures[r] # {}

\* The verdict ...
Conclude(r) ==
  /\ pc[r] = "concluding"
  /\ Publish(r, IF Degraded(r) THEN "FAILED" ELSE "COMPLETED")
  /\ Go(r, "recording")
  /\ UNCHANGED << settings, status, artifacts, at, streamed, failures, alarms,
                  peers, ghosts, audit, removal >>

\* ... and its audit entry.
RecordVerdict(r) ==
  /\ pc[r] = "recording"
  /\ Record(IF Degraded(r) THEN "investigation_failed"
                           ELSE "investigation_completed", r)
  /\ Go(r, "over")
  /\ UNCHANGED << settings, status, artifacts, at, streamed, failures, alarms,
                  queue, peers, ghosts, removal >>

\* A resume that has the risk assessed anew.
MutResumeReassesses(d) ==
  /\ pc[d] = "resuming"
  /\ Record("human_decision", d)
  /\ Publish(d, "WORKING")
  /\ at' = [at EXCEPT ![d] = RiskAt]
  /\ Go(d, "delegating")
  /\ UNCHANGED << settings, status, artifacts, streamed, failures, alarms,
                  peers, ghosts, removal >>

\* _resume up to its delegation: the decision is audited, the task WORKING
\* again, and Reporting is all that is left to do.
Resume(d) ==
  /\ pc[d] = "resuming"
  /\ Record("human_decision", d)
  /\ Publish(d, "WORKING")
  /\ at' = [at EXCEPT ![d] = ReportAt]
  /\ Go(d, "delegating")
  /\ UNCHANGED << settings, status, artifacts, streamed, failures, alarms,
                  peers, ghosts, removal >>

-----------------------------------------------------------------------------
(* The handler behind each run (module A2AServer), a store access a step.  *)

\* A run is abandoned with whatever it had published and not persisted.
Abandon(r) ==
  /\ Go(r, "over")
  /\ queue' = [queue EXCEPT ![r] = << >>]

\* A status is written if the lifecycle allows it, else logged and dropped.
PersistStatus(r) ==
  /\ queue[r] # << >>
  /\ Head(queue[r]) \in TaskState
  /\ status' = IF Live /\ LegalMove(status, Head(queue[r])) THEN Head(queue[r])
                                                           ELSE status
  /\ queue' = [queue EXCEPT ![r] = Tail(@)]
  /\ UNCHANGED << settings, artifacts, run, peers, ghosts, audit, removal >>

\* An artifact is added in any state; a deleted task's KeyError ends the call.
PersistArtifact(r) ==
  /\ queue[r] # << >>
  /\ Head(queue[r]) \in Roles
  /\ \/ /\ Live
        /\ artifacts' = Append(artifacts, [run |-> r, of |-> Head(queue[r])])
        /\ queue' = [queue EXCEPT ![r] = Tail(@)]
        /\ UNCHANGED pc
     \/ ~Live /\ Abandon(r) /\ UNCHANGED artifacts
  /\ UNCHANGED << settings, status, at, streamed, failures, alarms, peers,
                  ghosts, audit, removal >>

\* send_message's time-out: the run is cancelled where it stands and the
\* task FAILED, unless it ended or went away already.
TimeOut(r) ==
  /\ Busy(r)
  /\ ~(r = Opener /\ streamed)
  /\ Abandon(r)
  /\ status' = IF Live /\ LegalMove(status, "FAILED") THEN "FAILED" ELSE status
  /\ UNCHANGED << settings, artifacts, at, streamed, failures, alarms, peers,
                  ghosts, audit, removal >>

\* The browser leaves a streamed investigation: its run is cancelled too.
Disconnect ==
  /\ Busy(Opener)
  /\ streamed
  /\ Abandon(Opener)
  /\ UNCHANGED << settings, status, artifacts, at, streamed, failures, alarms,
                  peers, ghosts, audit, removal >>

\* CancelTask; the run, if there is one, goes on.
Cancel ==
  /\ Live
  /\ LegalMove(status, "CANCELED")
  /\ status' = "CANCELED"
  /\ UNCHANGED << settings, artifacts, run, queue, peers, ghosts, audit, removal >>

-----------------------------------------------------------------------------
(* The gateway's decisions and deletions.                                  *)

\* A check that only looks whether the case exists.
MutCheckAnyState(d) ==
  /\ pc[d] = "idle"
  /\ Live
  /\ Go(d, "checked")
  /\ calm' = FALSE
  /\ UNCHANGED << settings, status, artifacts, at, streamed, failures, alarms,
                  queue, peers, ghosts, audit, sweep >>

\* submit_decision reads the task and refuses one that is not paused ...
CheckPaused(d) ==
  /\ pc[d] = "idle"
  /\ status = "INPUT_REQUIRED"
  /\ Go(d, "checked")
  /\ calm' = FALSE
  /\ UNCHANGED << settings, status, artifacts, at, streamed, failures, alarms,
                  queue, peers, ghosts, audit, sweep >>

\* ... and only then continues it, whatever its state by now.  A task deleted
\* in between is replaced by a new one in the same context, whose run finds
\* no profile in its history and fails.
Continue(d) ==
  /\ pc[d] = "checked"
  /\ \/ Live /\ Go(d, "resuming") /\ UNCHANGED ghosts
     \/ ~Live /\ Go(d, "over") /\ ghosts' = ghosts \cup { d }
  /\ UNCHANGED << settings, status, artifacts, at, streamed, failures, alarms,
                  queue, peers, audit, removal >>

BeginDelete ==
  /\ sweep = 0
  /\ Live
  /\ sweep' = 1
  /\ calm' = (wire = {} /\ \A r \in Runs : ~Busy(r) /\ pc[r] # "checked")
  /\ UNCHANGED << settings, status, artifacts, run, queue, peers, ghosts, audit >>

\* A deletion that leaves the last store out.
MutSweepStopsShort ==
  /\ sweep \in 1 .. Len(Stores)
  /\ sweep' = sweep + 1
  /\ IF sweep = 1
       THEN /\ status' = IF Live THEN "DELETED" ELSE status
            /\ artifacts' = << >>
            /\ ghosts' = {}
            /\ UNCHANGED rows
       ELSE /\ rows' = { w \in rows : w[2] # Stores[sweep] \/ sweep = Len(Stores) }
            /\ UNCHANGED << status, artifacts, ghosts >>
  /\ UNCHANGED << settings, run, queue, wire, audit, calm >>

\* delete_context on one agent's store after the other.
Sweep ==
  /\ sweep \in 1 .. Len(Stores)
  /\ sweep' = sweep + 1
  /\ IF sweep = 1
       THEN /\ status' = IF Live THEN "DELETED" ELSE status
            /\ artifacts' = << >>
            /\ ghosts' = {}
            /\ UNCHANGED rows
       ELSE /\ rows' = { w \in rows : w[2] # Stores[sweep] }
            /\ UNCHANGED << status, artifacts, ghosts >>
  /\ UNCHANGED << settings, run, queue, wire, audit, calm >>

\* The deletion is recorded last.
EndDelete ==
  /\ sweep = Len(Stores) + 1
  /\ sweep' = sweep + 1
  /\ Record("investigation_deleted", Opener)
  /\ UNCHANGED << settings, status, artifacts, run, queue, peers, ghosts, calm >>

Deleted == sweep = Len(Stores) + 2

-----------------------------------------------------------------------------
OpenerStep ==
  \/ Open \/ Plan \/ RecordStart \/ RefuseDepth \/ GiveUp
  \/ Gate \/ RequestReview \/ Disconnect

RunStep(r) ==
  \/ Delegate(r) \/ Resend(r) \/ PeerAnswers(r) \/ PeerFails(r) \/ CallRaises(r)
  \/ Conclude(r) \/ RecordVerdict(r) \/ PersistStatus(r) \/ PersistArtifact(r) \/ TimeOut(r)

DecisionStep(d) == CheckPaused(d) \/ Continue(d) \/ Resume(d)

DeleteStep == BeginDelete \/ Sweep \/ EndDelete

Next ==
  \/ OpenerStep
  \/ \E r \in Runs : RunStep(r)
  \/ \E r \in Runs, role \in Roles : PeerCreates(r, role)
  \/ \E d \in Decisions : DecisionStep(d)
  \/ Cancel
  \/ DeleteStep

Spec == Init /\ [][Next]_vars

-----------------------------------------------------------------------------
(* Properties.                                                             *)

\* A paused case can be resumed: while the task waits for an analyst, every
\* finding _resume rebuilds the report from is already stored, although the
\* pause and the findings reach the store through a queue.
PausedIsComplete ==
  status = "INPUT_REQUIRED" => \A role \in Findings : Stored(role)

\* run: "High-stakes outcomes must not be auto-filed": with review required,
\* a case whose stored findings are complete and call for a human has no
\* report until an analyst's decision is on the audit log.  A case that lost a
\* finding is filed without one.
ReviewedBeforeFiling ==
  settings.review /\ RequiresReview(Opener) /\ (\A role \in Roles : Stored(role)) =>
    \E d \in Decisions : << "human_decision", d >> \in audit

\* A case its own run completed is a clean one: every finding and the report
\* are stored, each exactly once ("a partial pipeline must NOT masquerade as
\* a clean, low-risk result").
CleanCompletion ==
  status = "COMPLETED" /\ (\A d \in Decisions : pc[d] = "idle") =>
    /\ Len(artifacts) = Len(Pipeline)
    /\ \A role \in Roles : Stored(role)

\* However many decisions race for one pause, each adds at most one report
\* to the case, none adds anything else, and each report is one the audit log
\* can attribute: its decision was recorded before it was filed.
ReportsAreAttributed ==
  \A i \in DOMAIN artifacts :
    LET a == artifacts[i] IN
      a.run \in Decisions =>
        /\ a.of = "reporting"
        /\ << "human_decision", a.run >> \in audit
        /\ \A j \in DOMAIN artifacts : artifacts[j] = a => j = i

\* The case keeps what CaseReview promises the analysts: what every step does
\* to its state, its artifacts and the decisions on the audit log is a step of
\* a review, though decisions race, runs are cut off anywhere, peers fail and
\* the case may be cancelled or deleted under all of them.
Decided == { d \in Decisions : << "human_decision", d >> \in audit }
Review == INSTANCE CaseReview WITH decided <- Decided
ImplementsCaseReview == Review!Spec

\* Deleting a case that nobody is working on or deciding removes every task
\* of its context from every agent's store, whatever its runs left behind.
CalmDeleteIsComplete ==
  Deleted /\ calm => ~Live /\ ghosts = {} /\ rows = {}

\* What the documentation says and the code does not keep.

\* _resume: "All produce the final report and drive the task to COMPLETED".
CompletedHasReport == status = "COMPLETED" => Stored("reporting")
=============================================================================
