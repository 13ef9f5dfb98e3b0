------------------------------ MODULE A2AServer ------------------------------
(***************************************************************************)
(* One agent's A2A server (app/a2a/server.py), its event queue             *)
(* (app/a2a/executor.py) and its task store (app/a2a/task_store.py,        *)
(* app/database/task_store.py).                                            *)
(*                                                                         *)
(* A request is one SendMessage or SendStreamingMessage call.  It prepares *)
(* a task (a new one, or the one its message names), starts the agent's    *)
(* executor as a concurrent runner, and drains the runner's event queue    *)
(* into the store until the runner closes the queue, the time-out fires    *)
(* (SendMessage only) or the client goes away (streaming only).  Every     *)
(* await is a point where other requests, CancelTask, delete_context or a  *)
(* restart may run, so each handler is cut into one action per await.      *)
(* What an executor does is open: it publishes some script of Scripts and  *)
(* may raise at any point or never finish.                                 *)
(***************************************************************************)
EXTENDS TaskStates, Naturals, Sequences, FiniteSets

CONSTANTS
  Sends,      \* SendMessage requests
  Streams,    \* SendStreamingMessage requests
  Tasks,      \* task ids
  Contexts,   \* context ids: one investigation each
  Scripts,    \* the event sequences the agent's executor may publish
  None        \* no task, no context

Requests == Sends \cup Streams

\* What an executor may publish: a status update, or an artifact.
Event == TaskState \cup { "ARTIFACT" }

ASSUME RequestsAssumption == Sends \cap Streams = {}
ASSUME ScriptsAssumption == Scripts # {} /\ Scripts \subseteq Seq(Event)
\* Every executor of this repository settles what it starts: its first word is
\* one a SUBMITTED task may move to, and after each WORKING comes a state that
\* a WORKING task may move to (it may raise or hang at any point all the same).
ASSUME ScriptsSettleAssumption ==
  \A s \in Scripts :
    /\ \E i \in DOMAIN s : s[i] \in Allowed("SUBMITTED")
    /\ \A i \in DOMAIN s :
         s[i] = "WORKING" => \E j \in DOMAIN s : j > i /\ s[j] \in Allowed("WORKING")
ASSUME NoneAssumption == None \notin Tasks \cup Contexts

VARIABLES
  status,     \* the stored state of each task id
  context,    \* the stored context id of each task
  artifacts,  \* the stored artifacts of each task, as the request that emitted each
  phase,      \* where each request's handler stands
  target,     \* the task id each request works on
  seen,       \* the state in the Task object each request last read
  plan,       \* what the request's runner was going to publish
  published,  \* how much of plan it has published
  runner,     \* the runner's asyncio task
  queue,      \* the request's EventQueue
  canceling   \* tasks whose CancelTask has passed its terminal check

store == << status, context, artifacts >>
exec  == << plan, published, runner, queue >>
vars  == << store, phase, target, seen, exec, canceling >>

\* Items of an EventQueue: events and the sentinel close() puts.
Close == "CLOSE"
Item  == Event \cup { Close }

\* The phases of a handler.  A request in one of InFlight owns a live
\* coroutine; "expired" is an answer given by the time-out, "error" a JSON-RPC
\* internal error, "gone" a dropped stream, "lost" a request the process died with.
InFlight == { "found", "created", "prepared", "draining", "timed_out" }
Over     == { "answered", "expired", "error", "gone", "lost" }
Phase    == { "idle" } \cup InFlight \cup Over

TypeOK ==
  /\ status \in [Tasks -> TaskState \cup Absent]
  /\ context \in [Tasks -> Contexts \cup { None }]
  /\ artifacts \in [Tasks -> Seq(Requests)]
  /\ phase \in [Requests -> Phase]
  /\ target \in [Requests -> Tasks \cup { None }]
  /\ \A r \in Requests : phase[r] = "idle" <=> target[r] = None
  /\ seen \in [Requests -> TaskState \cup { None }]
  /\ plan \in [Requests -> Seq(Event)]
  /\ published \in [Requests -> Nat]
  /\ runner \in [Requests -> { "none", "running", "ended", "cancelled" }]
  /\ queue \in [Requests -> Seq(Item)]
  /\ canceling \subseteq Tasks

Init ==
  /\ status = [t \in Tasks |-> "UNUSED"]
  /\ context = [t \in Tasks |-> None]
  /\ artifacts = [t \in Tasks |-> << >>]
  /\ phase = [r \in Requests |-> "idle"]
  /\ target = [r \in Requests |-> None]
  /\ seen = [r \in Requests |-> None]
  /\ plan = [r \in Requests |-> << >>]
  /\ published = [r \in Requests |-> 0]
  /\ runner = [r \in Requests |-> "none"]
  /\ queue = [r \in Requests |-> << >>]
  /\ canceling = {}

Live(t) == status[t] \in TaskState

-----------------------------------------------------------------------------
(* The store's operations, each under the store's lock.                    *)

\* set_status: the transition is checked and the row written in one step.
SetStatus(t, s) ==
  /\ Live(t)
  /\ LegalMove(status[t], s)
  /\ status' = [status EXCEPT ![t] = s]

\* ... or it raises KeyError or IllegalTransition and writes nothing.
SetStatusRaises(t, s) == ~Live(t) \/ ~LegalMove(status[t], s)

\* The runner is cancelled with its request; nobody drains the queue again.
AbandonRunner(r) ==
  /\ runner' = [runner EXCEPT ![r] = IF @ = "running" THEN "cancelled" ELSE @]
  /\ queue' = [queue EXCEPT ![r] = << >>]
  /\ UNCHANGED << plan, published >>

MoveTo(r, p) == phase' = [phase EXCEPT ![r] = p]

-----------------------------------------------------------------------------
(* _prepare_task.                                                          *)

\* No task_id, or one the store does not hold: create() a task under a fresh
\* id, in the context the message names.
PrepareNew(r, t, c) ==
  /\ phase[r] = "idle"
  /\ status[t] = "UNUSED"
  /\ status' = [status EXCEPT ![t] = "SUBMITTED"]
  /\ context' = [context EXCEPT ![t] = c]
  /\ target' = [target EXCEPT ![r] = t]
  /\ seen' = [seen EXCEPT ![r] = "SUBMITTED"]
  /\ MoveTo(r, "created")
  /\ UNCHANGED << artifacts, exec, canceling >>

\* The set_status(SUBMITTED) that follows create(), unguarded.
MarkSubmitted(r) ==
  /\ phase[r] = "created"
  /\ \/ SetStatus(target[r], "SUBMITTED") /\ MoveTo(r, "prepared")
     \/ /\ SetStatusRaises(target[r], "SUBMITTED")
        /\ MoveTo(r, "error")
        /\ UNCHANGED status
  /\ UNCHANGED << context, artifacts, target, seen, exec, canceling >>

\* The message names a task the store holds: it is read whatever its state.
LookUp(r, t) ==
  /\ phase[r] = "idle"
  /\ Live(t)
  /\ target' = [target EXCEPT ![r] = t]
  /\ seen' = [seen EXCEPT ![r] = status[t]]
  /\ MoveTo(r, "found")
  /\ UNCHANGED << store, exec, canceling >>

\* append_history raises KeyError when the task went away after the read.
AppendHistory(r) ==
  /\ phase[r] = "found"
  /\ MoveTo(r, IF Live(target[r]) THEN "prepared" ELSE "error")
  /\ UNCHANGED << store, target, seen, exec, canceling >>

-----------------------------------------------------------------------------
(* _execute and stream_message: the runner and the drain loop.             *)

StartRunner(r) ==
  /\ phase[r] = "prepared"
  /\ \E s \in Scripts : plan' = [plan EXCEPT ![r] = s]
  /\ runner' = [runner EXCEPT ![r] = "running"]
  /\ MoveTo(r, "draining")
  /\ UNCHANGED << store, target, seen, published, queue, canceling >>

\* update_status and emit_artifact only publish; the server is the one writer.
Publish(r) ==
  /\ runner[r] = "running"
  /\ published[r] < Len(plan[r])
  /\ published' = [published EXCEPT ![r] = @ + 1]
  /\ queue' = [queue EXCEPT ![r] = Append(@, plan[r][published[r] + 1])]
  /\ UNCHANGED << store, phase, target, seen, plan, runner, canceling >>

\* run() returns, and the runner's finally closes the queue.
Return(r) ==
  /\ runner[r] = "running"
  /\ published[r] = Len(plan[r])
  /\ runner' = [runner EXCEPT ![r] = "ended"]
  /\ queue' = [queue EXCEPT ![r] = Append(@, Close)]
  /\ UNCHANGED << store, phase, target, seen, plan, published, canceling >>

\* A runner that puts its verdict ahead of what the executor had published.
MutRaiseJumpsQueue(r) ==
  /\ runner[r] = "running"
  /\ runner' = [runner EXCEPT ![r] = "ended"]
  /\ queue' = [queue EXCEPT ![r] = << "FAILED", Close >>]
  /\ UNCHANGED << store, phase, target, seen, plan, published, canceling >>

\* run() raises: the runner publishes FAILED, then closes the queue.
Raise(r) ==
  /\ runner[r] = "running"
  /\ runner' = [runner EXCEPT ![r] = "ended"]
  /\ queue' = [queue EXCEPT ![r] = @ \o << "FAILED", Close >>]
  /\ UNCHANGED << store, phase, target, seen, plan, published, canceling >>

\* The next item of r's queue is x, and r's drain loop takes it.
Takes(r, x) ==
  /\ phase[r] = "draining"
  /\ queue[r] # << >>
  /\ Head(queue[r]) = x

\* A drain loop that writes the published state without asking the store.
MutPersistStatusUnchecked(r) ==
  \E s \in TaskState :
    /\ Takes(r, s)
    /\ status' = [status EXCEPT ![target[r]] = s]
    /\ queue' = [queue EXCEPT ![r] = Tail(@)]
    /\ UNCHANGED << context, artifacts, phase, target, seen, plan, published,
                    runner, canceling >>

\* _persist of a status: a rejected transition is logged and dropped.
PersistStatus(r) ==
  \E s \in TaskState :
    /\ Takes(r, s)
    /\ \/ SetStatus(target[r], s)
       \/ SetStatusRaises(target[r], s) /\ UNCHANGED status
    /\ queue' = [queue EXCEPT ![r] = Tail(@)]
    /\ UNCHANGED << context, artifacts, phase, target, seen, plan, published,
                    runner, canceling >>

\* _persist of an artifact: add_artifact looks at no state, and its KeyError
\* escapes the drain loop.
PersistArtifact(r) ==
  /\ Takes(r, "ARTIFACT")
  /\ \/ /\ Live(target[r])
        /\ artifacts' = [artifacts EXCEPT ![target[r]] = Append(@, r)]
        /\ queue' = [queue EXCEPT ![r] = Tail(@)]
        /\ UNCHANGED << phase, plan, published, runner >>
     \/ /\ ~Live(target[r])
        /\ MoveTo(r, "error")
        /\ AbandonRunner(r)
        /\ UNCHANGED artifacts
  /\ UNCHANGED << status, context, target, seen, canceling >>

\* An answer built from whatever the store returns, present or not.
MutFinishTrustsStore(r) ==
  /\ Takes(r, Close)
  /\ queue' = [queue EXCEPT ![r] = << >>]
  /\ seen' = [seen EXCEPT ![r] = status[target[r]]]
  /\ MoveTo(r, "answered")
  /\ UNCHANGED << store, target, plan, published, runner, canceling >>

\* An answer built from the Task object the request started with.
MutFinishAnswersStale(r) ==
  /\ Takes(r, Close)
  /\ queue' = [queue EXCEPT ![r] = << >>]
  /\ MoveTo(r, "answered")
  /\ UNCHANGED << store, target, seen, plan, published, runner, canceling >>

\* The sentinel: the store is read once more and the answer sent.  A task
\* deleted meanwhile is answered with the Task object read first.
Finish(r) ==
  /\ Takes(r, Close)
  /\ queue' = [queue EXCEPT ![r] = << >>]
  /\ seen' = [seen EXCEPT ![r] = IF Live(target[r]) THEN status[target[r]] ELSE @]
  /\ MoveTo(r, "answered")
  /\ UNCHANGED << store, target, plan, published, runner, canceling >>

-----------------------------------------------------------------------------
(* The ways a request ends early.                                          *)

\* A time-out that is only looked at when an event arrives.
MutTimeoutBetweenEvents(r) ==
  /\ r \in Sends
  /\ phase[r] = "draining"
  /\ queue[r] # << >>
  /\ MoveTo(r, "timed_out")
  /\ AbandonRunner(r)
  /\ UNCHANGED << store, target, seen, canceling >>

\* asyncio.wait_for gives up: _execute is cancelled and cancels its runner.
Timeout(r) ==
  /\ r \in Sends
  /\ phase[r] = "draining"
  /\ MoveTo(r, "timed_out")
  /\ AbandonRunner(r)
  /\ UNCHANGED << store, target, seen, canceling >>

\* A time-out that answers without recording the failure.
MutFailTimedOutForgets(r) ==
  /\ phase[r] = "timed_out"
  /\ MoveTo(r, "expired")
  /\ UNCHANGED << store, target, seen, exec, canceling >>

\* A time-out that reports an error instead of recording the failure.
MutFailTimedOutErrs(r) ==
  /\ phase[r] = "timed_out"
  /\ MoveTo(r, "error")
  /\ UNCHANGED << store, target, seen, exec, canceling >>

\* ... and the unguarded set_status(FAILED) after it, then the answer.
FailTimedOut(r) ==
  /\ phase[r] = "timed_out"
  /\ \/ /\ SetStatus(target[r], "FAILED")
        /\ seen' = [seen EXCEPT ![r] = "FAILED"]
        /\ MoveTo(r, "expired")
     \/ /\ SetStatusRaises(target[r], "FAILED")
        /\ MoveTo(r, "error")
        /\ UNCHANGED << status, seen >>
  /\ UNCHANGED << context, artifacts, target, exec, canceling >>

\* The SSE client goes away: the generator is closed at a yield or at its
\* await, and its finally cancels the runner.  There is no other clean-up.
Disconnect(r) ==
  /\ r \in Streams
  /\ phase[r] \in { "prepared", "draining" }
  /\ MoveTo(r, "gone")
  /\ AbandonRunner(r)
  /\ UNCHANGED << store, target, seen, canceling >>

\* cancel_task reads the task and refuses a terminal one ...
CheckCancel(t) ==
  /\ Live(t)
  /\ status[t] \notin IsTerminal
  /\ t \notin canceling
  /\ canceling' = canceling \cup { t }
  /\ UNCHANGED << store, phase, target, seen, exec >>

\* ... and then writes CANCELED, or raises if the task ended or went away
\* in between.  The task's runner is not told.
ApplyCancel(t) ==
  /\ t \in canceling
  /\ canceling' = canceling \ { t }
  /\ \/ SetStatus(t, "CANCELED")
     \/ SetStatusRaises(t, "CANCELED") /\ UNCHANGED status
  /\ UNCHANGED << context, artifacts, phase, target, seen, exec >>

\* delete_context: every task of the context, whatever its state.
DeleteContext(c) ==
  LET doomed == { t \in Tasks : Live(t) /\ context[t] = c } IN
    /\ doomed # {}
    /\ status' = [t \in Tasks |-> IF t \in doomed THEN "DELETED" ELSE status[t]]
    /\ artifacts' = [t \in Tasks |-> IF t \in doomed THEN << >> ELSE artifacts[t]]
    /\ UNCHANGED << context, phase, target, seen, exec, canceling >>

\* The process dies and starts again over the same database: the rows stay,
\* every coroutine and queue is gone, and nothing revisits unfinished rows.
Restart ==
  /\ \E r \in Requests : phase[r] \in InFlight
  /\ phase' = [r \in Requests |-> IF phase[r] \in InFlight THEN "lost" ELSE phase[r]]
  /\ runner' = [r \in Requests |-> IF runner[r] = "running" THEN "cancelled"
                                                           ELSE runner[r]]
  /\ queue' = [r \in Requests |-> << >>]
  /\ canceling' = {}
  /\ UNCHANGED << store, target, seen, plan, published >>

-----------------------------------------------------------------------------
\* The steps of r's handler that only need the event loop to schedule it.
ServerStep(r) ==
  \/ MarkSubmitted(r)
  \/ AppendHistory(r)
  \/ StartRunner(r)
  \/ PersistStatus(r)
  \/ PersistArtifact(r)
  \/ Finish(r)
  \/ Timeout(r)
  \/ FailTimedOut(r)

RunnerStep(r) == Publish(r) \/ Return(r) \/ Raise(r)

ClientStep(r) ==
  \/ \E t \in Tasks, c \in Contexts : PrepareNew(r, t, c)
  \/ \E t \in Tasks : LookUp(r, t)
  \/ Disconnect(r)

Operate ==
  \/ \E r \in Requests : ServerStep(r) \/ RunnerStep(r) \/ ClientStep(r)
  \/ \E t \in Tasks : CheckCancel(t) \/ ApplyCancel(t)
  \/ \E c \in Contexts : DeleteContext(c)

Next == Operate \/ Restart

Spec == Init /\ [][Next]_vars

\* The event loop runs every ready coroutine and wait_for's timer fires; an
\* executor (it may hang on a peer or a model call) and the clients owe nothing.
LiveSpec ==
  /\ Init
  /\ [][Operate]_vars
  /\ \A r \in Requests : WF_vars(ServerStep(r))

-----------------------------------------------------------------------------
(* Properties.                                                             *)

\* Whatever races for a task, its stored state follows the lifecycle that
\* task_store.py promises ("so a bug can't move a task backwards").
Lifecycle == INSTANCE TaskLifecycle WITH Tasks <- Tasks, status <- status
ImplementsLifecycle == Lifecycle!Spec

Shared(r) == \E q \in Requests \ { r } : target[q] = target[r]

\* An internal error is never the whole story of a running task: when a
\* request ends in one (append_history, set_status or add_artifact raised),
\* its task has ended, was deleted, or is in another request's hands.
ErrorMeansOver ==
  \A r \in Requests :
    phase[r] = "error" =>
      status[target[r]] \in IsTerminal \cup { "DELETED" } \/ Shared(r)

\* The inductive invariant behind ErrorMeansOver: a request's task has been
\* created, and one just created is still as create() left it unless somebody
\* ended it, deleted it or took it up.
ErrorInv ==
  /\ TypeOK
  /\ \A r \in Requests : phase[r] # "idle" => status[target[r]] # "UNUSED"
  /\ \A r \in Requests :
       phase[r] = "created" =>
         status[target[r]] \in IsTerminal \cup { "SUBMITTED", "DELETED" } \/ Shared(r)
  /\ ErrorMeansOver

\* No task is forgotten half-done: one that still says SUBMITTED or WORKING
\* has a handler in flight, or was left by a dropped stream or a dead process
\* (the two ways out that write nothing), given executors whose scripts end
\* at rest.
NoForgottenTask ==
  \A t \in Tasks :
    status[t] \in { "SUBMITTED", "WORKING" } =>
      \E r \in Requests : /\ target[r] = t
                          /\ phase[r] \in InFlight \cup { "gone", "lost" }

\* A SendMessage answer that still says SUBMITTED or WORKING is given only
\* for a task that was deleted or that another request is working on.
AnswerIsSettled ==
  \A r \in Sends :
    phase[r] \in { "answered", "expired" } /\ seen[r] \notin AtRest =>
      status[target[r]] = "DELETED" \/ Shared(r)

CountOf(seq, x) == Cardinality({ i \in DOMAIN seq : seq[i] = x })

\* Every artifact an executor publishes is stored exactly once or is still
\* queued, in spite of dropped statuses and of other writers to the task, as
\* long as the request was not cut short and the task not deleted.
ArtifactsAccounted ==
  \A r \in Requests :
    phase[r] \in { "draining", "answered" } /\ Live(target[r]) =>
      CountOf(artifacts[target[r]], r) + CountOf(queue[r], "ARTIFACT")
        = CountOf(SubSeq(plan[r], 1, published[r]), "ARTIFACT")

\* A canceled task stays canceled although its runner is not stopped, and a
\* task another request finished is not failed by a late time-out: once at
\* rest for good, only deletion changes the stored state.
TerminalIsFinal ==
  [][\A t \in Tasks :
       status[t] \in IsTerminal => status'[t] \in { status[t], "DELETED" }]_vars

\* Every task leaves SUBMITTED and WORKING even if its executor hangs, when
\* SendMessage is the only way in and the process stays up.
TaskSettles ==
  \A t \in Tasks :
    status[t] \in { "SUBMITTED", "WORKING" }
      ~> status[t] \notin { "SUBMITTED", "WORKING" }

\* The server bounds how long an executor may run, whichever method started
\* it (executor.py, AgentExecutor.run: "The server wraps this with a timeout").
RunIsTimed ==
  \A r \in Requests : phase[r] = "draining" ~> phase[r] # "draining"

\* Every call that was accepted is answered, by a result or by an error.
CallAnswered ==
  \A r \in Requests : phase[r] \in InFlight ~> phase[r] \in Over
=============================================================================
