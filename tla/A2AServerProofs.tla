--------------------------- MODULE A2AServerProofs ---------------------------
(* What holds of A2AServer for every set of requests, tasks and contexts,  *)
(* and for executors that publish any finite sequences of events.          *)
EXTENDS A2AServer, FiniteSetTheorems, FunctionTheorems, TLAPS

\* Every action keeps the type invariant.
LEMMA TypeStep == TypeOK /\ [Next]_vars => TypeOK'
<1> SUFFICES ASSUME TypeOK, [Next]_vars PROVE TypeOK'
  OBVIOUS
<1> USE DEF TypeOK, Phase, InFlight, Over, store, exec, MoveTo
<1>1. ASSUME NEW r \in Requests, NEW t \in Tasks, NEW c \in Contexts, PrepareNew(r, t, c)
      PROVE  TypeOK'
  BY <1>1, NoneAssumption DEF PrepareNew, TaskState
<1>2. ASSUME NEW r \in Requests, MarkSubmitted(r) PROVE TypeOK'
  BY <1>2 DEF MarkSubmitted, SetStatus, TaskState
<1>3. ASSUME NEW r \in Requests, NEW t \in Tasks, LookUp(r, t) PROVE TypeOK'
  BY <1>3, NoneAssumption DEF LookUp, Live
<1>4. ASSUME NEW r \in Requests, AppendHistory(r) PROVE TypeOK'
  BY <1>4 DEF AppendHistory
<1>5. ASSUME NEW r \in Requests, StartRunner(r) PROVE TypeOK'
  BY <1>5, ScriptsAssumption DEF StartRunner
<1>6. ASSUME NEW r \in Requests, Publish(r) PROVE TypeOK'
  <2>1. plan[r][published[r] + 1] \in Item
    BY <1>6 DEF Publish, Item
  <2>2. Append(queue[r], plan[r][published[r] + 1]) \in Seq(Item)
    BY <2>1
  <2> QED
    BY <1>6, <2>2 DEF Publish
<1>7. ASSUME NEW r \in Requests, Return(r) PROVE TypeOK'
  <2>1. Append(queue[r], Close) \in Seq(Item)
    BY DEF Item
  <2> QED
    BY <1>7, <2>1 DEF Return
<1>8. ASSUME NEW r \in Requests, Raise(r) PROVE TypeOK'
  <2>1. << "FAILED", Close >> \in Seq(Item)
    BY DEF Item, Event, TaskState
  <2>2. queue[r] \o << "FAILED", Close >> \in Seq(Item)
    BY <2>1
  <2> QED
    BY <1>8, <2>2 DEF Raise
<1>9. ASSUME NEW r \in Requests, queue[r] # << >> PROVE Tail(queue[r]) \in Seq(Item)
  BY <1>9
<1>10. ASSUME NEW r \in Requests, PersistStatus(r) PROVE TypeOK'
  <2>1. PICK s \in TaskState :
           /\ queue[r] # << >>
           /\ status' = [status EXCEPT ![target[r]] = s] \/ status' = status
           /\ queue' = [queue EXCEPT ![r] = Tail(@)]
           /\ UNCHANGED << context, artifacts, phase, target, seen, plan, published,
                           runner, canceling >>
    BY <1>10 DEF PersistStatus, Takes, SetStatus
  <2>2. queue' \in [Requests -> Seq(Item)]
    BY <1>9, <2>1
  <2>3. status' \in [Tasks -> TaskState \cup Absent]
    BY <2>1
  <2> QED
    BY <2>1, <2>2, <2>3
<1>11. ASSUME NEW r \in Requests, AbandonRunner(r)
       PROVE  /\ runner' \in [Requests -> { "none", "running", "ended", "cancelled" }]
              /\ queue' \in [Requests -> Seq(Item)]
              /\ plan' = plan /\ published' = published
  BY <1>11 DEF AbandonRunner
<1>12. ASSUME NEW r \in Requests, PersistArtifact(r) PROVE TypeOK'
  <2>1. CASE Live(target[r])
    <3>1. target[r] \in Tasks
      BY <1>12 DEF PersistArtifact, Takes
    <3>2. Append(artifacts[target[r]], r) \in Seq(Requests)
      BY <3>1
    <3>3. artifacts' \in [Tasks -> Seq(Requests)]
      BY <1>12, <2>1, <3>1, <3>2 DEF PersistArtifact
    <3>4. queue' \in [Requests -> Seq(Item)]
      BY <1>9, <1>12, <2>1 DEF PersistArtifact, Takes
    <3> QED
      BY <1>12, <2>1, <3>3, <3>4 DEF PersistArtifact
  <2>2. CASE ~Live(target[r])
    <3>1. AbandonRunner(r) /\ MoveTo(r, "error") /\ UNCHANGED artifacts
      BY <1>12, <2>2 DEF PersistArtifact
    <3>2. /\ UNCHANGED << status, context, target, seen, canceling >>
          /\ phase[r] = "draining"
      BY <1>12 DEF PersistArtifact, Takes
    <3> QED
      BY <1>11, <3>1, <3>2
  <2> QED
    BY <2>1, <2>2
<1>13. ASSUME NEW r \in Requests, Finish(r) PROVE TypeOK'
  BY <1>13 DEF Finish, Takes, Live
<1>14. ASSUME NEW r \in Requests, Timeout(r) PROVE TypeOK'
  BY <1>11, <1>14 DEF Timeout
<1>15. ASSUME NEW r \in Requests, FailTimedOut(r) PROVE TypeOK'
  BY <1>15 DEF FailTimedOut, SetStatus, TaskState
<1>16. ASSUME NEW r \in Requests, Disconnect(r) PROVE TypeOK'
  BY <1>11, <1>16 DEF Disconnect
<1>17. ASSUME NEW t \in Tasks, CheckCancel(t) PROVE TypeOK'
  BY <1>17 DEF CheckCancel
<1>18. ASSUME NEW t \in Tasks, ApplyCancel(t) PROVE TypeOK'
  BY <1>18 DEF ApplyCancel, SetStatus, TaskState
<1>19. ASSUME NEW c \in Contexts, DeleteContext(c) PROVE TypeOK'
  BY <1>19 DEF DeleteContext, Absent
<1>20. CASE Restart
  BY <1>20 DEF Restart
<1>21. CASE UNCHANGED vars
  BY <1>21 DEF vars
<1> QED
  BY <1>1, <1>2, <1>3, <1>4, <1>5, <1>6, <1>7, <1>8, <1>10, <1>12, <1>13, <1>14, <1>15,
     <1>16, <1>17, <1>18, <1>19, <1>20, <1>21
  DEF Next, Operate, ServerStep, RunnerStep, ClientStep

\* The store only ever holds task states, a queue only what an executor may
\* publish, and a request that has started has a task.
THEOREM TypeCorrect == Spec => []TypeOK
<1>1. Init => TypeOK
  BY DEF Init, TypeOK, Absent, Phase, InFlight, Over, Requests
<1> QED
  BY <1>1, TypeStep, PTL DEF Spec

-----------------------------------------------------------------------------
(* The refinement: every step of the server is a step of the lifecycle.    *)

\* What any step does to the stored states is a creation, one legal move, a
\* deletion, or nothing.
LEMMA StepRefines == TypeOK /\ [Next]_vars => [Lifecycle!Next]_status
<1> SUFFICES ASSUME TypeOK, [Next]_vars PROVE [Lifecycle!Next]_status
  OBVIOUS
<1> USE DEF store
<1>1. ASSUME NEW t \in Tasks, NEW s \in TaskState, SetStatus(t, s)
      PROVE  Lifecycle!Next
  BY <1>1 DEF SetStatus, Live, Lifecycle!Next, Lifecycle!Move, Lifecycle!LegalMove,
              LegalMove, Lifecycle!IsTerminal, IsTerminal, Lifecycle!Allowed, Allowed,
              Lifecycle!TaskState, TaskState
<1>2. ASSUME NEW r \in Requests, NEW t \in Tasks, NEW c \in Contexts, PrepareNew(r, t, c)
      PROVE  Lifecycle!Next
  BY <1>2 DEF PrepareNew, Lifecycle!Next, Lifecycle!Create
<1>3. ASSUME NEW r \in Requests, MarkSubmitted(r) PROVE [Lifecycle!Next]_status
  BY <1>1, <1>3 DEF MarkSubmitted, TypeOK, TaskState
<1>4. ASSUME NEW r \in Requests, PersistStatus(r) PROVE [Lifecycle!Next]_status
  BY <1>1, <1>4 DEF PersistStatus, Takes, TypeOK
<1>5. ASSUME NEW r \in Requests, FailTimedOut(r) PROVE [Lifecycle!Next]_status
  BY <1>1, <1>5 DEF FailTimedOut, TypeOK, TaskState
<1>6. ASSUME NEW t \in Tasks, ApplyCancel(t) PROVE [Lifecycle!Next]_status
  BY <1>1, <1>6 DEF ApplyCancel, TaskState
<1>7. ASSUME NEW c \in Contexts, DeleteContext(c) PROVE Lifecycle!Next
  <2> DEFINE doomed == { t \in Tasks : Live(t) /\ context[t] = c }
  <2>1. Lifecycle!Delete(doomed)
    BY <1>7 DEF DeleteContext, Live, Lifecycle!Delete, Lifecycle!TaskState, TaskState
  <2>2. doomed \in SUBSET Tasks
    OBVIOUS
  <2> QED
    BY <2>1, <2>2 DEF Lifecycle!Next
<1>8. ASSUME NEW r \in Requests,
             \/ \E t \in Tasks : LookUp(r, t)
             \/ AppendHistory(r) \/ StartRunner(r) \/ Publish(r) \/ Return(r) \/ Raise(r)
             \/ PersistArtifact(r) \/ Finish(r) \/ Timeout(r) \/ Disconnect(r)
      PROVE  status' = status
  BY <1>8 DEF LookUp, AppendHistory, StartRunner, Publish, Return, Raise, PersistArtifact,
              Finish, Timeout, Disconnect
<1>9. ASSUME NEW t \in Tasks, CheckCancel(t) PROVE status' = status
  BY <1>9 DEF CheckCancel
<1>10. CASE Restart
  BY <1>10 DEF Restart
<1>11. CASE UNCHANGED vars
  BY <1>11 DEF vars
<1> QED
  BY <1>2, <1>3, <1>4, <1>5, <1>6, <1>7, <1>8, <1>9, <1>10, <1>11
  DEF Next, Operate, ServerStep, RunnerStep, ClientStep

\* The server, with all its races, implements the abstract task lifecycle.
THEOREM ServerImplementsLifecycle == Spec => ImplementsLifecycle
<1>1. Init => Lifecycle!Init
  BY DEF Init, Lifecycle!Init
<1> QED
  BY <1>1, StepRefines, TypeCorrect, PTL DEF Spec, ImplementsLifecycle, Lifecycle!Spec

\* A terminal state is left only by deletion, whoever writes late: an executor
\* that was not told of a CancelTask, a time-out, a second request.
THEOREM TerminalStatesAreFinal == Spec => TerminalIsFinal
<1>1. TypeOK /\ [Next]_vars
        => [\A t \in Tasks :
              status[t] \in IsTerminal => status'[t] \in { status[t], "DELETED" }]_vars
  <2> SUFFICES ASSUME TypeOK, [Next]_vars, NEW t \in Tasks, status[t] \in IsTerminal
               PROVE  status'[t] \in { status[t], "DELETED" }
    BY DEF vars
  <2>1. CASE status' = status
    BY <2>1
  <2>2. ASSUME NEW u \in Tasks, Lifecycle!Create(u) PROVE status'[t] = status[t]
    BY <2>2 DEF Lifecycle!Create, TypeOK, IsTerminal
  <2>3. ASSUME NEW u \in Tasks, NEW s \in TaskState, Lifecycle!Move(u, s)
        PROVE  status'[t] = status[t]
    BY <2>3 DEF Lifecycle!Move, Lifecycle!LegalMove, Lifecycle!IsTerminal, IsTerminal, TypeOK
  <2>4. ASSUME NEW doomed \in SUBSET Tasks, Lifecycle!Delete(doomed)
        PROVE  status'[t] \in { status[t], "DELETED" }
    BY <2>4 DEF Lifecycle!Delete
  <2> QED
    BY <2>1, <2>2, <2>3, <2>4, StepRefines DEF Lifecycle!Next, Lifecycle!TaskState, TaskState
<1> QED
  BY <1>1, TypeCorrect, PTL DEF Spec, TerminalIsFinal

-----------------------------------------------------------------------------
(* Internal errors.                                                        *)

\* A request keeps the task it was given.
LEMMA TargetsStay ==
  ASSUME TypeOK, [Next]_vars, NEW r \in Requests, target[r] # None
  PROVE  target'[r] = target[r] /\ phase'[r] # "idle"
<1> USE DEF TypeOK, MoveTo, InFlight
<1>1. ASSUME NEW q \in Requests,
             \/ \E t \in Tasks, c \in Contexts : PrepareNew(q, t, c)
             \/ \E t \in Tasks : LookUp(q, t)
      PROVE  target'[r] = target[r] /\ phase'[r] # "idle"
  BY <1>1 DEF PrepareNew, LookUp
<1>2. ASSUME NEW q \in Requests, ServerStep(q) \/ RunnerStep(q) \/ Disconnect(q)
      PROVE  target'[r] = target[r] /\ phase'[r] # "idle"
  BY <1>2 DEF ServerStep, RunnerStep, Disconnect, MarkSubmitted, AppendHistory, StartRunner,
              PersistStatus, PersistArtifact, Finish, Timeout, FailTimedOut, Publish, Return,
              Raise
<1>3. ASSUME NEW t \in Tasks, CheckCancel(t) \/ ApplyCancel(t)
      PROVE  target'[r] = target[r] /\ phase'[r] # "idle"
  BY <1>3 DEF CheckCancel, ApplyCancel
<1>4. ASSUME NEW c \in Contexts, DeleteContext(c)
      PROVE  target'[r] = target[r] /\ phase'[r] # "idle"
  BY <1>4 DEF DeleteContext
<1>5. CASE Restart
  BY <1>5 DEF Restart
<1>6. CASE UNCHANGED vars
  BY <1>6 DEF vars
<1> QED
  BY <1>1, <1>2, <1>3, <1>4, <1>5, <1>6 DEF Next, Operate, ClientStep

\* Terminal and deleted tasks stay so, and a created one is never uncreated.
LEMMA EndsStay ==
  ASSUME TypeOK, [Next]_vars, NEW t \in Tasks
  PROVE  /\ status[t] \in IsTerminal \cup { "DELETED" }
              => status'[t] \in IsTerminal \cup { "DELETED" }
         /\ status[t] # "UNUSED" => status'[t] # "UNUSED"
<1> DEFINE Stays == /\ status[t] \in IsTerminal \cup { "DELETED" }
                         => status'[t] \in IsTerminal \cup { "DELETED" }
                    /\ status[t] # "UNUSED" => status'[t] # "UNUSED"
<1>1. CASE status' = status
  BY <1>1
<1>2. ASSUME NEW u \in Tasks, Lifecycle!Create(u) PROVE Stays
  BY <1>2 DEF Lifecycle!Create, TypeOK, IsTerminal
<1>3. ASSUME NEW u \in Tasks, NEW s \in TaskState, Lifecycle!Move(u, s) PROVE Stays
  BY <1>3 DEF Lifecycle!Move, Lifecycle!LegalMove, Lifecycle!IsTerminal, IsTerminal, TypeOK,
              Lifecycle!TaskState, TaskState
<1>4. ASSUME NEW doomed \in SUBSET Tasks, Lifecycle!Delete(doomed) PROVE Stays
  BY <1>4 DEF Lifecycle!Delete
<1> QED
  BY <1>1, <1>2, <1>3, <1>4, StepRefines DEF Lifecycle!Next, Lifecycle!TaskState, TaskState

\* Only a request's own handler moves its phase, short of a restart.
LEMMA OwnStepsOnly ==
  ASSUME TypeOK, [Next]_vars, NEW r \in Requests, phase'[r] # phase[r]
  PROVE  ServerStep(r) \/ ClientStep(r) \/ Restart
<1> USE DEF TypeOK, MoveTo
<1>1. ASSUME NEW q \in Requests, q # r, ServerStep(q) PROVE FALSE
  BY <1>1 DEF ServerStep, MarkSubmitted, AppendHistory, StartRunner, PersistStatus,
              PersistArtifact, Finish, Timeout, FailTimedOut
<1>2. ASSUME NEW q \in Requests, q # r, ClientStep(q) PROVE FALSE
  BY <1>2 DEF ClientStep, PrepareNew, LookUp, Disconnect
<1>3. ASSUME NEW q \in Requests, RunnerStep(q) PROVE FALSE
  BY <1>3 DEF RunnerStep, Publish, Return, Raise
<1>4. ASSUME NEW t \in Tasks, CheckCancel(t) \/ ApplyCancel(t) PROVE FALSE
  BY <1>4 DEF CheckCancel, ApplyCancel
<1>5. ASSUME NEW c \in Contexts, DeleteContext(c) PROVE FALSE
  BY <1>5 DEF DeleteContext
<1>6. CASE UNCHANGED vars
  BY <1>6 DEF vars
<1> QED
  BY <1>1, <1>2, <1>3, <1>4, <1>5, <1>6 DEF Next, Operate

\* A request leaves "idle" by being given a task, new or found.
LEMMA IdleUntilClientStep ==
  ASSUME TypeOK, [Next]_vars, NEW r \in Requests, phase[r] = "idle", phase'[r] # "idle"
  PROVE  \E t \in Tasks : LookUp(r, t) \/ \E c \in Contexts : PrepareNew(r, t, c)
<1>1. ~Restart
  BY ZenonT(60) DEF Restart, TypeOK, InFlight
<1>2. ~ServerStep(r) /\ ~Disconnect(r)
  BY DEF ServerStep, Disconnect, MarkSubmitted, AppendHistory, StartRunner, PersistStatus,
         PersistArtifact, Finish, Timeout, FailTimedOut, Takes
<1> QED
  BY <1>1, <1>2, OwnStepsOnly DEF ClientStep

\* "created" is entered by creating the task.
LEMMA CreatedByPrepareNew ==
  ASSUME TypeOK, [Next]_vars, NEW r \in Requests, phase[r] # "created", phase'[r] = "created"
  PROVE  \E t \in Tasks, c \in Contexts : PrepareNew(r, t, c)
<1> USE DEF TypeOK, MoveTo
<1>1. ~Restart
  BY DEF Restart
<1>2. ~ServerStep(r)
  BY DEF ServerStep, MarkSubmitted, AppendHistory, StartRunner, PersistStatus,
         PersistArtifact, Finish, Timeout, FailTimedOut
<1>3. ~Disconnect(r) /\ \A t \in Tasks : ~LookUp(r, t)
  BY DEF Disconnect, LookUp
<1> QED
  BY <1>1, <1>2, <1>3, OwnStepsOnly DEF ClientStep

\* While a request stands between create() and set_status(SUBMITTED), nobody
\* but a canceller, a deletion or a sharer changes its task.
LEMMA CreatedStays ==
  ASSUME TypeOK, [Next]_vars, NEW r \in Requests, phase[r] = "created", ~Shared(r),
         status[target[r]] = "SUBMITTED", phase'[r] = "created"
  PROVE  status'[target[r]] \in IsTerminal \cup { "SUBMITTED", "DELETED" }
<1> USE DEF TypeOK, MoveTo
<1>1. ASSUME NEW q \in Requests, target[q] # target[r],
             MarkSubmitted(q) \/ PersistStatus(q) \/ FailTimedOut(q)
      PROVE  status'[target[r]] = "SUBMITTED"
  BY <1>1 DEF MarkSubmitted, PersistStatus, FailTimedOut, SetStatus
<1>2. ASSUME NEW q \in Requests, target[q] = target[r],
             MarkSubmitted(q) \/ PersistStatus(q) \/ FailTimedOut(q)
      PROVE  FALSE
  <2>1. q = r
    BY <1>2 DEF Shared
  <2> QED
    BY <1>2, <2>1 DEF MarkSubmitted, PersistStatus, FailTimedOut, Takes
<1>3. ASSUME NEW q \in Requests, NEW t \in Tasks, NEW c \in Contexts, PrepareNew(q, t, c)
      PROVE  status'[target[r]] = "SUBMITTED"
  BY <1>3 DEF PrepareNew
<1>4. ASSUME NEW t \in Tasks, ApplyCancel(t)
      PROVE  status'[target[r]] \in { "SUBMITTED", "CANCELED" }
  BY <1>4 DEF ApplyCancel, SetStatus
<1>5. ASSUME NEW c \in Contexts, DeleteContext(c)
      PROVE  status'[target[r]] \in { "SUBMITTED", "DELETED" }
  BY <1>5 DEF DeleteContext
<1>6. ASSUME NEW q \in Requests,
             \/ \E t \in Tasks : LookUp(q, t)
             \/ AppendHistory(q) \/ StartRunner(q) \/ Publish(q) \/ Return(q) \/ Raise(q)
             \/ PersistArtifact(q) \/ Finish(q) \/ Timeout(q) \/ Disconnect(q)
      PROVE  status' = status
  BY <1>6 DEF LookUp, AppendHistory, StartRunner, Publish, Return, Raise, PersistArtifact,
              Finish, Timeout, Disconnect, store
<1>7. ASSUME NEW t \in Tasks, CheckCancel(t) PROVE status' = status
  BY <1>7 DEF CheckCancel, store
<1>8. CASE Restart \/ UNCHANGED vars
  BY <1>8 DEF Restart, vars, store
<1> QED
  BY <1>1, <1>2, <1>3, <1>4, <1>5, <1>6, <1>7, <1>8
  DEF IsTerminal, Next, Operate, ServerStep, RunnerStep, ClientStep

\* The operations that raise do so on a task that has ended, was deleted or
\* is shared.
LEMMA ErrorsAreLate ==
  ASSUME ErrorInv, [Next]_vars, NEW r \in Requests, phase[r] # "error", phase'[r] = "error"
  PROVE  /\ phase[r] # "idle"
         /\ status[target[r]] \in IsTerminal \cup { "DELETED" } \/ Shared(r)
<1> USE DEF ErrorInv, TypeOK, MoveTo
<1>1. ~Restart /\ ~ClientStep(r)
  BY DEF Restart, ClientStep, PrepareNew, LookUp, Disconnect
<1>2. ~(StartRunner(r) \/ PersistStatus(r) \/ Finish(r) \/ Timeout(r))
  BY DEF StartRunner, PersistStatus, Finish, Timeout
<1>3. ASSUME ~Live(target[r]), phase[r] # "idle" PROVE status[target[r]] = "DELETED"
  BY <1>3 DEF Live, Absent
<1>4. CASE MarkSubmitted(r)
  BY <1>3, <1>4 DEF MarkSubmitted, SetStatusRaises, SetStatus, LegalMove, IsTerminal
<1>5. CASE AppendHistory(r) \/ PersistArtifact(r)
  BY <1>3, <1>5 DEF AppendHistory, PersistArtifact, Takes
<1>6. CASE FailTimedOut(r)
  <2>1. ~Live(target[r]) \/ ~LegalMove(status[target[r]], "FAILED")
    BY <1>6 DEF FailTimedOut, SetStatusRaises
  <2>2. phase[r] = "timed_out"
    BY <1>6 DEF FailTimedOut
  <2>3. ASSUME Live(target[r]), ~LegalMove(status[target[r]], "FAILED")
        PROVE  status[target[r]] \in IsTerminal
    BY <2>3 DEF Live, TaskState, LegalMove, Allowed, IsTerminal
  <2> QED
    BY <1>3, <2>1, <2>2, <2>3
<1> QED
  BY <1>1, <1>2, <1>4, <1>5, <1>6, OwnStepsOnly DEF ServerStep

\* The inductive invariant is preserved: one step per action that can end a
\* request in an error or create its task; every other action only keeps it.
LEMMA ErrorInvStep == ErrorInv /\ [Next]_vars => ErrorInv'
<1> SUFFICES ASSUME ErrorInv, [Next]_vars, TypeOK' PROVE ErrorInv'
  BY TypeStep DEF ErrorInv
<1>1. TypeOK
  BY DEF ErrorInv
<1> DEFINE Ended(r) == status[target[r]] \in IsTerminal \cup { "DELETED" }
<1>2. ASSUME NEW r \in Requests, phase[r] # "idle"
      PROVE  /\ target[r] \in Tasks /\ target'[r] = target[r]
             /\ Ended(r) => Ended(r)'
             /\ Shared(r) => Shared(r)'
             /\ status[target[r]] # "UNUSED" => status'[target[r]] # "UNUSED"
  <2>1. target[r] \in Tasks /\ target[r] # None
    BY <1>1, <1>2 DEF TypeOK
  <2>2. target'[r] = target[r]
    BY <1>1, <2>1, TargetsStay
  <2>3. ASSUME Shared(r) PROVE Shared(r)'
    <3>1. PICK q \in Requests \ { r } : target[q] = target[r]
      BY <2>3 DEF Shared
    <3>2. target'[q] = target[q]
      BY <1>1, <2>1, <3>1, TargetsStay
    <3> QED
      BY <2>2, <3>1, <3>2 DEF Shared
  <2> QED
    BY <1>1, <2>1, <2>2, <2>3, EndsStay
<1>3. ASSUME NEW r \in Requests, phase'[r] # "idle" PROVE status'[target'[r]] # "UNUSED"
  <2>1. CASE phase[r] # "idle"
    BY <1>2, <1>3, <2>1 DEF ErrorInv
  <2>2. CASE phase[r] = "idle"
    <3>1. PICK t \in Tasks : LookUp(r, t) \/ \E c \in Contexts : PrepareNew(r, t, c)
      BY <1>1, <1>3, <2>2, IdleUntilClientStep
    <3> QED
      BY <1>1, <3>1 DEF PrepareNew, LookUp, Live, store, TypeOK, TaskState
  <2> QED
    BY <2>1, <2>2
<1>4. ASSUME NEW r \in Requests, phase'[r] = "created"
      PROVE  status'[target'[r]] \in IsTerminal \cup { "SUBMITTED", "DELETED" } \/ Shared(r)'
  <2>1. CASE phase[r] = "created"
    <3>1. CASE Shared(r) \/ Ended(r)
      BY <1>2, <2>1, <3>1
    <3>2. CASE ~Shared(r) /\ ~Ended(r)
      <4>1. status[target[r]] = "SUBMITTED"
        BY <2>1, <3>2 DEF ErrorInv
      <4> QED
        BY <1>1, <1>2, <1>4, <2>1, <3>2, <4>1, CreatedStays
    <3> QED
      BY <3>1, <3>2
  <2>2. CASE phase[r] # "created"
    <3>1. PICK t \in Tasks, c \in Contexts : PrepareNew(r, t, c)
      BY <1>1, <1>4, <2>2, CreatedByPrepareNew
    <3> QED
      BY <1>1, <3>1 DEF PrepareNew, TypeOK
  <2> QED
    BY <2>1, <2>2
<1>5. ASSUME NEW r \in Requests, phase'[r] = "error" PROVE Ended(r)' \/ Shared(r)'
  <2>1. CASE phase[r] = "error"
    BY <1>2, <2>1 DEF ErrorInv, ErrorMeansOver
  <2>2. CASE phase[r] # "error"
    <3>1. phase[r] # "idle" /\ (Ended(r) \/ Shared(r))
      BY <1>5, <2>2, ErrorsAreLate
    <3> QED
      BY <1>2, <3>1
  <2> QED
    BY <2>1, <2>2
<1> QED
  BY <1>3, <1>4, <1>5 DEF ErrorInv, ErrorMeansOver

\* An internal error never leaves a task running unattended.
THEOREM ErrorsLeaveNothingRunning == Spec => []ErrorMeansOver
<1>1. Init => ErrorInv
  <2>1. Init => TypeOK
    BY DEF Init, TypeOK, Absent, Phase, InFlight, Over, Requests
  <2> QED
    BY <2>1 DEF Init, ErrorInv, ErrorMeansOver
<1>2. ErrorInv => ErrorMeansOver
  BY DEF ErrorInv
<1> QED
  BY <1>1, <1>2, ErrorInvStep, PTL DEF Spec

-----------------------------------------------------------------------------
(* Who answers for a task.                                                 *)

\* Before its runner starts, a request has published nothing.
Fresh == { "idle", "found", "created", "prepared" }

\* An event of S is queued, or is still to be published by r's executor.
Yields(r, S) ==
  \/ \E i \in DOMAIN queue[r] : queue[r][i] \in S
  \/ /\ runner[r] = "running"
     /\ \E i \in DOMAIN plan[r] : i > published[r] /\ plan[r][i] \in S

\* r answers for its task while the task says s: it will yet drain an event
\* the task may move to from s, or fail it, or it went the way of a dropped
\* stream or a dead process.
Owns(r, s) ==
  \/ phase[r] \in { "timed_out", "gone", "lost" }
  \/ s = "SUBMITTED" /\ phase[r] \in { "found", "created", "prepared" }
  \/ phase[r] = "draining" /\ Yields(r, Allowed(s))


\* A step leaves r's handler, runner and queue alone.
Same(r) ==
  /\ phase'[r] = phase[r] /\ target'[r] = target[r] /\ seen'[r] = seen[r]
  /\ plan'[r] = plan[r] /\ published'[r] = published[r]
  /\ runner'[r] = runner[r] /\ queue'[r] = queue[r]

\* The steps that are r's own.
OwnStep(r) == ServerStep(r) \/ RunnerStep(r) \/ ClientStep(r)

\* What is not a step of a request, nor a restart, leaves its handler alone.
LEMMA OthersKeep ==
  ASSUME TypeOK, [Next]_vars, NEW r \in Requests, ~OwnStep(r), ~Restart
  PROVE  Same(r)
<1> USE DEF TypeOK, MoveTo, Same, store, exec, AbandonRunner
<1>1. ASSUME NEW q \in Requests, q # r, ServerStep(q) PROVE Same(r)
  <2>1. CASE MarkSubmitted(q) \/ AppendHistory(q) \/ StartRunner(q) \/ FailTimedOut(q)
    BY <1>1, <2>1 DEF MarkSubmitted, AppendHistory, StartRunner, FailTimedOut
  <2>2. CASE PersistStatus(q)
    BY <1>1, <2>2 DEF PersistStatus
  <2>3. CASE PersistArtifact(q)
    BY <1>1, <2>3 DEF PersistArtifact
  <2>4. CASE Finish(q) \/ Timeout(q)
    BY <1>1, <2>4 DEF Finish, Timeout
  <2> QED
    BY <1>1, <2>1, <2>2, <2>3, <2>4 DEF ServerStep
<1>2. ASSUME NEW q \in Requests, q # r, ClientStep(q) PROVE Same(r)
  BY <1>2 DEF ClientStep, PrepareNew, LookUp, Disconnect
<1>3. ASSUME NEW q \in Requests, q # r, RunnerStep(q) PROVE Same(r)
  BY <1>3 DEF RunnerStep, Publish, Return, Raise
<1>4. ASSUME NEW t \in Tasks, CheckCancel(t) \/ ApplyCancel(t) PROVE Same(r)
  BY <1>4 DEF CheckCancel, ApplyCancel
<1>5. ASSUME NEW c \in Contexts, DeleteContext(c) PROVE Same(r)
  BY <1>5 DEF DeleteContext
<1>6. CASE UNCHANGED vars
  BY <1>6 DEF vars
<1> QED
  BY <1>1, <1>2, <1>3, <1>4, <1>5, <1>6 DEF Next, Operate, OwnStep

\* One request's handler, runner and queue agree: nothing is published before
\* the runner starts or after the request is over, the sentinel is the last
\* item of the queue and only of an ended runner, and behind a WORKING there
\* is a state to move on to.
HandlerOK(r) ==
  /\ phase[r] \in Fresh => runner[r] = "none" /\ queue[r] = << >> /\ published[r] = 0
  /\ phase[r] = "draining" =>
       /\ plan[r] \in Scripts
       /\ published[r] <= Len(plan[r])
       /\ \/ /\ runner[r] = "running"
             /\ \A i \in DOMAIN queue[r] : queue[r][i] # Close
          \/ /\ runner[r] = "ended"
             /\ queue[r] # << >>
             /\ \A i \in DOMAIN queue[r] : queue[r][i] = Close <=> i = Len(queue[r])
  /\ phase[r] \notin Fresh \cup { "draining" } =>
       runner[r] # "running" /\ queue[r] = << >>
  /\ \A i \in DOMAIN queue[r] :
       queue[r][i] = "WORKING" =>
         \/ \E j \in DOMAIN queue[r] : j > i /\ queue[r][j] \in Allowed("WORKING")
         \/ /\ runner[r] = "running"
            /\ \E j \in DOMAIN plan[r] :
                 j > published[r] /\ plan[r][j] \in Allowed("WORKING")

\* Where a task may go from the two states in which somebody works on it.
LEMMA WorkingAllows ==
  /\ Allowed("WORKING") = { "COMPLETED", "FAILED", "CANCELED", "INPUT_REQUIRED", "AUTH_REQUIRED" }
  /\ Allowed("SUBMITTED") = { "WORKING", "REJECTED", "FAILED", "CANCELED" }
BY DEF Allowed

\* What comes later in a queue still does when its first item is taken.
LEMMA TailShifts ==
  ASSUME NEW S, NEW q \in Seq(S), q # << >>,
         NEW i \in DOMAIN Tail(q), NEW j \in DOMAIN q, j > i + 1
  PROVE  j - 1 \in DOMAIN Tail(q) /\ j - 1 > i /\ Tail(q)[j - 1] = q[j]
<1> DEFINE n == Len(q)
           t == Tail(q)
<1>1. /\ n \in Nat /\ n > 0 /\ DOMAIN q = 1 .. n
      /\ DOMAIN t = 1 .. n - 1 /\ \A k \in 1 .. n - 1 : t[k] = q[k + 1]
  OBVIOUS
<1> HIDE DEF n, t
<1>2. i \in 1 .. n - 1 /\ j \in 1 .. n
  BY <1>1 DEF t
<1>3. j - 1 \in 1 .. n - 1 /\ j - 1 > i /\ (j - 1) + 1 = j
  BY <1>1, <1>2
<1> QED
  BY <1>1, <1>3 DEF t

\* What the steps of a request make of its handler.
LEMMA HandlerStep ==
  ASSUME TypeOK, TypeOK', [Next]_vars, NEW r \in Requests, HandlerOK(r)
  PROVE  HandlerOK(r)'
<1>1. CASE ~OwnStep(r) /\ ~Restart
  <2>1. Same(r)
    BY <1>1, OthersKeep
  <2> QED
    BY <2>1 DEF Same, HandlerOK
<1>2. CASE Restart
  BY <1>2 DEF Restart, HandlerOK, TypeOK, Phase, InFlight, Over, Fresh
<1>3. CASE ClientStep(r)
  <2>1. CASE Disconnect(r)
    BY <2>1 DEF Disconnect, AbandonRunner, HandlerOK, TypeOK, MoveTo, Fresh
  <2>2. CASE ~Disconnect(r)
    <3>1. /\ phase[r] = "idle" /\ phase'[r] \in { "created", "found" }
          /\ UNCHANGED exec
      BY <1>3, <2>2 DEF ClientStep, PrepareNew, LookUp, MoveTo, TypeOK
    <3> QED
      BY <3>1 DEF exec, HandlerOK, Fresh
  <2> QED
    BY <2>1, <2>2
<1>4. CASE MarkSubmitted(r) \/ AppendHistory(r) \/ FailTimedOut(r)
  BY <1>4 DEF MarkSubmitted, AppendHistory, FailTimedOut, HandlerOK, TypeOK, MoveTo, Fresh, exec
<1>5. CASE StartRunner(r)
  <2>1. /\ phase[r] = "prepared" /\ phase'[r] = "draining" /\ plan'[r] \in Scripts
        /\ runner'[r] = "running" /\ UNCHANGED << published, queue >>
    BY <1>5 DEF StartRunner, TypeOK, MoveTo
  <2>2. queue[r] = << >> /\ published[r] = 0
    BY <2>1 DEF HandlerOK, Fresh
  <2>3. Len(plan'[r]) \in Nat
    BY <2>1, ScriptsAssumption
  <2> QED
    BY <2>1, <2>2, <2>3 DEF HandlerOK, Fresh
<1>6. CASE Publish(r)
  <2> DEFINE x == plan[r][published[r] + 1]
  <2>1. /\ runner[r] = "running" /\ runner'[r] = "running"
        /\ phase'[r] = phase[r] /\ plan'[r] = plan[r]
        /\ published[r] < Len(plan[r]) /\ published'[r] = published[r] + 1
        /\ queue'[r] = Append(queue[r], x)
    BY <1>6 DEF Publish, TypeOK
  <2>2. plan[r] \in Seq(Event) /\ queue[r] \in Seq(Item) /\ published[r] \in Nat
    BY DEF TypeOK
  <2>3. phase[r] = "draining"
    BY <2>1 DEF HandlerOK
  <2>4. x \in Event /\ published[r] + 1 \in DOMAIN plan[r]
    BY <2>1, <2>2
  <2>5. x # Close
    BY <2>4 DEF Event, Close, TaskState
  <2> DEFINE q == queue[r]   n == Len(queue[r])
  <2>6. /\ n \in Nat /\ DOMAIN q = 1 .. n
        /\ DOMAIN queue'[r] = 1 .. n + 1
        /\ \A i \in 1 .. n : queue'[r][i] = q[i]
        /\ queue'[r][n + 1] = x
    BY <2>1, <2>2, <2>4 DEF Item
  <2>7. \A i \in DOMAIN queue'[r] : queue'[r][i] # Close
    BY <2>1, <2>3, <2>5, <2>6 DEF HandlerOK
  <2>8. ASSUME NEW i \in DOMAIN queue'[r], queue'[r][i] = "WORKING"
        PROVE  \/ \E j \in DOMAIN queue'[r] : j > i /\ queue'[r][j] \in Allowed("WORKING")
               \/ \E j \in DOMAIN plan[r] :
                    j > published[r] + 1 /\ plan[r][j] \in Allowed("WORKING")
    <3>1. CASE i = n + 1
      <4>1. PICK j \in DOMAIN plan[r] : j > published[r] + 1 /\ plan[r][j] \in Allowed("WORKING")
        BY <2>3, <2>4, <2>6, <2>8, <3>1, ScriptsSettleAssumption DEF HandlerOK
      <4> QED
        BY <4>1
    <3>2. CASE i \in 1 .. n /\ \E j \in DOMAIN q : j > i /\ q[j] \in Allowed("WORKING")
      BY <2>6, <3>2
    <3>3. CASE i \in 1 .. n /\ \E j \in DOMAIN plan[r] :
                                 j > published[r] /\ plan[r][j] \in Allowed("WORKING")
      <4>1. PICK j \in DOMAIN plan[r] : j > published[r] /\ plan[r][j] \in Allowed("WORKING")
        BY <3>3
      <4>2. CASE j = published[r] + 1
        BY <2>6, <3>3, <4>1, <4>2
      <4>3. CASE j > published[r] + 1
        BY <4>1, <4>3
      <4> QED
        BY <2>2, <4>1, <4>2, <4>3
    <3>4. i \in 1 .. n => q[i] = "WORKING"
      BY <2>6, <2>8
    <3> QED
      BY <2>6, <2>8, <3>1, <3>2, <3>3, <3>4 DEF HandlerOK
  <2>9. published'[r] <= Len(plan'[r])
    BY <2>1, <2>2
  <2> HIDE DEF x, q, n
  <2> QED
    BY <2>1, <2>3, <2>7, <2>8, <2>9 DEF HandlerOK, Fresh
<1>7. CASE Return(r) \/ Raise(r)
  <2>1. /\ runner[r] = "running" /\ runner'[r] = "ended"
        /\ UNCHANGED << phase, plan, published >>
        /\ \/ published[r] = Len(plan[r]) /\ queue'[r] = Append(queue[r], Close)
           \/ queue'[r] = queue[r] \o << "FAILED", Close >>
    BY <1>7 DEF Return, Raise, TypeOK
  <2>2. plan[r] \in Seq(Event) /\ queue[r] \in Seq(Item) /\ published[r] \in Nat
    BY DEF TypeOK
  <2>3. phase[r] = "draining"
    BY <2>1 DEF HandlerOK
  <2> DEFINE q == queue[r]   n == Len(queue[r])
  <2>4. n \in Nat /\ DOMAIN q = 1 .. n /\ \A i \in 1 .. n : q[i] # Close
    BY <2>1, <2>2, <2>3 DEF HandlerOK
  <2>5. CASE published[r] = Len(plan[r]) /\ queue'[r] = Append(q, Close)
    <3>1. /\ DOMAIN queue'[r] = 1 .. n + 1 /\ Len(queue'[r]) = n + 1
          /\ \A i \in 1 .. n : queue'[r][i] = q[i]
          /\ queue'[r][n + 1] = Close
      BY <2>2, <2>4, <2>5 DEF Item
    <3>2. ASSUME NEW i \in 1 .. n, q[i] = "WORKING"
          PROVE  \E j \in DOMAIN queue'[r] : j > i /\ queue'[r][j] \in Allowed("WORKING")
      <4>1. ~\E j \in DOMAIN plan[r] : j > published[r]
        BY <2>2, <2>5
      <4> QED
        BY <2>4, <3>1, <3>2, <4>1 DEF HandlerOK
    <3>3. Close # "WORKING"
      BY DEF Close
    <3>4. queue'[r] # << >>
      BY <3>1, <2>4
    <3> HIDE DEF q, n
    <3> QED
      BY <2>1, <2>3, <2>4, <2>5, <3>1, <3>2, <3>3, <3>4 DEF HandlerOK, Fresh
  <2>6. CASE queue'[r] = q \o << "FAILED", Close >>
    <3>1. /\ DOMAIN queue'[r] = 1 .. n + 2 /\ Len(queue'[r]) = n + 2
          /\ \A i \in 1 .. n : queue'[r][i] = q[i]
          /\ queue'[r][n + 1] = "FAILED"
          /\ queue'[r][n + 2] = Close
      BY <2>2, <2>4, <2>6
    <3>2. ASSUME NEW i \in 1 .. n
          PROVE  \E j \in DOMAIN queue'[r] : j > i /\ queue'[r][j] \in Allowed("WORKING")
      BY <2>4, <3>1, WorkingAllows, SMTT(60)
    <3>3. Close # "WORKING" /\ Close # "FAILED"
      BY DEF Close
    <3>4. queue'[r] # << >>
      BY <3>1, <2>4
    <3>5. \A i \in DOMAIN queue'[r] : queue'[r][i] = Close <=> i = Len(queue'[r])
      BY <2>4, <3>1, <3>3
    <3>6. \A i \in DOMAIN queue'[r] : queue'[r][i] = "WORKING" => i \in 1 .. n
      BY <2>4, <3>1, <3>3
    <3> HIDE DEF q, n
    <3> QED
      BY <2>1, <2>3, <3>2, <3>4, <3>5, <3>6 DEF HandlerOK, Fresh
  <2> HIDE DEF q, n
  <2> QED
    BY <2>1, <2>5, <2>6 DEF q
<1>8. CASE PersistStatus(r) \/ (PersistArtifact(r) /\ Live(target[r]))
  <2>1. /\ phase[r] = "draining" /\ queue[r] # << >> /\ queue'[r] = Tail(queue[r])
        /\ Head(queue[r]) # Close
        /\ UNCHANGED << phase, plan, published, runner >>
    BY <1>8 DEF PersistStatus, PersistArtifact, Takes, TypeOK, Close, TaskState
  <2> DEFINE q == queue[r]   n == Len(queue[r])
  <2>2. /\ n \in Nat /\ n > 0 /\ DOMAIN q = 1 .. n
        /\ DOMAIN queue'[r] = 1 .. n - 1 /\ Len(queue'[r]) = n - 1
        /\ \A i \in 1 .. n - 1 : queue'[r][i] = q[i + 1]
        /\ q[1] # Close
    BY <2>1 DEF TypeOK
  <2>3. CASE runner[r] = "running"
    <3>1. \A i \in DOMAIN queue'[r] : queue'[r][i] # Close
      <4>1. \A i \in DOMAIN q : q[i] # Close
        BY <2>1, <2>3 DEF HandlerOK
      <4>2. ASSUME NEW i \in DOMAIN queue'[r] PROVE queue'[r][i] = q[i + 1] /\ i + 1 \in DOMAIN q
        BY <2>2
      <4> QED
        BY <4>1, <4>2
    <3>2. ASSUME NEW i \in DOMAIN queue'[r], queue'[r][i] = "WORKING",
                 NEW j \in DOMAIN q, j > i + 1, q[j] \in Allowed("WORKING")
          PROVE  \E k \in DOMAIN queue'[r] : k > i /\ queue'[r][k] \in Allowed("WORKING")
      <4>1. j - 1 \in DOMAIN queue'[r] /\ j - 1 > i /\ queue'[r][j - 1] = q[j]
        BY <2>1, <3>2, TailShifts DEF TypeOK
      <4> QED
        BY <3>2, <4>1
    <3>3. ASSUME NEW i \in DOMAIN queue'[r], queue'[r][i] = "WORKING"
          PROVE  \/ \E k \in DOMAIN queue'[r] : k > i /\ queue'[r][k] \in Allowed("WORKING")
                 \/ \E j \in DOMAIN plan[r] :
                      j > published[r] /\ plan[r][j] \in Allowed("WORKING")
      <4>1. i + 1 \in DOMAIN q /\ q[i + 1] = "WORKING"
        BY <2>2, <3>3
      <4> QED
        BY <3>2, <3>3, <4>1 DEF HandlerOK
    <3> HIDE DEF q, n
    <3> QED
      BY <2>1, <2>3, <3>1, <3>3 DEF HandlerOK, Fresh
  <2>4. CASE runner[r] = "ended"
    <3>1. q[n] = Close /\ n > 1
      BY <2>1, <2>2, <2>4 DEF HandlerOK
    <3>2. /\ queue'[r] # << >>
          /\ \A i \in DOMAIN queue'[r] : queue'[r][i] = Close <=> i = Len(queue'[r])
      BY <2>1, <2>2, <2>4, <3>1 DEF HandlerOK
    <3>3. ASSUME NEW i \in DOMAIN queue'[r], queue'[r][i] = "WORKING"
          PROVE  \E k \in DOMAIN queue'[r] : k > i /\ queue'[r][k] \in Allowed("WORKING")
      <4>1. i + 1 \in DOMAIN q /\ q[i + 1] = "WORKING"
        BY <2>2, <3>3
      <4>2. PICK j \in DOMAIN q : j > i + 1 /\ q[j] \in Allowed("WORKING")
        BY <2>4, <4>1 DEF HandlerOK
      <4>3. j - 1 \in DOMAIN queue'[r] /\ j - 1 > i /\ queue'[r][j - 1] = q[j]
        BY <2>1, <4>2, TailShifts DEF TypeOK
      <4> QED
        BY <4>2, <4>3
    <3> HIDE DEF q, n
    <3> QED
      BY <2>1, <2>4, <3>2, <3>3 DEF HandlerOK, Fresh
  <2> HIDE DEF q, n
  <2> QED
    BY <2>1, <2>3, <2>4 DEF HandlerOK
<1>9. CASE Finish(r) \/ Timeout(r) \/ (PersistArtifact(r) /\ ~Live(target[r]))
  <2>1. /\ phase[r] = "draining" /\ phase'[r] \in { "answered", "timed_out", "error" }
        /\ queue'[r] = << >>
        /\ runner'[r] = runner[r] \/ runner'[r] # "running"
        /\ Finish(r) => runner[r] = "ended"
    <3>1. Finish(r) => runner[r] = "ended"
      <4> SUFFICES ASSUME Finish(r) PROVE runner[r] = "ended"
        OBVIOUS
      <4>1. phase[r] = "draining" /\ queue[r] # << >> /\ Head(queue[r]) = Close
        BY DEF Finish, Takes
      <4>2. 1 \in DOMAIN queue[r] /\ queue[r][1] = Close
        BY <4>1 DEF TypeOK
      <4> QED
        BY <4>1, <4>2 DEF HandlerOK
    <3> QED
      BY <1>9, <3>1 DEF Finish, Timeout, PersistArtifact, Takes, AbandonRunner, MoveTo, TypeOK
  <2>2. runner'[r] # "running"
    BY <1>9, <2>1 DEF Finish, Timeout, PersistArtifact, AbandonRunner, TypeOK
  <2> QED
    BY <2>1, <2>2 DEF HandlerOK, Fresh
<1> QED
  BY <1>1, <1>2, <1>3, <1>4, <1>5, <1>6, <1>7, <1>8, <1>9 DEF OwnStep, ServerStep, RunnerStep

-----------------------------------------------------------------------------
\* An event that is owed and not yet acted on stays owed.
LEMMA YieldsStep ==
  ASSUME TypeOK, [Next]_vars, NEW r \in Requests, HandlerOK(r), NEW S, "FAILED" \in S,
         phase[r] = "draining", Yields(r, S),
         \/ Publish(r) \/ Return(r) \/ Raise(r)
         \/ /\ PersistStatus(r) \/ (PersistArtifact(r) /\ Live(target[r]))
            /\ Head(queue[r]) \notin S
  PROVE  Yields(r, S)'
<1> DEFINE q == queue[r]   n == Len(queue[r])
<1>1. /\ plan[r] \in Seq(Event) /\ queue[r] \in Seq(Item) /\ published[r] \in Nat
      /\ n \in Nat /\ DOMAIN q = 1 .. n
  BY DEF TypeOK
<1>2. CASE Publish(r)
  <2> DEFINE x == plan[r][published[r] + 1]
  <2>1. /\ runner[r] = "running" /\ runner'[r] = "running" /\ plan'[r] = plan[r]
        /\ published[r] < Len(plan[r]) /\ published'[r] = published[r] + 1
        /\ queue'[r] = Append(q, x)
    BY <1>2 DEF Publish, TypeOK
  <2>2. x \in Event /\ published[r] + 1 \in DOMAIN plan[r]
    BY <1>1, <2>1
  <2>3. /\ DOMAIN queue'[r] = 1 .. n + 1
        /\ \A i \in 1 .. n : queue'[r][i] = q[i]
        /\ queue'[r][n + 1] = x
    BY <1>1, <2>1, <2>2 DEF Item
  <2>4. CASE \E i \in DOMAIN q : q[i] \in S
    BY <1>1, <2>3, <2>4 DEF Yields
  <2>5. ASSUME NEW i \in DOMAIN plan[r], i > published[r], plan[r][i] \in S
        PROVE  Yields(r, S)'
    <3>1. CASE i = published[r] + 1
      BY <1>1, <2>3, <2>5, <3>1, SMTT(60) DEF Yields
    <3>2. CASE i > published[r] + 1
      BY <2>1, <2>5, <3>2 DEF Yields
    <3> QED
      BY <1>1, <2>5, <3>1, <3>2
  <2> HIDE DEF q, n, x
  <2> QED
    BY <2>4, <2>5 DEF Yields, q
<1>3. CASE Return(r) \/ Raise(r)
  <2>1. /\ runner[r] = "running" /\ plan'[r] = plan[r]
        /\ \/ published[r] = Len(plan[r]) /\ queue'[r] = Append(q, Close)
           \/ queue'[r] = q \o << "FAILED", Close >> /\ Raise(r)
    BY <1>3 DEF Return, Raise, TypeOK
  <2>2. \A i \in DOMAIN q : i \in DOMAIN queue'[r] /\ queue'[r][i] = q[i]
    BY <1>1, <2>1 DEF Item
  <2>3. CASE \E i \in DOMAIN q : q[i] \in S
    BY <2>2, <2>3 DEF Yields
  <2>4. CASE published[r] # Len(plan[r])
    <3>1. queue'[r] = q \o << "FAILED", Close >>
      BY <2>1, <2>4
    <3>2. n + 1 \in DOMAIN queue'[r] /\ queue'[r][n + 1] = "FAILED"
      BY <1>1, <3>1
    <3> QED
      BY <2>4, <3>2 DEF Yields
  <2> QED
    BY <1>1, <2>1, <2>3, <2>4 DEF Yields
<1>4. CASE /\ PersistStatus(r) \/ (PersistArtifact(r) /\ Live(target[r]))
           /\ Head(q) \notin S
  <2>1. /\ q # << >> /\ queue'[r] = Tail(q)
        /\ UNCHANGED << plan, published, runner >>
    BY <1>4 DEF PersistStatus, PersistArtifact, Takes, TypeOK
  <2>2. /\ n > 0 /\ q[1] \notin S
        /\ \A i \in DOMAIN q : i # 1 => i - 1 \in DOMAIN queue'[r] /\ queue'[r][i - 1] = q[i]
    BY <1>1, <1>4, <2>1
  <2>3. CASE \E i \in DOMAIN q : q[i] \in S
    BY <2>2, <2>3 DEF Yields
  <2> HIDE DEF q, n
  <2> QED
    BY <2>1, <2>3 DEF Yields, q
<1> QED
  BY <1>2, <1>3, <1>4

\* Behind the sentinel there is nothing.
LEMMA NothingLeft ==
  ASSUME TypeOK, NEW r \in Requests, HandlerOK(r), Takes(r, Close),
         NEW s \in { "SUBMITTED", "WORKING" }
  PROVE  runner[r] = "ended" /\ queue[r] = << Close >> /\ ~Yields(r, Allowed(s))
<1>1. phase[r] = "draining" /\ queue[r] # << >> /\ Head(queue[r]) = Close
  BY DEF Takes
<1>2. DOMAIN queue[r] = 1 .. Len(queue[r]) /\ Len(queue[r]) \in Nat /\ queue[r][1] = Close
  BY <1>1 DEF TypeOK
<1>3. runner[r] = "ended" /\ Len(queue[r]) = 1
  <2>1. 1 \in DOMAIN queue[r]
    BY <1>1, <1>2
  <2> QED
    BY <1>1, <1>2, <2>1 DEF HandlerOK
<1>4. Close \notin Allowed(s)
  BY WorkingAllows DEF Close
<1>5. queue[r] = << Close >>
  BY <1>2, <1>3 DEF TypeOK
<1> QED
  BY <1>2, <1>3, <1>4, <1>5 DEF Yields

\* A deleted id is gone for good.
LEMMA DeletedStays ==
  ASSUME TypeOK, [Next]_vars, NEW t \in Tasks, status[t] = "DELETED"
  PROVE  status'[t] = "DELETED"
<1>1. CASE status' = status
  BY <1>1
<1>2. ASSUME NEW u \in Tasks, Lifecycle!Create(u) PROVE status'[t] = "DELETED"
  BY <1>2 DEF Lifecycle!Create, TypeOK
<1>3. ASSUME NEW u \in Tasks, NEW s \in TaskState, Lifecycle!Move(u, s)
      PROVE  status'[t] = "DELETED"
  BY <1>3 DEF Lifecycle!Move, Lifecycle!TaskState, TypeOK
<1>4. ASSUME NEW doomed \in SUBSET Tasks, Lifecycle!Delete(doomed) PROVE status'[t] = "DELETED"
  BY <1>4 DEF Lifecycle!Delete
<1> QED
  BY <1>1, <1>2, <1>3, <1>4, StepRefines DEF Lifecycle!Next, Lifecycle!TaskState, TaskState

\* Whoever answers for a task that goes on saying s goes on doing so.
LEMMA OwnsStep ==
  ASSUME TypeOK, [Next]_vars, NEW r \in Requests, HandlerOK(r), target[r] \in Tasks,
         NEW s \in { "SUBMITTED", "WORKING" }, Owns(r, s),
         status[target[r]] = s, status'[target[r]] = s
  PROVE  Owns(r, s)'
<1>1. /\ Live(target[r]) /\ "FAILED" \in Allowed(s) /\ s \notin Allowed(s)
      /\ LegalMove(s, s) /\ \A x \in Allowed(s) : LegalMove(s, x)
  BY WorkingAllows DEF Live, TaskState, LegalMove, IsTerminal
<1>2. CASE ~OwnStep(r) /\ ~Restart
  <2>1. Same(r)
    BY <1>2, OthersKeep
  <2> QED
    BY <2>1 DEF Same, Owns, Yields
<1>3. CASE Restart
  BY <1>3 DEF Restart, Owns, TypeOK, InFlight
<1>4. CASE ClientStep(r)
  BY <1>4 DEF ClientStep, PrepareNew, LookUp, Disconnect, MoveTo, TypeOK, Owns
<1>5. CASE MarkSubmitted(r)
  <2>1. phase[r] = "created" /\ s = "SUBMITTED"
    BY <1>5 DEF MarkSubmitted, Owns
  <2>2. ~SetStatusRaises(target[r], "SUBMITTED")
    BY <1>1, <2>1 DEF SetStatusRaises
  <2>3. phase'[r] = "prepared"
    BY <1>5, <2>2 DEF MarkSubmitted, MoveTo, TypeOK
  <2> QED
    BY <2>1, <2>3 DEF Owns
<1>6. CASE AppendHistory(r)
  BY <1>1, <1>6 DEF AppendHistory, MoveTo, TypeOK, Owns
<1>7. CASE StartRunner(r)
  <2>1. /\ phase[r] = "prepared" /\ phase'[r] = "draining" /\ plan'[r] \in Scripts
        /\ runner'[r] = "running" /\ published'[r] = published[r]
    BY <1>7 DEF StartRunner, TypeOK, MoveTo
  <2>2. published[r] = 0 /\ s = "SUBMITTED"
    BY <2>1 DEF HandlerOK, Fresh, Owns
  <2>3. PICK i \in DOMAIN plan'[r] : plan'[r][i] \in Allowed("SUBMITTED")
    BY <2>1, ScriptsSettleAssumption
  <2>4. i > published'[r]
    BY <2>1, <2>2, <2>3, ScriptsAssumption
  <2> QED
    BY <2>1, <2>2, <2>3, <2>4 DEF Owns, Yields
<1>8. CASE Publish(r) \/ Return(r) \/ Raise(r)
  <2>1. phase[r] = "draining" /\ phase'[r] = "draining"
    BY <1>8 DEF Publish, Return, Raise, HandlerOK, Fresh
  <2>2. Yields(r, Allowed(s))
    BY <2>1 DEF Owns
  <2>3. Yields(r, Allowed(s))'
    BY <1>1, <1>8, <2>1, <2>2, YieldsStep
  <2> QED
    BY <2>1, <2>3 DEF Owns
<1>9. CASE PersistStatus(r) \/ PersistArtifact(r)
  <2>1. phase[r] = "draining" /\ phase'[r] = "draining"
    BY <1>1, <1>9 DEF PersistStatus, PersistArtifact, Takes
  <2>2. Yields(r, Allowed(s))
    BY <2>1 DEF Owns
  <2>3. Head(queue[r]) \notin Allowed(s)
    <3>1. CASE PersistArtifact(r)
      BY <3>1, WorkingAllows DEF PersistArtifact, Takes
    <3>2. CASE PersistStatus(r)
      <4> SUFFICES ASSUME Head(queue[r]) \in Allowed(s) PROVE FALSE
        OBVIOUS
      <4>1. ~SetStatusRaises(target[r], Head(queue[r]))
        BY <1>1 DEF SetStatusRaises
      <4>2. SetStatus(target[r], Head(queue[r]))
        BY <3>2, <4>1 DEF PersistStatus, Takes
      <4> QED
        BY <1>1, <4>2 DEF SetStatus, TypeOK
    <3> QED
      BY <1>9, <3>1, <3>2
  <2>4. Yields(r, Allowed(s))'
    BY <1>1, <1>9, <2>1, <2>2, <2>3, YieldsStep
  <2> QED
    BY <2>1, <2>4 DEF Owns
<1>10. CASE Finish(r)
  <2>1. phase[r] = "draining" /\ Takes(r, Close)
    BY <1>10 DEF Finish, Takes
  <2> QED
    BY <2>1, NothingLeft DEF Owns
<1>11. CASE Timeout(r)
  BY <1>11 DEF Timeout, MoveTo, TypeOK, Owns
<1>12. CASE FailTimedOut(r)
  <2>1. ~SetStatusRaises(target[r], "FAILED")
    BY <1>1 DEF SetStatusRaises
  <2>2. SetStatus(target[r], "FAILED")
    BY <1>12, <2>1 DEF FailTimedOut
  <2> QED
    BY <2>2 DEF SetStatus, TypeOK
<1> QED
  BY <1>2, <1>3, <1>4, <1>5, <1>6, <1>7, <1>8, <1>9, <1>10, <1>11, <1>12
  DEF OwnStep, ServerStep, RunnerStep

\* Whoever makes a task say SUBMITTED or WORKING answers for it.
LEMMA MoverOwns ==
  ASSUME TypeOK, TypeOK', [Next]_vars, \A r \in Requests : HandlerOK(r),
         NEW t \in Tasks, status'[t] \in { "SUBMITTED", "WORKING" }, status'[t] # status[t]
  PROVE  \E r \in Requests : target'[r] = t /\ Owns(r, status[t])'
<1>1. ASSUME NEW r \in Requests, NEW u \in Tasks, NEW c \in Contexts, PrepareNew(r, u, c)
      PROVE  \E q \in Requests : target'[q] = t /\ Owns(q, status[t])'
  <2>1. t = u /\ status'[t] = "SUBMITTED" /\ target'[r] = t /\ phase'[r] = "created"
    BY <1>1 DEF PrepareNew, TypeOK, MoveTo
  <2> QED
    BY <2>1 DEF Owns
<1>2. ASSUME NEW u \in Tasks, NEW s \in { "SUBMITTED", "FAILED", "CANCELED" }, SetStatus(u, s)
      PROVE  FALSE
  BY <1>2 DEF SetStatus, LegalMove, Allowed, TypeOK
<1>3. ASSUME NEW r \in Requests, PersistStatus(r)
      PROVE  \E q \in Requests : target'[q] = t /\ Owns(q, status[t])'
  <2>1. PICK s \in TaskState : Takes(r, s) /\ SetStatus(target[r], s)
    BY <1>3 DEF PersistStatus
  <2>2. target[r] = t /\ status'[t] = s /\ s = "WORKING"
    BY <1>2, <2>1 DEF SetStatus, TypeOK
  <2>3. /\ phase[r] = "draining" /\ phase'[r] = "draining" /\ queue[r] # << >>
        /\ Head(queue[r]) = "WORKING" /\ queue'[r] = Tail(queue[r])
        /\ UNCHANGED << target, plan, published, runner >>
    BY <1>3, <2>1, <2>2 DEF PersistStatus, Takes, TypeOK
  <2>4. /\ 1 \in DOMAIN queue[r] /\ queue[r][1] = "WORKING"
        /\ \A i \in DOMAIN queue[r] :
             i > 1 => i - 1 \in DOMAIN queue'[r] /\ queue'[r][i - 1] = queue[r][i]
    BY <2>3 DEF TypeOK
  <2>5. \/ \E j \in DOMAIN queue[r] : j > 1 /\ queue[r][j] \in Allowed("WORKING")
        \/ /\ runner[r] = "running"
           /\ \E j \in DOMAIN plan[r] : j > published[r] /\ plan[r][j] \in Allowed("WORKING")
    BY <2>4 DEF HandlerOK
  <2>6. Yields(r, Allowed("WORKING"))'
    BY <2>3, <2>4, <2>5 DEF Yields
  <2> QED
    BY <2>2, <2>3, <2>6 DEF Owns
<1>4. ASSUME NEW r \in Requests, MarkSubmitted(r) \/ FailTimedOut(r) PROVE FALSE
  BY <1>2, <1>4 DEF MarkSubmitted, FailTimedOut, TypeOK
<1>5. ASSUME NEW u \in Tasks, ApplyCancel(u) PROVE FALSE
  BY <1>2, <1>5 DEF ApplyCancel
<1>6. ASSUME NEW c \in Contexts, DeleteContext(c) PROVE FALSE
  BY <1>6 DEF DeleteContext
<1>7. ASSUME NEW r \in Requests,
             \/ \E u \in Tasks : LookUp(r, u)
             \/ AppendHistory(r) \/ StartRunner(r) \/ Publish(r) \/ Return(r) \/ Raise(r)
             \/ PersistArtifact(r) \/ Finish(r) \/ Timeout(r) \/ Disconnect(r)
      PROVE  FALSE
  BY <1>7 DEF LookUp, AppendHistory, StartRunner, Publish, Return, Raise, PersistArtifact,
              Finish, Timeout, Disconnect, store
<1>8. ASSUME NEW u \in Tasks, CheckCancel(u) PROVE FALSE
  BY <1>8 DEF CheckCancel, store
<1>9. CASE Restart \/ UNCHANGED vars
  BY <1>9 DEF Restart, vars, store
<1> QED
  BY <1>1, <1>3, <1>4, <1>5, <1>6, <1>7, <1>8, <1>9
  DEF Next, Operate, ServerStep, RunnerStep, ClientStep

-----------------------------------------------------------------------------
\* The inductive invariant behind NoForgottenTask and AnswerIsSettled.
OwnedInv ==
  /\ ErrorInv
  /\ \A r \in Requests : HandlerOK(r)
  /\ \A t \in Tasks :
       status[t] \in { "SUBMITTED", "WORKING" } =>
         \E r \in Requests : target[r] = t /\ Owns(r, status[t])

\* Every step keeps the owners: the mover of a task owns it, and an owner that
\* stops owning has moved the task on.
LEMMA OwnedInvStep == OwnedInv /\ [Next]_vars => OwnedInv'
<1> SUFFICES ASSUME OwnedInv, [Next]_vars PROVE OwnedInv'
  OBVIOUS
<1>1. ErrorInv /\ ErrorInv' /\ TypeOK /\ TypeOK'
  BY ErrorInvStep DEF OwnedInv, ErrorInv
<1>2. ASSUME NEW r \in Requests PROVE HandlerOK(r)'
  BY <1>1, HandlerStep DEF OwnedInv
<1>3. ASSUME NEW t \in Tasks, status'[t] \in { "SUBMITTED", "WORKING" }
      PROVE  \E r \in Requests : target'[r] = t /\ Owns(r, status[t])'
  <2>1. CASE status'[t] # status[t]
    BY <1>1, <1>3, <2>1, MoverOwns DEF OwnedInv
  <2>2. CASE status'[t] = status[t]
    <3>1. PICK r \in Requests : target[r] = t /\ Owns(r, status[t])
      BY <1>3, <2>2 DEF OwnedInv
    <3>2. target'[r] = t
      BY <1>1, <3>1, TargetsStay, NoneAssumption
    <3>3. \A s \in { "SUBMITTED", "WORKING" } : s = status[t] => Owns(r, s)'
      BY <1>1, <1>3, <2>2, <3>1, OwnsStep DEF OwnedInv
    <3> QED
      BY <1>3, <2>2, <3>2, <3>3 DEF Owns
  <2> QED
    BY <2>1, <2>2
<1> QED
  BY <1>1, <1>2, <1>3 DEF OwnedInv

\* Nothing has been created yet.
LEMMA OwnedInvInit == Init => OwnedInv
<1>1. Init => TypeOK
  BY DEF Init, TypeOK, Absent, Phase, InFlight, Over, Requests
<1> QED
  BY <1>1 DEF Init, OwnedInv, ErrorInv, ErrorMeansOver, HandlerOK, Fresh

\* A task that says SUBMITTED or WORKING has a handler in flight, or was left by
\* a dropped stream or a dead process, however many requests share it.
THEOREM TasksAreNotForgotten == Spec => []NoForgottenTask
<1>1. OwnedInv => NoForgottenTask
  BY DEF OwnedInv, NoForgottenTask, Owns, InFlight
<1> QED
  BY <1>1, OwnedInvInit, OwnedInvStep, PTL DEF Spec

\* How an answer comes about.
LEMMA AnswerMade ==
  ASSUME TypeOK, [Next]_vars, NEW r \in Requests,
         phase[r] \notin { "answered", "expired" }, phase'[r] \in { "answered", "expired" }
  PROVE  \/ FailTimedOut(r) /\ seen'[r] = "FAILED"
         \/ /\ Takes(r, Close) /\ status' = status
            /\ seen'[r] = IF Live(target[r]) THEN status[target[r]] ELSE seen[r]
<1>1. ~Restart /\ ~ClientStep(r)
  BY DEF Restart, ClientStep, PrepareNew, LookUp, Disconnect, TypeOK, MoveTo
<1>2. ServerStep(r)
  BY <1>1, OwnStepsOnly
<1>3. CASE FailTimedOut(r)
  BY <1>3 DEF FailTimedOut, TypeOK, MoveTo
<1>4. CASE Finish(r)
  BY <1>4 DEF Finish, TypeOK, store
<1>5. CASE \/ MarkSubmitted(r) \/ AppendHistory(r) \/ StartRunner(r) \/ Timeout(r)
           \/ PersistStatus(r) \/ PersistArtifact(r)
  BY <1>5 DEF MarkSubmitted, AppendHistory, StartRunner, Timeout, PersistStatus,
              PersistArtifact, TypeOK, MoveTo
<1> QED
  BY <1>2, <1>3, <1>4, <1>5 DEF ServerStep

\* What was answered stays answered.
LEMMA AnswersKeep ==
  ASSUME TypeOK, [Next]_vars, NEW r \in Requests, phase[r] \in { "answered", "expired" }
  PROVE  seen'[r] = seen[r]
<1>1. CASE ~OwnStep(r) /\ ~Restart
  BY <1>1, OthersKeep DEF Same
<1>2. CASE Restart
  BY <1>2 DEF Restart
<1>3. CASE RunnerStep(r)
  BY <1>3 DEF RunnerStep, Publish, Return, Raise
<1>4. ~ServerStep(r) /\ ~ClientStep(r)
  BY DEF ServerStep, ClientStep, MarkSubmitted, AppendHistory, StartRunner, PersistStatus,
         PersistArtifact, Finish, Timeout, FailTimedOut, PrepareNew, LookUp, Disconnect, Takes
<1> QED
  BY <1>1, <1>2, <1>3, <1>4 DEF OwnStep

\* An unshared request that answers with SUBMITTED or WORKING does so of a task
\* that was deleted: it was the only owner, and had nothing left to drain.
THEOREM AnswersAreSettled == Spec => []AnswerIsSettled
<1>1. Init => AnswerIsSettled
  BY DEF Init, AnswerIsSettled, Requests
<1>2. ASSUME OwnedInv, AnswerIsSettled, [Next]_vars PROVE AnswerIsSettled'
  <2>1. TypeOK /\ ErrorInv
    BY <1>2 DEF OwnedInv, ErrorInv
  <2> SUFFICES ASSUME NEW r \in Sends, phase'[r] \in { "answered", "expired" },
                      seen'[r] \notin AtRest
               PROVE  status'[target'[r]] = "DELETED" \/ Shared(r)'
    BY DEF AnswerIsSettled
  <2>2. r \in Requests /\ phase[r] # "idle"
    <3>1. r \in Requests
      BY DEF Requests
    <3> SUFFICES ASSUME phase[r] = "idle" PROVE FALSE
      BY <3>1
    <3>2. PICK t \in Tasks : LookUp(r, t) \/ \E c \in Contexts : PrepareNew(r, t, c)
      BY <1>2, <2>1, <3>1, IdleUntilClientStep
    <3> QED
      BY <2>1, <3>1, <3>2 DEF PrepareNew, LookUp, MoveTo, TypeOK
  <2>3. target[r] \in Tasks /\ target'[r] = target[r]
    BY <1>2, <2>1, <2>2, TargetsStay DEF TypeOK
  <2>4. ASSUME Shared(r) PROVE Shared(r)'
    <3>1. PICK q \in Requests \ { r } : target[q] = target[r]
      BY <2>4 DEF Shared
    <3>2. target'[q] = target[q]
      BY <1>2, <2>1, <2>3, <3>1, TargetsStay, NoneAssumption
    <3> QED
      BY <2>3, <3>1, <3>2 DEF Shared
  <2>5. ASSUME status[target[r]] = "DELETED" PROVE status'[target[r]] = "DELETED"
    BY <1>2, <2>1, <2>3, <2>5, DeletedStays
  <2>6. CASE phase[r] \in { "answered", "expired" }
    BY <1>2, <2>1, <2>2, <2>3, <2>4, <2>5, <2>6, AnswersKeep DEF AnswerIsSettled
  <2>7. CASE phase[r] \notin { "answered", "expired" } /\ ~Shared(r)
    <3>1. Takes(r, Close) /\ status' = status
          /\ seen'[r] = IF Live(target[r]) THEN status[target[r]] ELSE seen[r]
      BY <1>2, <2>1, <2>2, <2>7, AnswerMade DEF AtRest, IsTerminal
    <3>2. CASE ~Live(target[r])
      BY <1>2, <2>1, <2>2, <2>3, <3>1, <3>2 DEF Live, TypeOK, Absent, ErrorInv
    <3>3. CASE Live(target[r])
      <4>1. status[target[r]] \in { "SUBMITTED", "WORKING" }
        BY <3>1, <3>3 DEF Live, AtRest, IsTerminal, TaskState
      <4>2. Owns(r, status[target[r]])
        <5>1. PICK q \in Requests : target[q] = target[r] /\ Owns(q, status[target[r]])
          BY <1>2, <2>3, <4>1 DEF OwnedInv
        <5> QED
          BY <2>7, <5>1 DEF Shared
      <4>3. ~Yields(r, Allowed(status[target[r]]))
        BY <1>2, <2>1, <2>2, <3>1, <4>1, NothingLeft DEF OwnedInv
      <4> QED
        BY <3>1, <4>2, <4>3 DEF Owns, Takes
    <3> QED
      BY <3>2, <3>3
  <2> QED
    BY <2>3, <2>4, <2>6, <2>7
<1>3. OwnedInv /\ AnswerIsSettled /\ [Next]_vars => (OwnedInv /\ AnswerIsSettled)'
  BY <1>2, OwnedInvStep
<1> QED
  BY <1>1, <1>3, OwnedInvInit, PTL DEF Spec

-----------------------------------------------------------------------------
(* Counting the occurrences of a value in a sequence.                      *)

\* An empty sequence has none of it.
LEMMA CountOfEmpty ==
  ASSUME NEW seq, seq = << >>, NEW x
  PROVE  CountOf(seq, x) = 0
<1>1. { i \in DOMAIN seq : seq[i] = x } = {}
  OBVIOUS
<1> QED
  BY <1>1, FS_EmptySet DEF CountOf

\* A count is a natural number.
LEMMA CountOfNat ==
  ASSUME NEW S, NEW seq \in Seq(S), NEW x
  PROVE  /\ IsFiniteSet({ i \in DOMAIN seq : seq[i] = x })
         /\ CountOf(seq, x) \in Nat
<1>1. IsFiniteSet(1 .. Len(seq))
  BY FS_Interval
<1>2. { i \in DOMAIN seq : seq[i] = x } \subseteq 1 .. Len(seq)
  OBVIOUS
<1>3. IsFiniteSet({ i \in DOMAIN seq : seq[i] = x })
  BY <1>1, <1>2, FS_Subset
<1> QED
  BY <1>3, FS_CardinalityType DEF CountOf

\* Appending counts the new element.
LEMMA CountOfAppend ==
  ASSUME NEW S, NEW seq \in Seq(S), NEW y \in S, NEW x
  PROVE  CountOf(Append(seq, y), x) = CountOf(seq, x) + (IF x = y THEN 1 ELSE 0)
<1> DEFINE n == Len(seq)
           old == { i \in DOMAIN seq : seq[i] = x }
           new == { i \in DOMAIN Append(seq, y) : Append(seq, y)[i] = x }
<1>1. n \in Nat /\ old \subseteq 1 .. n /\ n + 1 \notin old
  OBVIOUS
<1>2. new = IF x = y THEN old \cup { n + 1 } ELSE old
  OBVIOUS
<1>3. IsFiniteSet(old) /\ Cardinality(old) \in Nat
  BY CountOfNat DEF CountOf
<1>4. x = y => Cardinality(new) = Cardinality(old) + 1
  BY <1>1, <1>2, <1>3, FS_AddElement
<1>5. CountOf(Append(seq, y), x) = Cardinality(new) /\ CountOf(seq, x) = Cardinality(old)
  BY DEF CountOf
<1> HIDE DEF n, old, new
<1> QED
  BY <1>2, <1>3, <1>4, <1>5

\* Taking the head off gives its count up.
LEMMA CountOfTail ==
  ASSUME NEW S, NEW seq \in Seq(S), seq # << >>, NEW x
  PROVE  CountOf(seq, x) = CountOf(Tail(seq), x) + (IF Head(seq) = x THEN 1 ELSE 0)
<1> DEFINE n == Len(seq)
           all == { i \in DOMAIN seq : seq[i] = x }
           rest == { i \in DOMAIN Tail(seq) : Tail(seq)[i] = x }
           f == [i \in all \ { 1 } |-> i - 1]
<1>1. /\ n \in Nat /\ n > 0 /\ DOMAIN seq = 1 .. n /\ DOMAIN Tail(seq) = 1 .. n - 1
      /\ \A i \in 1 .. n - 1 : Tail(seq)[i] = seq[i + 1]
      /\ Head(seq) = seq[1]
  OBVIOUS
<1>2. \A i \in all \ { 1 } : i - 1 \in rest
  BY <1>1
<1>3. \A j \in rest : j + 1 \in all \ { 1 } /\ f[j + 1] = j
  BY <1>1
<1>4. f \in [all \ { 1 } -> rest]
  BY <1>2
<1>5. \A a, b \in all \ { 1 } : f[a] = f[b] => a = b
  BY <1>1
<1>6. f \in Bijection(all \ { 1 }, rest)
  <2> HIDE DEF f, all, rest
  <2> QED
    BY <1>3, <1>4, <1>5, Fun_IsBij
<1>7. IsFiniteSet(all) /\ Cardinality(all) \in Nat
  BY CountOfNat DEF CountOf
<1>8. IsFiniteSet(all \ { 1 })
  BY <1>7, FS_RemoveElement
<1>9. Cardinality(rest) = Cardinality(all \ { 1 })
  <2> HIDE DEF f, all, rest
  <2>1. ExistsBijection(all \ { 1 }, rest)
    BY <1>6 DEF ExistsBijection
  <2> QED
    BY <1>8, <2>1, FS_Bijection
<1>10. 1 \in all <=> Head(seq) = x
  BY <1>1
<1>11. Cardinality(all \ { 1 }) = IF 1 \in all THEN Cardinality(all) - 1 ELSE Cardinality(all)
  <2>1. 1 \notin all => all \ { 1 } = all
    OBVIOUS
  <2> HIDE DEF all
  <2> QED
    BY <1>7, <2>1, FS_RemoveElement
<1>12. CountOf(seq, x) = Cardinality(all) /\ CountOf(Tail(seq), x) = Cardinality(rest)
  BY DEF CountOf
<1> HIDE DEF all, rest, f
<1> QED
  BY <1>7, <1>9, <1>10, <1>11, <1>12

\* A prefix that grows by one counts one more element.
LEMMA CountOfPrefix ==
  ASSUME NEW S, NEW seq \in Seq(S), NEW k \in Nat, k < Len(seq), NEW x
  PROVE  CountOf(SubSeq(seq, 1, k + 1), x)
           = CountOf(SubSeq(seq, 1, k), x) + (IF seq[k + 1] = x THEN 1 ELSE 0)
<1>1. SubSeq(seq, 1, k) \in Seq(S) /\ seq[k + 1] \in S
  OBVIOUS
<1>2. SubSeq(seq, 1, k + 1) = Append(SubSeq(seq, 1, k), seq[k + 1])
  OBVIOUS
<1> DEFINE pre == SubSeq(seq, 1, k)   y == seq[k + 1]
<1>3. CountOf(Append(pre, y), x) = CountOf(pre, x) + (IF x = y THEN 1 ELSE 0)
  <2>1. pre \in Seq(S) /\ y \in S
    BY <1>1
  <2> HIDE DEF pre, y
  <2> QED
    BY <2>1, CountOfAppend
<1> QED
  BY <1>2, <1>3

\* What is not in the sequence counts for nothing.
LEMMA CountOfNone ==
  ASSUME NEW seq, NEW x, \A i \in DOMAIN seq : seq[i] # x
  PROVE  CountOf(seq, x) = 0
<1>1. { i \in DOMAIN seq : seq[i] = x } = {}
  OBVIOUS
<1> QED
  BY <1>1, FS_EmptySet DEF CountOf

-----------------------------------------------------------------------------
(* Artifacts.                                                              *)

\* A request that has begun to drain never goes back.
LEMMA PastFresh ==
  ASSUME TypeOK, [Next]_vars, NEW r \in Requests, phase[r] \notin Fresh
  PROVE  phase'[r] \notin Fresh
<1>1. CASE ~OwnStep(r) /\ ~Restart
  BY <1>1, OthersKeep DEF Same
<1>2. CASE Restart
  BY <1>2 DEF Restart, TypeOK, Fresh
<1>3. CASE RunnerStep(r)
  BY <1>3 DEF RunnerStep, Publish, Return, Raise
<1>4. CASE ClientStep(r)
  BY <1>4 DEF ClientStep, PrepareNew, LookUp, Disconnect, TypeOK, MoveTo, Fresh
<1>5. CASE ServerStep(r)
  BY <1>5 DEF ServerStep, MarkSubmitted, AppendHistory, StartRunner, PersistStatus,
         PersistArtifact, Finish, Timeout, FailTimedOut, Takes, TypeOK, MoveTo, Fresh
<1> QED
  BY <1>1, <1>2, <1>3, <1>4, <1>5 DEF OwnStep

\* What may happen to the artifacts of a task.
LEMMA ArtifactsGrow ==
  ASSUME TypeOK, [Next]_vars, NEW t \in Tasks
  PROVE  \/ artifacts'[t] = artifacts[t]
         \/ artifacts'[t] = << >> /\ status'[t] = "DELETED"
         \/ \E q \in Requests :
              /\ PersistArtifact(q) /\ Live(t) /\ target[q] = t
              /\ artifacts'[t] = Append(artifacts[t], q)
<1> DEFINE Goal == \/ artifacts'[t] = artifacts[t]
                   \/ artifacts'[t] = << >> /\ status'[t] = "DELETED"
                   \/ \E q \in Requests :
                        /\ PersistArtifact(q) /\ Live(t) /\ target[q] = t
                        /\ artifacts'[t] = Append(artifacts[t], q)
<1>1. ASSUME NEW q \in Requests, PersistArtifact(q) PROVE Goal
  BY <1>1, ZenonT(60) DEF PersistArtifact, TypeOK
<1>2. ASSUME NEW c \in Contexts, DeleteContext(c) PROVE Goal
  BY <1>2 DEF DeleteContext
<1>3. ASSUME NEW q \in Requests,
             \/ MarkSubmitted(q) \/ AppendHistory(q) \/ StartRunner(q) \/ PersistStatus(q)
             \/ Finish(q) \/ Timeout(q) \/ FailTimedOut(q) \/ RunnerStep(q) \/ ClientStep(q)
      PROVE  Goal
  BY <1>3 DEF MarkSubmitted, AppendHistory, StartRunner, PersistStatus, Finish, Timeout,
              FailTimedOut, RunnerStep, Publish, Return, Raise, ClientStep, PrepareNew,
              LookUp, Disconnect, store
<1>4. ASSUME NEW u \in Tasks, CheckCancel(u) \/ ApplyCancel(u) PROVE Goal
  BY <1>4 DEF CheckCancel, ApplyCancel, store
<1>5. CASE Restart \/ UNCHANGED vars
  BY <1>5 DEF Restart, vars, store
<1> QED
  BY <1>1, <1>2, <1>3, <1>4, <1>5 DEF Next, Operate, ServerStep

\* A stored artifact is of a request that works on the task and has started.
EmittersKnown ==
  \A t \in Tasks : \A i \in DOMAIN artifacts[t] :
    target[artifacts[t][i]] = t /\ phase[artifacts[t][i]] \notin Fresh

\* The inductive invariant behind ArtifactsAccounted.
AccountInv == OwnedInv /\ EmittersKnown /\ ArtifactsAccounted

\* Every step keeps the emitters known.
LEMMA EmittersStep ==
  ASSUME TypeOK, [Next]_vars, EmittersKnown
  PROVE  EmittersKnown'
<1> SUFFICES ASSUME NEW t \in Tasks, NEW i \in DOMAIN artifacts'[t]
             PROVE  /\ target'[artifacts'[t][i]] = t
                    /\ phase'[artifacts'[t][i]] \notin Fresh
  BY DEF EmittersKnown
<1>1. artifacts[t] \in Seq(Requests)
  BY DEF TypeOK
<1>2. ASSUME NEW r \in Requests, target[r] = t, phase[r] \notin Fresh
      PROVE  target'[r] = t /\ phase'[r] \notin Fresh
  BY <1>2, TargetsStay, PastFresh, NoneAssumption
<1>3. CASE artifacts'[t] = artifacts[t]
  BY <1>1, <1>2, <1>3 DEF EmittersKnown
<1>4. CASE artifacts'[t] = << >>
  BY <1>4
<1>5. ASSUME NEW q \in Requests, PersistArtifact(q), target[q] = t,
             artifacts'[t] = Append(artifacts[t], q)
      PROVE  target'[artifacts'[t][i]] = t /\ phase'[artifacts'[t][i]] \notin Fresh
  <2>1. phase[q] \notin Fresh
    BY <1>5 DEF PersistArtifact, Takes, Fresh
  <2>2. CASE i = Len(artifacts[t]) + 1
    BY <1>1, <1>2, <1>5, <2>1, <2>2
  <2>3. CASE i \in DOMAIN artifacts[t]
    BY <1>1, <1>2, <1>5, <2>3 DEF EmittersKnown
  <2>4. i = Len(artifacts[t]) + 1 \/ i \in DOMAIN artifacts[t]
    BY <1>1, <1>5
  <2> QED
    BY <2>2, <2>3, <2>4
<1> QED
  BY <1>3, <1>4, <1>5, ArtifactsGrow

\* What a request's own step changes in its account: the published prefix and
\* the queue grow by the same event, or the queue gives an event up.
LEMMA AccountStep ==
  ASSUME OwnedInv, EmittersKnown, ArtifactsAccounted, [Next]_vars, NEW r \in Requests,
         phase'[r] \in { "draining", "answered" }, Live(target[r])'
  PROVE  CountOf(artifacts[target[r]], r)' + CountOf(queue[r], "ARTIFACT")'
           = CountOf(SubSeq(plan[r], 1, published[r]), "ARTIFACT")'
<1> DEFINE t == target[r]
           stored == CountOf(artifacts[t], r)
           queued == CountOf(queue[r], "ARTIFACT")
           done == CountOf(SubSeq(plan[r], 1, published[r]), "ARTIFACT")
<1>1. TypeOK /\ TypeOK' /\ ErrorInv /\ HandlerOK(r) /\ HandlerOK(r)'
  BY OwnedInvStep DEF OwnedInv, ErrorInv
<1>2. /\ plan[r] \in Seq(Event) /\ queue[r] \in Seq(Item) /\ published[r] \in Nat
      /\ plan'[r] \in Seq(Event) /\ queue'[r] \in Seq(Item)
  BY <1>1 DEF TypeOK
<1>3. phase[r] # "idle"
  <2> SUFFICES ASSUME phase[r] = "idle" PROVE FALSE
    OBVIOUS
  <2>1. PICK u \in Tasks : LookUp(r, u) \/ \E c \in Contexts : PrepareNew(r, u, c)
    BY <1>1, IdleUntilClientStep
  <2> QED
    BY <1>1, <2>1 DEF PrepareNew, LookUp, MoveTo, TypeOK
<1>4. t \in Tasks /\ target'[r] = t
  BY <1>1, <1>3, TargetsStay DEF TypeOK
<1>5. artifacts[t] \in Seq(Requests) /\ artifacts'[t] \in Seq(Requests)
  BY <1>1, <1>4 DEF TypeOK
<1>6. Live(t) /\ status'[t] # "DELETED"
  <2>1. status'[t] \in TaskState
    BY <1>4 DEF Live
  <2>2. status[t] # "DELETED"
    BY <1>1, <1>4, <2>1, DeletedStays DEF TaskState
  <2>3. status[t] # "UNUSED"
    BY <1>1, <1>3 DEF ErrorInv
  <2> QED
    BY <1>1, <1>4, <2>1, <2>2, <2>3 DEF Live, TypeOK, Absent, TaskState
<1>7. ASSUME phase[r] = "draining" PROVE stored \in Nat /\ queued \in Nat /\ done \in Nat
  <2>1. SubSeq(plan[r], 1, published[r]) \in Seq(Event)
    BY <1>1, <1>2, <1>7 DEF HandlerOK
  <2> QED
    BY <1>2, <1>5, <2>1, CountOfNat
<1> DEFINE Goal == CountOf(artifacts'[t], r) + CountOf(queue'[r], "ARTIFACT")
                     = CountOf(SubSeq(plan'[r], 1, published'[r]), "ARTIFACT")
           Before == stored + queued = done
<1> SUFFICES Goal
  BY <1>4
<1>8. phase[r] \in { "draining", "answered" } => Before
  BY <1>6 DEF ArtifactsAccounted
\* Nobody else adds to r's account, ...
<1>9. \/ CountOf(artifacts'[t], r) = stored
      \/ /\ PersistArtifact(r) /\ CountOf(artifacts'[t], r) = stored + 1
  <2>1. CASE artifacts'[t] = artifacts[t]
    BY <2>1
  <2>2. ASSUME NEW q \in Requests, PersistArtifact(q),
               artifacts'[t] = Append(artifacts[t], q)
        PROVE  \/ CountOf(artifacts'[t], r) = stored
               \/ PersistArtifact(r) /\ CountOf(artifacts'[t], r) = stored + 1
    <3>1. CountOf(Append(artifacts[t], q), r) = stored + (IF r = q THEN 1 ELSE 0)
      BY <1>5, CountOfAppend
    <3>2. stored \in Nat
      BY <1>5, CountOfNat
    <3> HIDE DEF stored
    <3> QED
      BY <2>2, <3>1, <3>2
  <2> QED
    BY <1>1, <1>4, <1>6, <2>1, <2>2, ArtifactsGrow
\* ... and before a request has started there is nothing to account for.
<1>10. CASE StartRunner(r)
  <2>1. /\ phase[r] = "prepared" /\ queue'[r] = queue[r] /\ published'[r] = published[r]
        /\ artifacts' = artifacts
    BY <1>10 DEF StartRunner, store
  <2>2. queue[r] = << >> /\ published[r] = 0
    BY <1>1, <2>1 DEF HandlerOK, Fresh
  <2>3. CountOf(artifacts[t], r) = 0
    BY <1>4, <2>1, CountOfNone DEF EmittersKnown, Fresh
  <2>4. SubSeq(plan'[r], 1, 0) = << >>
    BY <1>2
  <2>5. /\ SubSeq(plan'[r], 1, published'[r]) = << >> /\ queue'[r] = << >>
        /\ CountOf(artifacts'[t], r) = 0
    BY <2>1, <2>2, <2>3, <2>4
  <2>6. /\ CountOf(queue'[r], "ARTIFACT") = 0
        /\ CountOf(SubSeq(plan'[r], 1, published'[r]), "ARTIFACT") = 0
    BY <2>5, CountOfEmpty
  <2> QED
    BY <2>5, <2>6
<1>11. CASE Publish(r)
  <2> DEFINE x == plan[r][published[r] + 1]   k == published[r]
  <2>1. /\ runner[r] = "running" /\ phase'[r] = phase[r] /\ plan'[r] = plan[r]
        /\ k < Len(plan[r]) /\ published'[r] = k + 1
        /\ queue'[r] = Append(queue[r], x) /\ artifacts' = artifacts
    BY <1>1, <1>11 DEF Publish, TypeOK, store
  <2>2. phase[r] = "draining" /\ x \in Item /\ k \in Nat
    BY <1>1, <1>2, <2>1 DEF HandlerOK, Item
  <2>3. CountOf(queue'[r], "ARTIFACT") = queued + (IF "ARTIFACT" = x THEN 1 ELSE 0)
    <3> HIDE DEF x
    <3> QED
      BY <1>2, <2>1, <2>2, CountOfAppend
  <2>4. CountOf(SubSeq(plan[r], 1, k + 1), "ARTIFACT")
          = done + (IF x = "ARTIFACT" THEN 1 ELSE 0)
    BY <1>2, <2>1, <2>2, CountOfPrefix
  <2>5. CountOf(artifacts'[t], r) = stored
    BY <2>1
  <2> HIDE DEF stored, queued, done, x, k
  <2>6. Before /\ stored \in Nat /\ queued \in Nat /\ done \in Nat
    BY <1>7, <1>8, <2>2
  <2> QED
    BY <2>1, <2>3, <2>4, <2>5, <2>6, SMTT(60)
<1>12. CASE Return(r) \/ Raise(r)
  <2>1. /\ runner[r] = "running" /\ UNCHANGED << phase, plan, published, artifacts >>
        /\ queue'[r] = Append(queue[r], Close)
             \/ queue'[r] = Append(Append(queue[r], "FAILED"), Close)
    BY <1>1, <1>2, <1>12, SMTT(60) DEF Return, Raise, TypeOK, store
  <2>2. phase[r] = "draining"
    BY <1>1, <2>1 DEF HandlerOK
  <2>3. /\ Close \in Item /\ "FAILED" \in Item /\ Close # "ARTIFACT"
        /\ Append(queue[r], "FAILED") \in Seq(Item)
    BY <1>2 DEF Item, Close, Event, TaskState
  <2>4. /\ CountOf(Append(queue[r], Close), "ARTIFACT") = queued
        /\ CountOf(Append(queue[r], "FAILED"), "ARTIFACT") = queued
        /\ CountOf(Append(Append(queue[r], "FAILED"), Close), "ARTIFACT")
             = CountOf(Append(queue[r], "FAILED"), "ARTIFACT")
    <3>1. queued \in Nat
      BY <1>7, <2>2
    <3> HIDE DEF queued
    <3>2. ASSUME NEW q \in Seq(Item), NEW y \in Item, y # "ARTIFACT"
          PROVE  CountOf(Append(q, y), "ARTIFACT") = CountOf(q, "ARTIFACT")
      <4>1. CountOf(q, "ARTIFACT") \in Nat
        BY CountOfNat
      <4>2. CountOf(Append(q, y), "ARTIFACT")
              = CountOf(q, "ARTIFACT") + (IF "ARTIFACT" = y THEN 1 ELSE 0)
        BY CountOfAppend
      <4> QED
        BY <3>2, <4>1, <4>2
    <3> QED
      BY <1>2, <2>3, <3>2 DEF queued
  <2>5. CountOf(queue'[r], "ARTIFACT") = queued
    BY <2>1, <2>4
  <2> HIDE DEF queued
  <2> QED
    BY <1>8, <2>1, <2>2, <2>5
<1>13. CASE PersistStatus(r) \/ (PersistArtifact(r) /\ phase'[r] # "error")
  <2>1. /\ phase[r] = "draining" /\ queue[r] # << >> /\ queue'[r] = Tail(queue[r])
        /\ UNCHANGED << plan, published >>
        /\ PersistStatus(r) => Head(queue[r]) # "ARTIFACT" /\ artifacts'[t] = artifacts[t]
        /\ PersistArtifact(r) => Head(queue[r]) = "ARTIFACT"
                                 /\ artifacts'[t] = Append(artifacts[t], r)
    BY <1>1, <1>6, <1>13, ZenonT(60) DEF PersistStatus, PersistArtifact, Takes, TypeOK, TaskState
  <2>2. queued = CountOf(queue'[r], "ARTIFACT")
                   + (IF Head(queue[r]) = "ARTIFACT" THEN 1 ELSE 0)
    BY <1>2, <2>1, CountOfTail
  <2>3. CountOf(queue'[r], "ARTIFACT") \in Nat
    BY <1>2, CountOfNat
  <2>4. PersistArtifact(r) => CountOf(artifacts'[t], r) = stored + 1
    <3>1. CountOf(Append(artifacts[t], r), r) = stored + (IF r = r THEN 1 ELSE 0)
      BY <1>5, CountOfAppend
    <3> HIDE DEF stored
    <3> QED
      BY <2>1, <3>1
  <2>5. PersistStatus(r) => CountOf(artifacts'[t], r) = stored
    BY <2>1
  <2>6. Before /\ stored \in Nat /\ queued \in Nat /\ done \in Nat
    BY <1>7, <1>8, <2>1
  <2>7. CountOf(SubSeq(plan'[r], 1, published'[r]), "ARTIFACT") = done
    BY <2>1
  <2> HIDE DEF stored, queued, done
  <2> QED
    BY <1>13, <2>1, <2>2, <2>3, <2>4, <2>5, <2>6, <2>7
<1>14. CASE Finish(r)
  <2>1. /\ Takes(r, Close) /\ phase[r] = "draining" /\ queue'[r] = << >>
        /\ UNCHANGED << plan, published, artifacts >>
    BY <1>1, <1>14 DEF Finish, Takes, TypeOK, store
  <2>2. queue[r] = << Close >>
    BY <1>1, <2>1, NothingLeft
  <2>3. queued = 0
    BY <2>2, CountOfNone DEF Close
  <2>4. CountOf(queue'[r], "ARTIFACT") = 0
    BY <2>1, CountOfEmpty
  <2>5. /\ CountOf(artifacts'[t], r) = stored
        /\ CountOf(SubSeq(plan'[r], 1, published'[r]), "ARTIFACT") = done
    BY <2>1
  <2>6. Before
    BY <1>8, <2>1
  <2> HIDE DEF stored, queued, done
  <2> QED
    BY <2>3, <2>4, <2>5, <2>6
<1>15. CASE ~OwnStep(r) /\ ~Restart
  <2>1. Same(r) /\ ~PersistArtifact(r)
    BY <1>1, <1>15, OthersKeep DEF OwnStep, ServerStep
  <2>2. CountOf(artifacts'[t], r) = stored /\ Before
    BY <1>8, <1>9, <2>1 DEF Same
  <2> HIDE DEF stored
  <2> QED
    BY <2>1, <2>2 DEF Same
<1>16. CASE Restart
  <2>1. phase[r] = "answered" /\ UNCHANGED << artifacts, plan, published >> /\ queue'[r] = << >>
    BY <1>1, <1>16 DEF Restart, TypeOK, InFlight, store
  <2>2. queue[r] = << >>
    BY <1>1, <2>1 DEF HandlerOK, Fresh
  <2> QED
    BY <1>8, <2>1, <2>2
<1>17. CASE \/ MarkSubmitted(r) \/ AppendHistory(r) \/ Timeout(r) \/ FailTimedOut(r)
            \/ (PersistArtifact(r) /\ phase'[r] = "error") \/ ClientStep(r)
  <2>1. phase'[r] \notin { "draining", "answered" }
    BY <1>1, <1>17 DEF MarkSubmitted, AppendHistory, Timeout, FailTimedOut, ClientStep,
                       PrepareNew, LookUp, Disconnect, TypeOK, MoveTo
  <2> QED
    BY <2>1
<1>18. Goal
  BY <1>10, <1>11, <1>12, <1>13, <1>14, <1>15, <1>16, <1>17
  DEF OwnStep, ServerStep, RunnerStep
<1> QED
  BY <1>18

\* Every published artifact is stored once, whoever else writes to the task.
THEOREM ArtifactsAreAccounted == Spec => []ArtifactsAccounted
<1>1. Init => AccountInv
  <2>1. Init => EmittersKnown
    BY DEF Init, EmittersKnown
  <2>2. Init => ArtifactsAccounted
    BY DEF Init, ArtifactsAccounted
  <2> QED
    BY <2>1, <2>2, OwnedInvInit DEF AccountInv
<1>2. AccountInv /\ [Next]_vars => AccountInv'
  <2> SUFFICES ASSUME AccountInv, [Next]_vars PROVE AccountInv'
    OBVIOUS
  <2>1. OwnedInv' /\ TypeOK
    BY OwnedInvStep DEF AccountInv, OwnedInv, ErrorInv
  <2>2. EmittersKnown'
    BY <2>1, EmittersStep DEF AccountInv
  <2>3. ArtifactsAccounted'
    BY AccountStep DEF ArtifactsAccounted, AccountInv
  <2> QED
    BY <2>1, <2>2, <2>3 DEF AccountInv
<1>3. AccountInv => ArtifactsAccounted
  BY DEF AccountInv
<1> QED
  BY <1>1, <1>2, <1>3, PTL DEF Spec
=============================================================================
