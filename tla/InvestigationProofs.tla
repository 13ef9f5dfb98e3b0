------------------------- MODULE InvestigationProofs -------------------------
(***************************************************************************)
(* Proofs about Investigation, for any number of decisions, any pipeline   *)
(* of specialists and any configurations.                                  *)
(***************************************************************************)
EXTENDS Investigation, FiniteSetTheorems, FunctionTheorems, TLAPS

-----------------------------------------------------------------------------
(* What is said of queues and artifact lists is said by these three.       *)

Has(q, x) == \E i \in DOMAIN q : q[i] = x
Once(q, x) == \A i, j \in DOMAIN q : q[i] = x /\ q[j] = x => i = j
Last(q, x) == \A i \in DOMAIN q : q[i] = x => i = Len(q)

LEMMA EmptyHas ==
  ASSUME NEW x
  PROVE  ~Has(<< >>, x) /\ Once(<< >>, x) /\ Last(<< >>, x)
BY DEF Has, Once, Last

LEMMA AppendHas ==
  ASSUME NEW S, NEW q \in Seq(S), NEW e \in S, NEW x
  PROVE  /\ Append(q, e) \in Seq(S)
         /\ Append(q, e) # << >>
         /\ Has(Append(q, e), x) <=> Has(q, x) \/ x = e
         /\ Once(q, x) /\ ~(Has(q, x) /\ x = e) => Once(Append(q, e), x)
         /\ ~Has(q, x) => Last(Append(q, e), x)
<1> DEFINE n == Len(q)
           a == Append(q, e)
<1>1. /\ n \in Nat /\ DOMAIN q = 1 .. n
      /\ a \in Seq(S) /\ Len(a) = n + 1 /\ DOMAIN a = 1 .. (n + 1)
      /\ a[n + 1] = e /\ \A i \in 1 .. n : a[i] = q[i]
  OBVIOUS
<1> HIDE DEF n, a
<1>2. Has(a, x) <=> Has(q, x) \/ x = e
  <2>1. Has(q, x) => Has(a, x)
    BY <1>1 DEF Has
  <2>2. x = e => Has(a, x)
    BY <1>1 DEF Has
  <2>3. Has(a, x) => Has(q, x) \/ x = e
    BY <1>1 DEF Has
  <2> QED
    BY <2>1, <2>2, <2>3
<1>3. Once(q, x) /\ ~(Has(q, x) /\ x = e) => Once(a, x)
  BY <1>1 DEF Has, Once
<1>4. ~Has(q, x) => Last(a, x)
  BY <1>1 DEF Has, Last
<1>5. a # << >>
  BY <1>1
<1> QED
  BY <1>1, <1>2, <1>3, <1>4, <1>5 DEF a

LEMMA TailHas ==
  ASSUME NEW S, NEW q \in Seq(S), q # << >>, NEW x
  PROVE  /\ Tail(q) \in Seq(S)
         /\ Head(q) \in S
         /\ Has(q, x) <=> x = Head(q) \/ Has(Tail(q), x)
         /\ Once(q, x) => Once(Tail(q), x) /\ ~(Head(q) = x /\ Has(Tail(q), x))
         /\ Last(q, x) => Last(Tail(q), x) /\ (Head(q) = x => Tail(q) = << >>)
<1> DEFINE n == Len(q)
           t == Tail(q)
<1>1. /\ n \in Nat /\ n > 0 /\ DOMAIN q = 1 .. n
      /\ t \in Seq(S) /\ Len(t) = n - 1 /\ DOMAIN t = 1 .. (n - 1)
      /\ Head(q) = q[1] /\ Head(q) \in S /\ \A i \in 1 .. (n - 1) : t[i] = q[i + 1]
  OBVIOUS
<1>2. n = 1 => t = << >>
  BY <1>1
<1>3. \A q1 : Last(q1, x) <=> \A i \in DOMAIN q1 : q1[i] = x => i = Len(q1)
  BY DEF Last
<1> HIDE DEF n, t
<1>4. \A i \in 1 .. n : i = 1 \/ (i - 1 \in 1 .. (n - 1) /\ t[i - 1] = q[i])
  BY <1>1
<1>5. Has(q, x) <=> x = Head(q) \/ Has(t, x)
  <2>1. Has(t, x) => Has(q, x)
    <3>1. ASSUME NEW i \in 1 .. (n - 1), t[i] = x PROVE i + 1 \in 1 .. n /\ q[i + 1] = x
      BY <1>1, <3>1
    <3> QED
      BY <1>1, <3>1 DEF Has
  <2>2. x = Head(q) => Has(q, x)
    BY <1>1 DEF Has
  <2>3. Has(q, x) => x = Head(q) \/ Has(t, x)
    BY <1>1, <1>4 DEF Has
  <2> QED
    BY <2>1, <2>2, <2>3
<1>6. ASSUME Once(q, x) PROVE Once(t, x) /\ ~(Head(q) = x /\ Has(t, x))
  <2>1. \A i, j \in 1 .. n : q[i] = x /\ q[j] = x => i = j
    BY <1>1, <1>6 DEF Once
  <2>2. ASSUME NEW i \in 1 .. (n - 1), NEW j \in 1 .. (n - 1), t[i] = x, t[j] = x PROVE i = j
    <3>1. i + 1 \in 1 .. n /\ j + 1 \in 1 .. n /\ q[i + 1] = x /\ q[j + 1] = x
      BY <1>1, <2>2
    <3>2. i + 1 = j + 1
      BY <2>1, <3>1
    <3> QED
      BY <1>1, <3>2
  <2>3. ASSUME NEW i \in 1 .. (n - 1), t[i] = x, q[1] = x PROVE FALSE
    <3>1. i + 1 \in 1 .. n /\ q[i + 1] = x /\ 1 \in 1 .. n
      BY <1>1, <2>3
    <3>2. i + 1 = 1
      BY <2>1, <2>3, <3>1
    <3> QED
      BY <1>1, <3>2
  <2> QED
    BY <1>1, <2>2, <2>3 DEF Once, Has
<1>7. ASSUME Last(q, x) PROVE Last(t, x) /\ (Head(q) = x => t = << >>)
  <2>1. \A i \in 1 .. n : q[i] = x => i = n
    BY <1>1, <1>3, <1>7 DEF n
  <2>2. ASSUME NEW i \in 1 .. (n - 1), t[i] = x PROVE i = n - 1
    <3>1. i + 1 \in 1 .. n /\ q[i + 1] = x
      BY <1>1, <2>2
    <3>2. i + 1 = n
      BY <2>1, <3>1
    <3> QED
      BY <1>1, <3>2
  <2>3. Head(q) = x => n = 1
    BY <1>1, <2>1
  <2> QED
    BY <1>1, <1>2, <1>3, <2>2, <2>3, SMTT(60)
<1> QED
  BY <1>1, <1>5, <1>6, <1>7 DEF t

-----------------------------------------------------------------------------
(* The pipeline.                                                           *)

\* Its steps are different roles, and no role is a state of a task.
LEMMA PipelineFacts ==
  /\ RiskAt \in Nat /\ RiskAt > 0 /\ ReportAt = RiskAt + 1
  /\ DOMAIN Pipeline = 1 .. ReportAt
  /\ Pipeline[RiskAt] = "risk" /\ Pipeline[ReportAt] = "reporting"
  /\ \A i, j \in 1 .. ReportAt : Pipeline[i] = Pipeline[j] => i = j
  /\ \A i \in 1 .. ReportAt : Pipeline[i] \in Roles
  /\ \A role \in Roles : \E i \in 1 .. ReportAt : Pipeline[i] = role
  /\ \A role \in Roles : role \notin TaskState
  /\ "reporting" \in Roles /\ "risk" \in Findings
<1> DEFINE n == Len(Specialists)
<1>1. /\ n \in Nat /\ DOMAIN Specialists = 1 .. n
      /\ Len(Pipeline) = n + 2 /\ DOMAIN Pipeline = 1 .. (n + 2)
      /\ \A i \in 1 .. n : Pipeline[i] = Specialists[i]
      /\ Pipeline[n + 1] = "risk" /\ Pipeline[n + 2] = "reporting"
  BY PipelineAssumption DEF Pipeline
<1>2. RiskAt = n + 1 /\ ReportAt = n + 2
  BY DEF RiskAt, ReportAt
<1> HIDE DEF n
<1>3. \A i \in 1 .. (n + 2) : i \in 1 .. n \/ i = n + 1 \/ i = n + 2
  BY <1>1
<1>4. \A i \in 1 .. n : Pipeline[i] \notin TaskState \cup { "risk", "reporting" }
  BY <1>1, PipelineAssumption
<1>5. \A i, j \in 1 .. n : Pipeline[i] = Pipeline[j] => i = j
  BY <1>1, PipelineAssumption
<1>6. \A i, j \in 1 .. (n + 2) : Pipeline[i] = Pipeline[j] => i = j
  BY <1>1, <1>3, <1>4, <1>5
<1>7. \A i \in 1 .. (n + 2) : Pipeline[i] \notin TaskState
  BY <1>1, <1>3, <1>4 DEF TaskState
<1>8. Roles = { Pipeline[i] : i \in 1 .. (n + 2) }
  BY <1>1 DEF Roles
<1>9. "reporting" \in Roles /\ "risk" \in Roles
  BY <1>1, <1>8
<1> QED
  BY <1>1, <1>2, <1>6, <1>7, <1>8, <1>9 DEF Findings

\* A deletion visits the orchestrator's store and then every step's.
LEMMA StoresFacts ==
  /\ ReportAt \in Nat /\ Len(Stores) = ReportAt + 1
  /\ \A k \in 1 .. ReportAt : Stores[k + 1] = Pipeline[k]
<1>1. Specialists \in Seq(STRING) /\ Len(Specialists) \in Nat
  BY PipelineAssumption
<1>2. /\ Len(Pipeline) = ReportAt
      /\ \A k \in 1 .. ReportAt : Stores[k + 1] = Pipeline[k]
      /\ Len(Stores) = ReportAt + 1
  BY <1>1 DEF Pipeline, ReportAt, Stores
<1> QED
  BY <1>1, <1>2 DEF ReportAt

-----------------------------------------------------------------------------
(* Types.                                                                  *)

LEMMA TypeInit == Init => TypeOK
<1> SUFFICES ASSUME Init PROVE TypeOK
  OBVIOUS
<1>1. << >> \in Seq(Event) /\ << >> \in Seq([run : Runs, of : Roles])
  OBVIOUS
<1>2. 1 \in DOMAIN Pipeline
  BY PipelineFacts
<1>3. Len(Stores) \in Nat
  BY StoresFacts
<1>4. /\ pc \in [Runs -> Step] /\ at \in [Runs -> DOMAIN Pipeline]
      /\ failures \in [Runs -> SUBSET Roles] /\ alarms \in [Runs -> SUBSET Alarming]
      /\ queue \in [Runs -> Seq(Event)]
  BY <1>1, <1>2 DEF Init, Step
<1>5. /\ wire \subseteq Runs \X Roles /\ rows \subseteq Runs \X Roles
      /\ audit \subseteq AuditAction \X Runs /\ sweep \in 0 .. Len(Stores) + 2
  BY <1>3 DEF Init
<1> QED
  BY <1>1, <1>4, <1>5 DEF Init, TypeOK, Absent

LEMMA TypeStep == TypeOK /\ [Next]_vars => TypeOK'
<1> SUFFICES ASSUME TypeOK, [Next]_vars PROVE TypeOK'
  OBVIOUS
<1> USE DEF TypeOK, run, peers, removal, Go, Step
<1>1. ASSUME NEW r \in Runs, NEW e \in Event, Publish(r, e)
      PROVE  queue' \in [Runs -> Seq(Event)]
  <2>1. Append(queue[r], e) \in Seq(Event)
    OBVIOUS
  <2> QED
    BY <1>1, <2>1 DEF Publish
<1>2. TaskState \subseteq Event /\ Roles \subseteq Event
  BY DEF Event
<1>3. { "WORKING", "FAILED", "REJECTED", "INPUT_REQUIRED", "COMPLETED", "CANCELED", "SUBMITTED" }
        \subseteq TaskState
  BY DEF TaskState
<1>4. Opener \in Runs /\ Decisions \subseteq Runs
  BY DEF Runs
<1>5. \A r \in Runs : at[r] \in 1 .. ReportAt /\ Pipeline[at[r]] \in Roles
  BY PipelineFacts
<1>6. ASSUME NEW r \in Runs, Advance(r)
      PROVE  at' \in [Runs -> DOMAIN Pipeline] /\ pc' \in [Runs -> Step]
  <2>1. 1 .. ReportAt = DOMAIN Pipeline /\ ReportAt \in Nat
    BY PipelineFacts
  <2>2. (IF at[r] = ReportAt THEN at[r] ELSE at[r] + 1) \in 1 .. ReportAt
    BY <1>5, <2>1
  <2> QED
    BY <1>6, <2>1, <2>2 DEF Advance
<1>7. ASSUME NEW r \in Runs, queue[r] # << >> PROVE Tail(queue[r]) \in Seq(Event) /\ Head(queue[r]) \in Event
  BY <1>7
<1>8. ASSUME NEW r \in Runs, Abandon(r)
      PROVE  pc' \in [Runs -> Step] /\ queue' \in [Runs -> Seq(Event)]
  BY <1>8 DEF Abandon
<1>9. ASSUME NEW a \in AuditAction, NEW r \in Runs, Record(a, r)
      PROVE  audit' \subseteq AuditAction \X Runs
  BY <1>9 DEF Record
<1>10. { "investigation_started", "review_requested", "human_decision", "investigation_completed",
         "investigation_failed", "investigation_deleted" } \subseteq AuditAction
  BY DEF AuditAction
<1> HIDE DEF Step
<1>11. { "idle", "planning", "starting", "checked", "resuming", "delegating", "calling", "gate",
         "requesting", "concluding", "recording", "over" } \subseteq Step
  BY DEF Step
<1>12. Len(Stores) = ReportAt + 1 /\ Len(Stores) \in Nat
  BY StoresFacts
<1>13. CASE Open
  BY <1>3, <1>4, <1>11, <1>13 DEF Open
<1>14. CASE Plan
  BY <1>1, <1>2, <1>3, <1>4, <1>11, <1>14 DEF Plan
<1>15. CASE RecordStart
  BY <1>4, <1>9, <1>10, <1>11, <1>15 DEF RecordStart
<1>16. CASE RefuseDepth
  BY <1>1, <1>2, <1>3, <1>4, <1>11, <1>16 DEF RefuseDepth
<1>17. CASE GiveUp
  BY <1>1, <1>2, <1>3, <1>4, <1>11, <1>17 DEF GiveUp
<1>18. CASE Gate
  BY <1>1, <1>2, <1>3, <1>4, <1>11, <1>18 DEF Gate
<1>19. CASE RequestReview
  BY <1>4, <1>9, <1>10, <1>11, <1>19 DEF RequestReview
<1>20. CASE Disconnect
  BY <1>4, <1>8, <1>20 DEF Disconnect
<1>21. ASSUME NEW r \in Runs, Delegate(r) PROVE TypeOK'
  BY <1>1, <1>2, <1>3, <1>5, <1>11, <1>21 DEF Delegate
<1>22. ASSUME NEW r \in Runs, Resend(r) PROVE TypeOK'
  BY <1>5, <1>22 DEF Resend
<1>23. ASSUME NEW r \in Runs, NEW role \in Roles, PeerCreates(r, role) PROVE TypeOK'
  BY <1>23 DEF PeerCreates
<1>24. ASSUME NEW r \in Runs, PeerAnswers(r) PROVE TypeOK'
  BY <1>1, <1>2, <1>5, <1>6, <1>24 DEF PeerAnswers
<1>25. ASSUME NEW r \in Runs, PeerFails(r) PROVE TypeOK'
  BY <1>1, <1>2, <1>3, <1>5, <1>6, <1>25 DEF PeerFails
<1>26. ASSUME NEW r \in Runs, CallRaises(r) PROVE TypeOK'
  BY <1>1, <1>2, <1>3, <1>11, <1>26 DEF CallRaises
<1>27. ASSUME NEW r \in Runs, Conclude(r) PROVE TypeOK'
  BY <1>1, <1>2, <1>3, <1>11, <1>27 DEF Conclude
<1>28. ASSUME NEW r \in Runs, RecordVerdict(r) PROVE TypeOK'
  BY <1>9, <1>10, <1>11, <1>28 DEF RecordVerdict
<1>29. ASSUME NEW r \in Runs, PersistStatus(r) PROVE TypeOK'
  BY <1>7, <1>29 DEF PersistStatus
<1>30. ASSUME NEW r \in Runs, PersistArtifact(r) PROVE TypeOK'
  <2>1. CASE Live
    <3>1. [run |-> r, of |-> Head(queue[r])] \in [run : Runs, of : Roles]
      BY <1>30 DEF PersistArtifact
    <3>2. Append(artifacts, [run |-> r, of |-> Head(queue[r])]) \in Seq([run : Runs, of : Roles])
      BY <3>1
    <3> QED
      BY <1>7, <1>30, <2>1, <3>2 DEF PersistArtifact
  <2>2. CASE ~Live
    BY <1>8, <1>30, <2>2 DEF PersistArtifact
  <2> QED
    BY <2>1, <2>2
<1>31. ASSUME NEW r \in Runs, TimeOut(r) PROVE TypeOK'
  BY <1>3, <1>8, <1>31 DEF TimeOut
<1>32. ASSUME NEW d \in Decisions, CheckPaused(d) PROVE TypeOK'
  BY <1>4, <1>11, <1>32 DEF CheckPaused
<1>33. ASSUME NEW d \in Decisions, Continue(d) PROVE TypeOK'
  BY <1>4, <1>11, <1>33 DEF Continue
<1>34. ASSUME NEW d \in Decisions, Resume(d) PROVE TypeOK'
  BY <1>1, <1>2, <1>3, <1>4, <1>9, <1>10, <1>11, <1>34, PipelineFacts DEF Resume
<1>35. CASE Cancel
  BY <1>3, <1>35 DEF Cancel
<1>36. CASE BeginDelete
  BY <1>12, <1>36 DEF BeginDelete
<1>37. CASE Sweep
  <2>1. << >> \in Seq([run : Runs, of : Roles])
    OBVIOUS
  <2>2. /\ status' \in TaskState \cup Absent /\ artifacts' \in Seq([run : Runs, of : Roles])
        /\ ghosts' \subseteq Decisions /\ rows' \subseteq Runs \X Roles
    BY <1>37, <2>1 DEF Sweep, Absent
  <2>3. sweep' \in 0 .. Len(Stores) + 2
    BY <1>12, <1>37 DEF Sweep
  <2> QED
    BY <1>37, <2>2, <2>3 DEF Sweep
<1>38. CASE EndDelete
  BY <1>4, <1>9, <1>10, <1>12, <1>38 DEF EndDelete
<1>39. CASE UNCHANGED vars
  BY <1>39 DEF vars
<1> QED
  BY <1>13, <1>14, <1>15, <1>16, <1>17, <1>18, <1>19, <1>20, <1>21, <1>22, <1>23, <1>24, <1>25,
     <1>26, <1>27, <1>28, <1>29, <1>30, <1>31, <1>32, <1>33, <1>34, <1>35, <1>36, <1>37, <1>38,
     <1>39
  DEF Next, OpenerStep, RunStep, DecisionStep, DeleteStep

\* The store holds only task states, a queue only what a run may publish, and
\* a run is at a step of its pipeline.
THEOREM TypeCorrect == Spec => []TypeOK
BY TypeInit, TypeStep, PTL DEF Spec

-----------------------------------------------------------------------------
(* The invariant.  An artifact a run emitted is in its queue or stored.    *)

Entry(r, role) == [run |-> r, of |-> role]
Filed(r, role) == Has(artifacts, Entry(r, role))
Queued(r, e) == Has(queue[r], e)
Emitted(r, role) == Queued(r, role) \/ Filed(r, role)
Assessed == \A role \in Findings : Filed(Opener, role)

\* A run is past the step of a role.
Behind(r, role) ==
  \/ pc[r] \in { "requesting", "concluding", "recording", "over" }
  \/ /\ pc[r] \in { "delegating", "calling", "gate" }
     /\ \E k \in 1 .. ReportAt : k < at[r] /\ Pipeline[k] = role

\* A run is at its Reporting hop or past it, with its verdict to come.
Finishing(r) ==
  at[r] = ReportAt /\ pc[r] \in { "delegating", "calling", "concluding", "recording" }

\* A run emits no artifact twice, and none ahead of its step.
EmittedOnce ==
  \A r \in Runs, role \in Roles :
    /\ Once(queue[r], role)
    /\ Once(artifacts, Entry(r, role))
    /\ Queued(r, role) => ~Filed(r, role)
    /\ Emitted(r, role) => Behind(r, role)

\* The opener leaves nothing out that it did not count as failed.
NothingLeftOut ==
  Live /\ pc[Opener] \in { "delegating", "calling", "gate", "concluding" } =>
    \A k \in 1 .. ReportAt :
      k < at[Opener] \/ pc[Opener] = "concluding" =>
        Pipeline[k] \in failures[Opener] \/ Emitted(Opener, Pipeline[k])

FailedIsMissing ==
  \A role \in failures[Opener] : Behind(Opener, role) /\ ~Emitted(Opener, role)

\* What a pause and a completion wait behind in the opener's queue.
PauseComesLast ==
  Queued(Opener, "INPUT_REQUIRED") =>
    /\ Last(queue[Opener], "INPUT_REQUIRED")
    /\ pc[Opener] \in { "requesting", "over" }
    /\ ~Emitted(Opener, "reporting")
    /\ Live => \A role \in Findings : Emitted(Opener, role)

CompletionComesLast ==
  Queued(Opener, "COMPLETED") =>
    /\ Last(queue[Opener], "COMPLETED")
    /\ pc[Opener] \in { "recording", "over" }
    /\ Live => \A role \in Roles : Emitted(Opener, role)

\* A paused case is complete, and its opener has nothing more to say.
Paused ==
  status = "INPUT_REQUIRED" =>
    queue[Opener] = << >> /\ pc[Opener] \in { "requesting", "over" } /\ Assessed

StatesInUse ==
  /\ status # "AUTH_REQUIRED"
  /\ \A e \in TaskState : Queued(Opener, e) =>
       e \in { "WORKING", "INPUT_REQUIRED", "COMPLETED", "FAILED", "REJECTED" }
  /\ \A d \in Decisions, e \in Event : Queued(d, e) =>
       e \in { "WORKING", "COMPLETED", "FAILED", "reporting" }

OpenerShape ==
  /\ pc[Opener] \notin { "checked", "resuming" }
  /\ pc[Opener] = "idle" <=> status = "UNUSED"
  /\ pc[Opener] = "idle" => queue[Opener] = << >>
  /\ pc[Opener] \in { "idle", "planning", "starting" } => at[Opener] = 1
  /\ pc[Opener] \in { "gate", "concluding", "recording" } => at[Opener] = ReportAt
  /\ ~Live => artifacts = << >>

\* A decision acts on a case that was paused, and files a report after it was
\* recorded.
DecisionShape ==
  \A d \in Decisions :
    /\ pc[d] \notin { "planning", "starting", "gate", "requesting" }
    /\ pc[d] \in { "delegating", "calling", "concluding", "recording" } =>
         d \in Decided /\ at[d] = ReportAt
    /\ queue[d] # << >> => d \in Decided
    /\ d \in Decided => pc[d] \notin { "idle", "checked", "resuming" }
    /\ pc[d] # "idle" => status # "UNUSED" /\ (Live => Assessed)
    /\ \A role \in Roles : Filed(d, role) => role = "reporting" /\ d \in Decided

\* A case that should have been held for a review and was not lacks a finding.
HeldForReview ==
  settings.review /\ RequiresReview(Opener)
    /\ (Finishing(Opener) \/ Emitted(Opener, "reporting")) =>
      \E role \in Findings : role \in failures[Opener]

CaseInv ==
  /\ EmittedOnce /\ NothingLeftOut /\ FailedIsMissing
  /\ PauseComesLast /\ CompletionComesLast /\ Paused
  /\ StatesInUse /\ OpenerShape /\ DecisionShape /\ HeldForReview

\* While a quiet case is deleted nothing comes to life, and what the sweep has
\* passed stays empty.
QuietSweep ==
  calm =>
    /\ sweep > 0
    /\ status # "UNUSED"
    /\ wire = {} /\ \A r \in Runs : ~Busy(r) /\ pc[r] # "checked"
    /\ sweep > 1 => ~Live /\ ghosts = {}
    /\ \A w \in rows, k \in 1 .. ReportAt : k + 1 < sweep => w[2] # Stores[k + 1]

-----------------------------------------------------------------------------
(* What the ways of touching a queue and the artifacts leave in them.      *)

LEMMA EntryFacts ==
  ASSUME NEW r1, NEW o1, NEW r2, NEW o2
  PROVE  Entry(r1, o1) = Entry(r2, o2) <=> r1 = r2 /\ o1 = o2
BY DEF Entry

LEMMA PublishFacts ==
  ASSUME TypeOK, NEW r \in Runs, NEW e \in Event, Publish(r, e)
  PROVE  /\ \A x \in Runs : x # r => queue'[x] = queue[x]
         /\ queue'[r] # << >>
         /\ \A x : Has(queue'[r], x) <=> Has(queue[r], x) \/ x = e
         /\ \A x : Once(queue[r], x) /\ ~(Has(queue[r], x) /\ x = e) => Once(queue'[r], x)
         /\ \A x : ~Has(queue[r], x) => Last(queue'[r], x)
<1>1. queue[r] \in Seq(Event) /\ queue'[r] = Append(queue[r], e)
  BY DEF TypeOK, Publish
<1>2. \A x \in Runs : x # r => queue'[x] = queue[x]
  BY DEF TypeOK, Publish
<1>3. ASSUME NEW x
      PROVE  /\ queue'[r] # << >>
             /\ Has(queue'[r], x) <=> Has(queue[r], x) \/ x = e
             /\ Once(queue[r], x) /\ ~(Has(queue[r], x) /\ x = e) => Once(queue'[r], x)
             /\ ~Has(queue[r], x) => Last(queue'[r], x)
  <2> DEFINE q == queue[r]
             a == Append(q, e)
  <2>1. q \in Seq(Event) /\ queue'[r] = a
    BY <1>1
  <2> HIDE DEF q
  <2>2. /\ a # << >>
        /\ Has(a, x) <=> Has(q, x) \/ x = e
        /\ Once(q, x) /\ ~(Has(q, x) /\ x = e) => Once(a, x)
        /\ ~Has(q, x) => Last(a, x)
    BY <2>1, AppendHas
  <2> QED
    BY <2>1, <2>2 DEF q
<1> QED
  BY <1>2, <1>3

LEMMA TakeFacts ==
  ASSUME TypeOK, NEW r \in Runs, queue[r] # << >>, queue' = [queue EXCEPT ![r] = Tail(@)]
  PROVE  /\ \A x \in Runs : x # r => queue'[x] = queue[x]
         /\ Head(queue[r]) \in Event
         /\ Has(queue[r], Head(queue[r]))
         /\ \A x : Has(queue[r], x) <=> x = Head(queue[r]) \/ Has(queue'[r], x)
         /\ \A x : Once(queue[r], x) =>
              Once(queue'[r], x) /\ ~(Head(queue[r]) = x /\ Has(queue'[r], x))
         /\ \A x : Last(queue[r], x) =>
              Last(queue'[r], x) /\ (Head(queue[r]) = x => queue'[r] = << >>)
<1>1. queue[r] \in Seq(Event) /\ queue'[r] = Tail(queue[r])
  BY DEF TypeOK
<1>2. \A x \in Runs : x # r => queue'[x] = queue[x]
  BY DEF TypeOK
<1>3. ASSUME NEW x
      PROVE  /\ Head(queue[r]) \in Event
             /\ Has(queue[r], x) <=> x = Head(queue[r]) \/ Has(queue'[r], x)
             /\ Once(queue[r], x) =>
                  Once(queue'[r], x) /\ ~(Head(queue[r]) = x /\ Has(queue'[r], x))
             /\ Last(queue[r], x) =>
                  Last(queue'[r], x) /\ (Head(queue[r]) = x => queue'[r] = << >>)
  BY ONLY <1>1, TailHas, queue[r] # << >>, ZenonT(60)
<1> QED
  BY <1>2, <1>3

LEMMA AbandonFacts ==
  ASSUME TypeOK, NEW r \in Runs, Abandon(r)
  PROVE  /\ \A x \in Runs : x # r => queue'[x] = queue[x] /\ pc'[x] = pc[x]
         /\ queue'[r] = << >> /\ pc'[r] = "over"
BY DEF TypeOK, Abandon, Go

\* Nothing of what the invariant speaks of.
core == << settings, status, artifacts, pc, at, failures, alarms, queue, Decided >>

LEMMA CoreUnchanged ==
  CaseInv /\ UNCHANGED core => CaseInv'
<1> SUFFICES ASSUME CaseInv, UNCHANGED core PROVE CaseInv'
  OBVIOUS
<1> USE DEF core, Filed, Queued, Emitted, Behind, Live
<1>1. EmittedOnce' /\ NothingLeftOut' /\ FailedIsMissing'
  BY DEF CaseInv, EmittedOnce, NothingLeftOut, FailedIsMissing
<1>2. PauseComesLast' /\ CompletionComesLast' /\ Paused' /\ StatesInUse'
  BY DEF CaseInv, PauseComesLast, CompletionComesLast, Paused, StatesInUse, Assessed
<1>3. OpenerShape' /\ DecisionShape' /\ HeldForReview'
  BY DEF CaseInv, OpenerShape, DecisionShape, HeldForReview, Assessed, Finishing, RequiresReview
<1> QED
  BY <1>1, <1>2, <1>3 DEF CaseInv

-----------------------------------------------------------------------------
(* What most steps have in common.                                         *)

\* A run only moves on.
Forward(r) ==
  \/ pc'[r] = pc[r] /\ at'[r] = at[r]
  \/ pc'[r] \in { "requesting", "concluding", "recording", "over" }
  \/ pc[r] \in { "idle", "planning", "starting", "checked", "resuming" }
  \/ /\ { pc[r], pc'[r] } \subseteq { "delegating", "calling", "gate" }
     /\ at'[r] \in { at[r], at[r] + 1 }

LEMMA BehindStays ==
  ASSUME NEW r \in Runs, at[r] \in Nat, Forward(r), NEW role
  PROVE  Behind(r, role) => Behind(r, role)'
BY PipelineFacts DEF Forward, Behind

\* Nothing is emitted, and nothing emitted is lost.
Silent == \A r \in Runs, role \in Roles : Emitted(r, role)' <=> Emitted(r, role)

\* A run says e, and nothing else is said.
Says(r, e) ==
  /\ EmittedOnce' /\ Silent
  /\ \A x \in Runs : \A s : Queued(x, s)' <=> Queued(x, s) \/ (x = r /\ s = e)
  /\ \A s : ~Queued(r, s) => Last(queue'[r], s)
  /\ \A x \in Runs : x # r => queue'[x] = queue[x]
  /\ \A x, role : Filed(x, role)' <=> Filed(x, role)
  /\ \A x \in Runs : \A role : Behind(x, role) => Behind(x, role)'

SaysNoMore ==
  /\ EmittedOnce' /\ Silent /\ queue' = queue
  /\ \A x, s : Queued(x, s)' <=> Queued(x, s)
  /\ \A x, role : Filed(x, role)' <=> Filed(x, role)
  /\ \A x \in Runs : \A role : Behind(x, role) => Behind(x, role)'

LEMMA SaysStatus ==
  ASSUME TypeOK, EmittedOnce, NEW r \in Runs, NEW e \in TaskState, Publish(r, e),
         UNCHANGED artifacts, \A x \in Runs : Forward(x)
  PROVE  Says(r, e)
<1>1. e \in Event /\ e \notin Roles
  BY PipelineFacts DEF Event
<1>2. /\ \A x \in Runs : x # r => queue'[x] = queue[x]
      /\ \A x : Has(queue'[r], x) <=> Has(queue[r], x) \/ x = e
      /\ \A x : Once(queue[r], x) /\ ~(Has(queue[r], x) /\ x = e) => Once(queue'[r], x)
      /\ \A x : ~Has(queue[r], x) => Last(queue'[r], x)
  BY <1>1, PublishFacts
<1>3. \A x \in Runs : \A s : Queued(x, s)' <=> Queued(x, s) \/ (x = r /\ s = e)
  BY <1>2 DEF Queued
<1>4. \A x, role : Filed(x, role)' <=> Filed(x, role)
  BY DEF Filed
<1>5. Silent
  BY <1>1, <1>3, <1>4 DEF Silent, Emitted
<1>6. \A x \in Runs, role \in Roles : Once(queue'[x], role)
  BY <1>1, <1>2 DEF EmittedOnce
<1>7. \A x \in Runs : \A role : Behind(x, role) => Behind(x, role)'
  <2>1. \A x \in Runs : at[x] \in Nat
    BY PipelineFacts DEF TypeOK
  <2> QED
    BY <2>1, BehindStays
<1>8. EmittedOnce'
  BY <1>1, <1>3, <1>4, <1>5, <1>6, <1>7 DEF EmittedOnce, Silent
<1> QED
  BY <1>2, <1>3, <1>4, <1>5, <1>7, <1>8 DEF Queued, Says

LEMMA SaysNothing ==
  ASSUME TypeOK, EmittedOnce, UNCHANGED << queue, artifacts >>, \A x \in Runs : Forward(x)
  PROVE  SaysNoMore
<1>1. /\ \A x, s : Queued(x, s)' <=> Queued(x, s)
      /\ \A x, role : Filed(x, role)' <=> Filed(x, role)
  BY DEF Queued, Filed
<1>2. Silent
  BY <1>1 DEF Silent, Emitted
<1>3. \A x \in Runs : \A role : Behind(x, role) => Behind(x, role)'
  <2>1. \A x \in Runs : at[x] \in Nat
    BY PipelineFacts DEF TypeOK
  <2> QED
    BY <2>1, BehindStays
<1>4. EmittedOnce'
  BY <1>1, <1>2, <1>3 DEF EmittedOnce, Silent
<1> QED
  BY <1>1, <1>2, <1>3, <1>4 DEF SaysNoMore

\* Emitted artifacts are no more than they were: what is said of their absence
\* stays true.
LEMMA Abandons ==
  ASSUME TypeOK, CaseInv, NEW r \in Runs, Busy(r), Abandon(r),
         UNCHANGED << settings, artifacts, at, failures, alarms, Decided >>,
         status' = status \/ (Live /\ status' = "FAILED")
  PROVE  CaseInv'
<1>1. /\ \A x \in Runs : x # r => queue'[x] = queue[x] /\ pc'[x] = pc[x]
      /\ queue'[r] = << >> /\ pc'[r] = "over"
  BY AbandonFacts
<1>2. /\ \A x, role : Filed(x, role)' <=> Filed(x, role)
      /\ \A s : ~Queued(r, s)'
      /\ \A x \in Runs : \A s : Queued(x, s)' => Queued(x, s)
      /\ \A x \in Runs : \A role : Emitted(x, role)' => Emitted(x, role)
      /\ \A x \in Runs : \A role : Once(queue[x], role) => Once(queue'[x], role)
  BY <1>1, EmptyHas DEF Filed, Queued, Emitted
<1>3. \A x \in Runs : \A role : Behind(x, role) => Behind(x, role)'
  <2>1. \A x \in Runs : at[x] \in Nat /\ Forward(x)
    BY <1>1, PipelineFacts DEF TypeOK, Forward
  <2> QED
    BY <2>1, BehindStays
<1>4. Opener \in Runs /\ Decisions \subseteq Runs /\ Opener \notin Decisions
  BY RunsAssumption DEF Runs
<1>5. /\ "UNUSED" \notin TaskState /\ "reporting" \in Roles /\ Findings \subseteq Roles
      /\ TaskState \subseteq Event /\ "FAILED" \in TaskState
  BY PipelineFacts DEF TaskState, Findings, Event
<1>6. EmittedOnce'
  BY <1>2, <1>3 DEF CaseInv, EmittedOnce
<1>7. NothingLeftOut'
  <2>1. CASE r = Opener
    BY <1>1, <2>1 DEF NothingLeftOut
  <2>2. CASE r # Opener
    BY <1>1, <1>2, <1>4, <1>5, <2>2 DEF CaseInv, NothingLeftOut, Live, Emitted, Queued
  <2> QED
    BY <2>1, <2>2
<1>8. FailedIsMissing'
  BY <1>2, <1>3, <1>4 DEF CaseInv, FailedIsMissing
<1>9. PauseComesLast'
  <2>1. CASE r = Opener
    BY <1>2, <2>1 DEF PauseComesLast
  <2>2. CASE r # Opener
    BY <1>1, <1>2, <1>4, <1>5, <2>2 DEF CaseInv, PauseComesLast, Live, Emitted, Queued
  <2> QED
    BY <2>1, <2>2
<1>10. CompletionComesLast'
  <2>1. CASE r = Opener
    BY <1>2, <2>1 DEF CompletionComesLast
  <2>2. CASE r # Opener
    BY <1>1, <1>2, <1>4, <1>5, <2>2 DEF CaseInv, CompletionComesLast, Live, Emitted, Queued
  <2> QED
    BY <2>1, <2>2
<1>11. Paused'
  BY <1>1, <1>2, <1>4 DEF CaseInv, Paused, Assessed
<1>12. StatesInUse'
  BY <1>2, <1>4, <1>5 DEF CaseInv, StatesInUse
<1>13. OpenerShape'
  BY <1>1, <1>4, <1>5 DEF CaseInv, OpenerShape, Live, Busy
<1>14. DecisionShape'
  BY <1>1, <1>2, <1>4, <1>5 DEF CaseInv, DecisionShape, Live, Busy, Assessed
<1>15. HeldForReview'
  BY <1>1, <1>2, <1>4, <1>5 DEF CaseInv, HeldForReview, Finishing, RequiresReview
<1> QED
  BY <1>6, <1>7, <1>8, <1>9, <1>10, <1>11, <1>12, <1>13, <1>14, <1>15 DEF CaseInv

\* The gate of a run that has every finding may pause it; a run that goes on
\* to Reporting with an alarm lacks one.
LEMMA GateKeeps == TypeOK /\ CaseInv /\ Gate => CaseInv'
<1> SUFFICES ASSUME TypeOK, CaseInv, Gate PROVE CaseInv'
  OBVIOUS
<1> USE DEF run, peers, removal, Go, Live
<1>1. /\ "INPUT_REQUIRED" \in TaskState /\ TaskState \subseteq Event /\ Roles \cap TaskState = {}
      /\ Findings \subseteq Roles /\ "reporting" \notin Findings /\ "reporting" \in Roles
      /\ "UNUSED" \notin TaskState
  BY PipelineFacts DEF Event, TaskState, Findings
<1>2. Opener \in Runs /\ Decisions \subseteq Runs /\ Opener \notin Decisions
  BY RunsAssumption DEF Runs
<1>3. /\ pc[Opener] = "gate" /\ at[Opener] = ReportAt
      /\ UNCHANGED << settings, status, artifacts, at, failures, alarms >>
      /\ pc' = [pc EXCEPT ![Opener] = pc'[Opener]] /\ pc'[Opener] \in { "requesting", "delegating" }
  BY <1>2 DEF Gate, CaseInv, OpenerShape, TypeOK
<1>4. \A x \in Runs : Forward(x) /\ (x # Opener => pc'[x] = pc[x])
  BY <1>2, <1>3 DEF Forward, TypeOK
<1>5. Decided' = Decided
  BY DEF Decided, Gate
<1>6. ~Emitted(Opener, "reporting")
  <2>1. ~Behind(Opener, "reporting")
    BY <1>3, PipelineFacts DEF Behind
  <2> QED
    BY <1>1, <1>2, <2>1 DEF CaseInv, EmittedOnce
<1>7. \A role \in Roles : role # "reporting" => \E k \in 1 .. ReportAt : k < ReportAt /\ Pipeline[k] = role
  BY PipelineFacts
<1>8. ~Queued(Opener, "INPUT_REQUIRED") /\ ~Queued(Opener, "COMPLETED")
  BY <1>3 DEF CaseInv, PauseComesLast, CompletionComesLast
<1>9. CASE Publish(Opener, "INPUT_REQUIRED") /\ pc'[Opener] = "requesting" /\ failures[Opener] = {}
  <2>1. Says(Opener, "INPUT_REQUIRED")
    BY <1>1, <1>2, <1>3, <1>4, <1>9, SaysStatus DEF CaseInv
  <2>2. NothingLeftOut' /\ CompletionComesLast' /\ HeldForReview'
    BY <1>1, <1>2, <1>6, <1>8, <1>9, <2>1
    DEF Says, NothingLeftOut, CompletionComesLast, HeldForReview, Finishing, Silent
  <2>3. FailedIsMissing'
    BY <1>3, <1>9 DEF FailedIsMissing
  <2>4. PauseComesLast'
    <3>1. Live => \A role \in Findings : Emitted(Opener, role)
      BY <1>1, <1>3, <1>7, <1>9 DEF CaseInv, NothingLeftOut
    <3> QED
      BY <1>1, <1>2, <1>3, <1>6, <1>8, <1>9, <2>1, <3>1 DEF Says, PauseComesLast, Silent
  <2>5. Paused'
    BY <1>3 DEF CaseInv, Paused
  <2>6. StatesInUse'
    BY <1>1, <1>2, <1>3, <2>1 DEF Says, CaseInv, StatesInUse
  <2>7. OpenerShape'
    BY <1>3, <1>9 DEF CaseInv, OpenerShape
  <2>8. DecisionShape'
    BY <1>2, <1>3, <1>4, <1>5, <2>1 DEF Says, CaseInv, DecisionShape, Assessed
  <2> QED
    BY <2>1, <2>2, <2>3, <2>4, <2>5, <2>6, <2>7, <2>8 DEF Says, CaseInv
<1>10. CASE /\ ~(failures[Opener] = {} /\ settings.review /\ RequiresReview(Opener))
            /\ pc'[Opener] = "delegating" /\ UNCHANGED queue
  <2>1. SaysNoMore
    BY <1>3, <1>4, <1>10, SaysNothing DEF CaseInv
  <2>2. NothingLeftOut'
    BY <1>1, <1>2, <1>3, <1>10, <2>1, PipelineFacts DEF SaysNoMore, CaseInv, NothingLeftOut, Silent
  <2>3. FailedIsMissing'
    BY <1>2, <1>3, <2>1 DEF SaysNoMore, CaseInv, FailedIsMissing, TypeOK, Silent
  <2>4. PauseComesLast' /\ CompletionComesLast' /\ Paused'
    BY <1>3, <1>8, <2>1 DEF SaysNoMore, CaseInv, PauseComesLast, CompletionComesLast, Paused
  <2>5. StatesInUse' /\ OpenerShape'
    BY <1>1, <1>2, <1>3, <1>10, <2>1 DEF SaysNoMore, CaseInv, StatesInUse, OpenerShape
  <2>6. DecisionShape'
    BY <1>2, <1>3, <1>4, <1>5, <1>10, <2>1 DEF SaysNoMore, CaseInv, DecisionShape, Assessed
  <2>7. HeldForReview'
    <3>1. \A role \in failures[Opener] : role \in Findings
      BY <1>2, <1>3, PipelineFacts DEF CaseInv, FailedIsMissing, Behind, TypeOK, Findings
    <3>2. settings.review /\ RequiresReview(Opener) => \E role \in Findings : role \in failures[Opener]
      BY <1>10, <3>1
    <3> QED
      BY <1>3, <3>2 DEF HeldForReview, RequiresReview
  <2> QED
    BY <2>1, <2>2, <2>3, <2>4, <2>5, <2>6, <2>7 DEF SaysNoMore, CaseInv
<1> QED
  BY <1>9, <1>10, <1>2 DEF Gate, TypeOK

\* A peer's artifact is the one of the step its run is at: it was not emitted
\* before, and the run is past that step now.
LEMMA AnswerKeeps ==
  ASSUME TypeOK, CaseInv, NEW r \in Runs, PeerAnswers(r)
  PROVE  CaseInv'
<1> DEFINE o == Pipeline[at[r]]
<1> USE DEF run, peers, removal, Go, Live
<1>1. /\ "reporting" \in Roles /\ Findings \subseteq Roles /\ "reporting" \notin Findings
      /\ "UNUSED" \notin TaskState /\ Roles \cap TaskState = {} /\ Roles \subseteq Event
      /\ { "INPUT_REQUIRED", "COMPLETED", "WORKING", "FAILED" } \subseteq TaskState
  BY PipelineFacts DEF TaskState, Findings, Event
<1>2. /\ Opener \in Runs /\ Decisions \subseteq Runs /\ Opener \notin Decisions
      /\ \A x \in Runs : x = Opener \/ x \in Decisions
  BY RunsAssumption DEF Runs
<1>3. /\ pc \in [Runs -> Step] /\ at \in [Runs -> 1 .. ReportAt]
      /\ alarms \in [Runs -> SUBSET Alarming]
  BY PipelineFacts DEF TypeOK
<1>4. /\ pc[r] = "calling" /\ Publish(r, o) /\ Advance(r)
      /\ UNCHANGED << settings, status, artifacts, failures, audit >>
      /\ \E found \in SUBSET (Alarming \cap { o }) : alarms' = [alarms EXCEPT ![r] = @ \cup found]
  BY DEF PeerAnswers
<1>5. /\ o \in Roles /\ ~Behind(r, o)
      /\ \A k \in 1 .. ReportAt : k < at[r] => Pipeline[k] # o
  BY <1>3, <1>4, PipelineFacts DEF Behind
<1>6. ~Emitted(r, o)
  BY <1>5 DEF CaseInv, EmittedOnce
<1>7. /\ at' = [at EXCEPT ![r] = IF at[r] = ReportAt THEN at[r] ELSE at[r] + 1]
      /\ pc' = [pc EXCEPT ![r] = pc'[r]]
      /\ at[r] = RiskAt => pc'[r] = "gate"
      /\ at[r] = ReportAt => pc'[r] = "concluding"
      /\ at[r] < RiskAt => pc'[r] = "delegating"
      /\ at[r] < RiskAt \/ at[r] = RiskAt \/ at[r] = ReportAt
  BY <1>3, <1>4, PipelineFacts DEF Advance
<1>8. \A x \in Runs : Forward(x) /\ (x # r => pc'[x] = pc[x] /\ at'[x] = at[x] /\ alarms'[x] = alarms[x])
  BY <1>3, <1>4, <1>7 DEF Forward
<1>9. \A x \in Runs : \A role : Behind(x, role) => Behind(x, role)'
  BY <1>3, <1>8, BehindStays
<1>10. \A role : role = o => Behind(r, role)'
  <2>1. CASE at[r] = ReportAt
    BY <1>7, <2>1 DEF Behind
  <2>2. CASE at[r] # ReportAt
    <3>1. at'[r] = at[r] + 1 /\ at[r] \in 1 .. ReportAt /\ at[r] < at'[r]
      BY <1>3, <1>7, <2>2
    <3>2. pc'[r] \in { "gate", "delegating" }
      BY <1>7, <2>2
    <3> QED
      BY <3>1, <3>2 DEF Behind
  <2> QED
    BY <2>1, <2>2
<1> HIDE DEF o
<1>11. /\ \A x \in Runs : x # r => queue'[x] = queue[x]
       /\ queue'[r] # << >>
       /\ \A x : Has(queue'[r], x) <=> Has(queue[r], x) \/ x = o
       /\ \A x : Once(queue[r], x) /\ ~(Has(queue[r], x) /\ x = o) => Once(queue'[r], x)
  BY <1>1, <1>4, <1>5, PublishFacts
<1>12. /\ \A x \in Runs : \A s : Queued(x, s)' <=> Queued(x, s) \/ (x = r /\ s = o)
       /\ \A x, role : Filed(x, role)' <=> Filed(x, role)
  BY <1>4, <1>11 DEF Queued, Filed
<1>13. \A x \in Runs : \A role : Emitted(x, role)' <=> Emitted(x, role) \/ (x = r /\ role = o)
  BY <1>12 DEF Emitted
<1>14. Decided' = Decided
  BY <1>4 DEF Decided
<1>15. EmittedOnce'
  <2>1. \A x \in Runs, role \in Roles : Once(queue'[x], role)
    BY <1>6, <1>11 DEF CaseInv, EmittedOnce, Emitted, Queued
  <2> QED
    BY <1>4, <1>6, <1>9, <1>10, <1>12, <1>13, <2>1 DEF CaseInv, EmittedOnce, Emitted
<1>16. NothingLeftOut'
  <2>1. CASE r = Opener
    <3>1. ASSUME Live, NEW k \in 1 .. ReportAt, k < at'[Opener] \/ pc'[Opener] = "concluding"
          PROVE  Pipeline[k] \in failures[Opener] \/ Emitted(Opener, Pipeline[k])'
      <4>1. k < at[Opener] \/ k = at[Opener]
        BY <1>3, <1>7, <2>1, <3>1, PipelineFacts
      <4>2. CASE k < at[Opener]
        BY <1>2, <1>4, <1>13, <2>1, <3>1, <4>2 DEF CaseInv, NothingLeftOut
      <4>3. CASE k = at[Opener]
        BY <1>13, <2>1, <4>3 DEF o
      <4> QED
        BY <4>1, <4>2, <4>3
    <3> QED
      BY <1>4, <3>1 DEF NothingLeftOut
  <2>2. CASE r # Opener
    BY <1>2, <1>4, <1>8, <1>13, <2>2 DEF CaseInv, NothingLeftOut
  <2> QED
    BY <2>1, <2>2
<1>17. FailedIsMissing'
  BY <1>2, <1>4, <1>5, <1>9, <1>13 DEF CaseInv, FailedIsMissing
<1>18. PauseComesLast' /\ CompletionComesLast' /\ Paused'
  <2>1. CASE r = Opener
    <3>1. ~Queued(r, "INPUT_REQUIRED") /\ ~Queued(r, "COMPLETED") /\ status # "INPUT_REQUIRED"
      BY <1>4, <2>1 DEF CaseInv, PauseComesLast, CompletionComesLast, Paused
    <3>2. ~Queued(r, "INPUT_REQUIRED")' /\ ~Queued(r, "COMPLETED")' /\ status' # "INPUT_REQUIRED"
      BY <1>1, <1>4, <1>5, <1>12, <3>1
    <3> QED
      BY <2>1, <3>2 DEF PauseComesLast, CompletionComesLast, Paused
  <2>2. CASE r # Opener
    BY <1>2, <1>4, <1>8, <1>11, <1>12, <1>13, <2>2
    DEF CaseInv, PauseComesLast, CompletionComesLast, Paused, Assessed
  <2> QED
    BY <2>1, <2>2
<1>19. StatesInUse'
  <2>1. r \in Decisions => o = "reporting"
    BY <1>4, PipelineFacts DEF CaseInv, DecisionShape, o
  <2> QED
    BY <1>1, <1>2, <1>4, <1>5, <1>12, <2>1 DEF CaseInv, StatesInUse
<1>20. OpenerShape'
  BY <1>2, <1>3, <1>4, <1>7, <1>8, <1>11, PipelineFacts DEF CaseInv, OpenerShape
<1>21. DecisionShape'
  BY <1>2, <1>3, <1>4, <1>7, <1>8, <1>11, <1>12, <1>14, PipelineFacts
  DEF CaseInv, DecisionShape, Assessed
<1>22. HeldForReview'
  <2>1. CASE r # Opener
    BY <1>2, <1>4, <1>8, <1>13, <2>1 DEF CaseInv, HeldForReview, Finishing, RequiresReview
  <2>2. CASE r = Opener /\ at[r] = ReportAt
    <3>1. Alarming \cap { o } = {}
      BY <2>2, PipelineFacts DEF Alarming, o
    <3>2. alarms'[Opener] = alarms[Opener]
      BY <1>3, <1>4, <2>2, <3>1
    <3>3. Finishing(Opener)
      BY <1>4, <2>2 DEF Finishing
    <3> QED
      BY <1>4, <3>2, <3>3 DEF CaseInv, HeldForReview, RequiresReview
  <2>3. CASE r = Opener /\ at[r] # ReportAt
    <3>1. ~Finishing(Opener)'
      BY <1>3, <1>7, <2>3, PipelineFacts DEF Finishing
    <3>2. o # "reporting" /\ ~Behind(Opener, "reporting")
      BY <1>3, <1>4, <2>3, PipelineFacts DEF Behind, o
    <3>3. ~Emitted(Opener, "reporting")'
      BY <1>1, <1>2, <1>13, <3>2 DEF CaseInv, EmittedOnce
    <3> QED
      BY <3>1, <3>3 DEF HeldForReview
  <2> QED
    BY <2>1, <2>2, <2>3
<1> QED
  BY <1>15, <1>16, <1>17, <1>18, <1>19, <1>20, <1>21, <1>22 DEF CaseInv

\* The handler takes a status: when it is the pause, everything that waited
\* before it has been stored.
LEMMA StatusKeeps ==
  ASSUME TypeOK, CaseInv, NEW r \in Runs, PersistStatus(r)
  PROVE  CaseInv'
<1> DEFINE e == Head(queue[r])
<1> USE DEF run, peers, removal, Live
<1>1. /\ "UNUSED" \notin TaskState /\ Roles \cap TaskState = {} /\ Findings \subseteq Roles
      /\ "INPUT_REQUIRED" \in TaskState /\ "reporting" \in Roles /\ TaskState \subseteq Event
  BY PipelineFacts DEF TaskState, Findings, Event
<1>2. /\ Opener \in Runs /\ Decisions \subseteq Runs /\ Opener \notin Decisions
      /\ \A x \in Runs : x = Opener \/ x \in Decisions
  BY RunsAssumption DEF Runs
<1>3. /\ queue[r] # << >> /\ e \in TaskState
      /\ queue' = [queue EXCEPT ![r] = Tail(@)]
      /\ status' = status \/ (Live /\ status' = e)
      /\ UNCHANGED << settings, artifacts, pc, at, failures, alarms, audit >>
  BY DEF PersistStatus
<1>4. /\ \A x \in Runs : x # r => queue'[x] = queue[x]
      /\ \A x : Has(queue[r], x) <=> x = e \/ Has(queue'[r], x)
      /\ \A x : Once(queue[r], x) => Once(queue'[r], x) /\ ~(e = x /\ Has(queue'[r], x))
      /\ \A x : Last(queue[r], x) => Last(queue'[r], x) /\ (e = x => queue'[r] = << >>)
  BY <1>3, TakeFacts
<1> HIDE DEF e
<1>5. /\ \A x \in Runs : \A s : Queued(x, s)' => Queued(x, s)
      /\ \A x \in Runs, role \in Roles : Queued(x, role)' <=> Queued(x, role)
      /\ Queued(r, e)
      /\ \A x, role : Filed(x, role)' <=> Filed(x, role)
  BY <1>1, <1>3, <1>4 DEF Queued, Filed
<1>6. /\ \A x \in Runs, role \in Roles : Emitted(x, role)' <=> Emitted(x, role)
      /\ \A x, role : Behind(x, role)' <=> Behind(x, role)
      /\ Decided' = Decided /\ (Live' <=> Live)
  BY <1>3, <1>5 DEF Emitted, Behind, Decided
<1>7. EmittedOnce'
  <2>1. \A x \in Runs, role \in Roles : Once(queue'[x], role)
    BY <1>4 DEF CaseInv, EmittedOnce
  <2> QED
    BY <1>3, <1>5, <1>6, <2>1 DEF CaseInv, EmittedOnce
<1>8. NothingLeftOut'
  BY <1>2, <1>3, <1>6, PipelineFacts DEF CaseInv, NothingLeftOut
<1>9. FailedIsMissing'
  BY <1>2, <1>3, <1>6 DEF CaseInv, FailedIsMissing, TypeOK
<1>10. PauseComesLast'
  BY <1>1, <1>2, <1>3, <1>4, <1>5, <1>6 DEF CaseInv, PauseComesLast
<1>11. CompletionComesLast'
  BY <1>1, <1>2, <1>3, <1>4, <1>5, <1>6 DEF CaseInv, CompletionComesLast
<1>12. Paused'
  <2>1. CASE status = "INPUT_REQUIRED"
    BY <1>2, <1>3, <1>4, <1>5, <2>1 DEF CaseInv, Paused, Assessed
  <2>2. CASE status # "INPUT_REQUIRED" /\ status' = "INPUT_REQUIRED"
    <3>1. Live /\ e = "INPUT_REQUIRED"
      BY <1>3, <2>2
    <3>2. r = Opener
      BY <1>1, <1>2, <1>3, <1>5, <3>1 DEF CaseInv, StatesInUse
    <3>3. /\ queue'[Opener] = << >> /\ pc[Opener] \in { "requesting", "over" }
          /\ \A role \in Findings : Emitted(Opener, role)
      BY <1>4, <1>5, <3>1, <3>2 DEF CaseInv, PauseComesLast
    <3>4. \A role \in Findings : Filed(Opener, role)'
      BY <1>1, <1>2, <1>6, <3>3, EmptyHas DEF Emitted, Queued
    <3> QED
      BY <1>3, <3>3, <3>4 DEF Paused, Assessed
  <2>3. CASE status' # "INPUT_REQUIRED"
    BY <2>3 DEF Paused
  <2> QED
    BY <2>1, <2>2, <2>3
<1>13. StatesInUse'
  <2>1. e # "AUTH_REQUIRED"
    BY <1>1, <1>2, <1>3, <1>5 DEF CaseInv, StatesInUse
  <2> QED
    BY <1>2, <1>3, <1>5, <2>1 DEF CaseInv, StatesInUse
<1>14. OpenerShape'
  BY <1>1, <1>2, <1>3, <1>4, <1>6 DEF CaseInv, OpenerShape
<1>15. DecisionShape'
  <2>1. \A d \in Decisions : queue'[d] # << >> => queue[d] # << >>
    BY <1>2, <1>3, <1>4
  <2> QED
    BY <1>1, <1>2, <1>3, <1>5, <1>6, <2>1 DEF CaseInv, DecisionShape, Assessed
<1>16. HeldForReview'
  BY <1>1, <1>2, <1>3, <1>6 DEF CaseInv, HeldForReview, Finishing, RequiresReview
<1> QED
  BY <1>7, <1>8, <1>9, <1>10, <1>11, <1>12, <1>13, <1>14, <1>15, <1>16 DEF CaseInv

\* The handler stores an artifact: it was queued once, and is stored once.
LEMMA ArtifactKeeps ==
  ASSUME TypeOK, CaseInv, NEW r \in Runs, PersistArtifact(r)
  PROVE  CaseInv'
<1> DEFINE o == Head(queue[r])
           New == Append(artifacts, Entry(r, o))
<1> USE DEF run, peers, removal
<1>1. /\ "UNUSED" \notin TaskState /\ Roles \cap TaskState = {} /\ Findings \subseteq Roles
      /\ { "WORKING", "COMPLETED", "FAILED", "INPUT_REQUIRED" } \subseteq TaskState
      /\ "reporting" \in Roles /\ Roles \subseteq Event
  BY PipelineFacts DEF TaskState, Findings, Event
<1>2. /\ Opener \in Runs /\ Decisions \subseteq Runs /\ Opener \notin Decisions
      /\ \A x \in Runs : x = Opener \/ x \in Decisions
  BY RunsAssumption DEF Runs
<1>3. CASE ~Live
  <2>1. Busy(r) /\ Abandon(r) /\ UNCHANGED << settings, status, artifacts, at, failures, alarms, audit >>
    BY <1>3 DEF PersistArtifact, Busy
  <2>2. Decided' = Decided
    BY <2>1 DEF Decided
  <2> QED
    BY <2>1, <2>2, Abandons
<1>4. CASE Live
  <2>1. /\ queue[r] # << >> /\ o \in Roles
        /\ queue' = [queue EXCEPT ![r] = Tail(@)]
        /\ artifacts' = New
        /\ UNCHANGED << settings, status, pc, at, failures, alarms, audit >>
    BY <1>4 DEF PersistArtifact, Entry
  <2>2. /\ \A x \in Runs : x # r => queue'[x] = queue[x]
        /\ \A x : Has(queue[r], x) <=> x = o \/ Has(queue'[r], x)
        /\ \A x : Once(queue[r], x) => Once(queue'[r], x) /\ ~(o = x /\ Has(queue'[r], x))
        /\ \A x : Last(queue[r], x) => Last(queue'[r], x) /\ (o = x => queue'[r] = << >>)
    BY <2>1, TakeFacts
  <2>3. \A x : /\ Has(artifacts', x) <=> Has(artifacts, x) \/ x = Entry(r, o)
               /\ Once(artifacts, x) /\ ~(Has(artifacts, x) /\ x = Entry(r, o)) => Once(artifacts', x)
    <3> DEFINE S == [run : Runs, of : Roles]
               entry == Entry(r, o)
    <3>1. artifacts \in Seq(S) /\ entry \in S /\ artifacts' = Append(artifacts, entry)
      BY <2>1 DEF TypeOK, Entry
    <3> HIDE DEF S, entry
    <3>2. \A x : /\ Has(Append(artifacts, entry), x) <=> Has(artifacts, x) \/ x = entry
                 /\ Once(artifacts, x) /\ ~(Has(artifacts, x) /\ x = entry)
                      => Once(Append(artifacts, entry), x)
      BY <3>1, AppendHas
    <3> QED
      BY <3>1, <3>2 DEF entry
  <2> HIDE DEF o, New
  <2>4. Queued(r, o) /\ ~Filed(r, o) /\ ~Has(queue'[r], o)
    <3>1. Has(queue[r], o)
      BY <2>2
    <3>2. ~Filed(r, o) /\ Once(queue[r], o)
      BY <2>1, <3>1 DEF CaseInv, EmittedOnce, Queued
    <3> QED
      BY <2>2, <3>1, <3>2 DEF Queued
  <2>5. /\ \A x \in Runs : \A s : Queued(x, s)' <=> Queued(x, s) /\ ~(x = r /\ s = o)
        /\ \A x, role : Filed(x, role)' <=> Filed(x, role) \/ (x = r /\ role = o)
    BY <2>2, <2>3, <2>4, EntryFacts DEF Queued, Filed
  <2>6. /\ \A x \in Runs : \A role : Emitted(x, role)' <=> Emitted(x, role)
        /\ \A x, role : Behind(x, role)' <=> Behind(x, role)
        /\ Decided' = Decided /\ (Live' <=> Live)
    BY <2>1, <2>4, <2>5 DEF Emitted, Behind, Decided, Live
  <2>7. EmittedOnce'
    <3>1. \A x \in Runs, role \in Roles : Once(queue'[x], role)
      BY <2>2 DEF CaseInv, EmittedOnce
    <3>2. \A x \in Runs, role \in Roles : Once(artifacts', Entry(x, role))
      BY <2>3, <2>4, EntryFacts DEF CaseInv, EmittedOnce, Filed
    <3> QED
      BY <2>5, <2>6, <3>1, <3>2 DEF CaseInv, EmittedOnce
  <2>8. NothingLeftOut' /\ FailedIsMissing'
    BY <1>2, <2>1, <2>6 DEF CaseInv, NothingLeftOut, FailedIsMissing
  <2>9. PauseComesLast' /\ CompletionComesLast'
    BY <1>1, <1>2, <2>1, <2>2, <2>5, <2>6 DEF CaseInv, PauseComesLast, CompletionComesLast
  <2>10. Paused'
    BY <1>2, <2>1, <2>2, <2>5 DEF CaseInv, Paused, Assessed
  <2>11. StatesInUse'
    BY <1>2, <2>1, <2>5 DEF CaseInv, StatesInUse
  <2>12. OpenerShape'
    BY <1>2, <1>4, <2>1, <2>2, <2>6 DEF CaseInv, OpenerShape
  <2>13. DecisionShape'
    <3>1. \A d \in Decisions : queue'[d] # << >> => queue[d] # << >>
      BY <1>2, <2>1, <2>2
    <3>2. r \in Decisions => o = "reporting" /\ r \in Decided
      BY <1>1, <2>1, <2>4 DEF CaseInv, StatesInUse, DecisionShape
    <3> QED
      BY <1>2, <2>1, <2>5, <2>6, <3>1, <3>2 DEF CaseInv, DecisionShape, Assessed
  <2>14. HeldForReview'
    BY <1>1, <1>2, <2>1, <2>6 DEF CaseInv, HeldForReview, Finishing, RequiresReview
  <2> QED
    BY <2>7, <2>8, <2>9, <2>10, <2>11, <2>12, <2>13, <2>14 DEF CaseInv
<1> QED
  BY <1>3, <1>4

\* A deletion takes the task and its artifacts away and leaves the runs be.
LEMMA SweepKeeps == TypeOK /\ CaseInv /\ Sweep => CaseInv'
<1> SUFFICES ASSUME TypeOK, CaseInv, Sweep PROVE CaseInv'
  OBVIOUS
<1> USE DEF run
<1>1. Decided' = Decided /\ UNCHANGED << settings, pc, at, failures, alarms, queue >>
  BY DEF Sweep, Decided
<1>2. CASE sweep # 1
  BY <1>1, <1>2, CoreUnchanged DEF Sweep, core
<1>3. CASE sweep = 1
  <2>1. /\ artifacts' = << >>
        /\ status' = IF Live THEN "DELETED" ELSE status
    BY <1>3 DEF Sweep
  <2>2. /\ ~Live' /\ status' # "INPUT_REQUIRED" /\ status' # "AUTH_REQUIRED"
        /\ status' = "UNUSED" <=> status = "UNUSED"
    BY <2>1 DEF Live, TaskState, TypeOK, Absent
  <2>3. /\ \A x, role : ~Filed(x, role)'
        /\ \A x, s : Queued(x, s)' <=> Queued(x, s)
        /\ \A x, role : Emitted(x, role)' => Emitted(x, role)
        /\ \A x, role : Behind(x, role)' <=> Behind(x, role)
        /\ \A x : Once(artifacts', x)
    BY <1>1, <2>1, EmptyHas DEF Filed, Queued, Emitted, Behind
  <2>4. Opener \in Runs /\ Decisions \subseteq Runs /\ "reporting" \in Roles /\ Findings \subseteq Roles
    BY PipelineFacts DEF Runs, Findings
  <2>5. EmittedOnce'
    BY <1>1, <2>3 DEF CaseInv, EmittedOnce
  <2>6. NothingLeftOut' /\ Paused'
    BY <2>2 DEF NothingLeftOut, Paused
  <2>7. FailedIsMissing' /\ PauseComesLast' /\ CompletionComesLast'
    BY <1>1, <2>2, <2>3 DEF CaseInv, FailedIsMissing, PauseComesLast, CompletionComesLast
  <2>8. StatesInUse' /\ OpenerShape'
    BY <1>1, <2>1, <2>2, <2>3 DEF CaseInv, StatesInUse, OpenerShape
  <2>9. DecisionShape' /\ HeldForReview'
    BY <1>1, <2>2, <2>3 DEF CaseInv, DecisionShape, HeldForReview, Finishing, RequiresReview
  <2> QED
    BY <2>5, <2>6, <2>7, <2>8, <2>9 DEF CaseInv
<1> QED
  BY <1>2, <1>3

LEMMA CaseStep == TypeOK /\ CaseInv /\ [Next]_vars => CaseInv'
<1> SUFFICES ASSUME TypeOK, CaseInv, [Next]_vars PROVE CaseInv'
  OBVIOUS
<1> USE DEF run, peers, removal, Go, Live
<1>1. EmittedOnce
  BY DEF CaseInv
<1>2. /\ { "WORKING", "FAILED", "REJECTED", "INPUT_REQUIRED", "COMPLETED", "CANCELED",
          "SUBMITTED" } \subseteq TaskState
      /\ TaskState \subseteq Event /\ Roles \subseteq Event /\ Roles \cap TaskState = {}
      /\ Findings \subseteq Roles /\ "reporting" \in Roles \ Findings /\ "UNUSED" \notin TaskState
      /\ \A k \in 1 .. ReportAt : Pipeline[k] \in Roles
  BY PipelineFacts DEF Event, TaskState, Findings
<1>3. /\ Opener \in Runs /\ Decisions \subseteq Runs /\ Opener \notin Decisions
      /\ \A r \in Runs : r = Opener \/ r \in Decisions
  BY RunsAssumption DEF Runs
<1>4. /\ pc \in [Runs -> Step] /\ at \in [Runs -> 1 .. ReportAt]
      /\ failures \in [Runs -> SUBSET Roles] /\ alarms \in [Runs -> SUBSET Alarming]
  BY PipelineFacts DEF TypeOK
<1> USE <1>1, <1>2, <1>3, <1>4
<1>5. CASE Open
  <2>1. \A x \in Runs : Forward(x)
    BY <1>5 DEF Forward, Open
  <2>2. SaysNoMore
    BY <1>5, <2>1, SaysNothing DEF Open
  <2>3. Decided' = Decided
    BY <1>5 DEF Decided, Open
  <2>4. NothingLeftOut' /\ FailedIsMissing'
    BY <1>5, <2>1, <2>2, <2>3 DEF CaseInv, Silent, SaysNoMore, Open, NothingLeftOut,
       FailedIsMissing
  <2>5. PauseComesLast' /\ CompletionComesLast' /\ Paused'
    BY <1>5, <2>1, <2>2, <2>3 DEF CaseInv, Silent, SaysNoMore, Open, PauseComesLast,
       CompletionComesLast, Paused, Assessed
  <2>6. StatesInUse' /\ OpenerShape'
    BY <1>5, <2>1, <2>2, <2>3 DEF CaseInv, Silent, SaysNoMore, Open, StatesInUse, OpenerShape
  <2>7. DecisionShape'
    BY <1>5, <2>1, <2>2, <2>3 DEF CaseInv, Silent, SaysNoMore, Open, DecisionShape, Assessed,
       OpenerShape
  <2>8. HeldForReview'
    BY <1>5, <2>1, <2>2, <2>3 DEF CaseInv, Silent, SaysNoMore, Open, HeldForReview, Finishing,
       RequiresReview, OpenerShape
  <2> QED
    BY <2>2, <2>3, <2>4, <2>5, <2>6, <2>7, <2>8 DEF CaseInv, SaysNoMore
<1>6. CASE Plan
  <2>1. \A x \in Runs : Forward(x)
    BY <1>6 DEF Forward, Plan
  <2>2. Says(Opener, "WORKING")
    BY <1>6, <2>1, SaysStatus DEF Plan
  <2>3. Decided' = Decided
    BY <1>6 DEF Decided, Plan
  <2>4. NothingLeftOut' /\ FailedIsMissing'
    BY <1>6, <2>1, <2>2, <2>3 DEF CaseInv, Silent, Says, Plan, NothingLeftOut, FailedIsMissing
  <2>5. PauseComesLast' /\ CompletionComesLast' /\ Paused'
    BY <1>6, <2>1, <2>2, <2>3 DEF CaseInv, Silent, Says, Plan, PauseComesLast,
       CompletionComesLast, Paused, Assessed
  <2>6. StatesInUse' /\ OpenerShape'
    BY <1>6, <2>1, <2>2, <2>3 DEF CaseInv, Silent, Says, Plan, StatesInUse, OpenerShape
  <2>7. DecisionShape'
    BY <1>6, <2>1, <2>2, <2>3 DEF CaseInv, Silent, Says, Plan, DecisionShape, Assessed
  <2>8. HeldForReview'
    BY <1>6, <2>1, <2>2, <2>3 DEF CaseInv, Silent, Says, Plan, HeldForReview, Finishing,
       RequiresReview
  <2> QED
    BY <2>2, <2>3, <2>4, <2>5, <2>6, <2>7, <2>8 DEF CaseInv, Says
<1>7. CASE RecordStart
  <2>1. \A x \in Runs : Forward(x)
    BY <1>7 DEF Forward, RecordStart, Record
  <2>2. SaysNoMore
    BY <1>7, <2>1, SaysNothing DEF RecordStart, Record
  <2>3. Decided' = Decided
    BY <1>7 DEF Decided, RecordStart, Record
  <2>4. NothingLeftOut' /\ FailedIsMissing'
    BY <1>7, <2>1, <2>2, <2>3 DEF CaseInv, Silent, SaysNoMore, RecordStart, Record,
       NothingLeftOut, FailedIsMissing, OpenerShape
  <2>5. PauseComesLast' /\ CompletionComesLast' /\ Paused'
    BY <1>7, <2>1, <2>2, <2>3 DEF CaseInv, Silent, SaysNoMore, RecordStart, Record,
       PauseComesLast, CompletionComesLast, Paused, Assessed
  <2>6. StatesInUse' /\ OpenerShape'
    BY <1>7, <2>1, <2>2, <2>3 DEF CaseInv, Silent, SaysNoMore, RecordStart, Record, StatesInUse,
       OpenerShape
  <2>7. DecisionShape'
    BY <1>7, <2>1, <2>2, <2>3 DEF CaseInv, Silent, SaysNoMore, RecordStart, Record,
       DecisionShape, Assessed
  <2>8. HeldForReview'
    BY <1>7, <2>1, <2>2, <2>3, PipelineFacts DEF CaseInv, Silent, SaysNoMore, RecordStart,
       Record, HeldForReview, Finishing, RequiresReview, OpenerShape
  <2> QED
    BY <2>2, <2>3, <2>4, <2>5, <2>6, <2>7, <2>8 DEF CaseInv, SaysNoMore
<1>8. CASE RefuseDepth
  <2>1. \A x \in Runs : Forward(x)
    BY <1>8 DEF Forward, RefuseDepth
  <2>2. Says(Opener, "REJECTED")
    BY <1>8, <2>1, SaysStatus DEF RefuseDepth
  <2>3. Decided' = Decided
    BY <1>8 DEF Decided, RefuseDepth
  <2>4. NothingLeftOut' /\ FailedIsMissing'
    BY <1>8, <2>1, <2>2, <2>3 DEF CaseInv, Silent, Says, RefuseDepth, NothingLeftOut,
       FailedIsMissing
  <2>5. PauseComesLast' /\ CompletionComesLast' /\ Paused'
    BY <1>8, <2>1, <2>2, <2>3 DEF CaseInv, Silent, Says, RefuseDepth, PauseComesLast,
       CompletionComesLast, Paused, Assessed
  <2>6. StatesInUse' /\ OpenerShape'
    BY <1>8, <2>1, <2>2, <2>3 DEF CaseInv, Silent, Says, RefuseDepth, StatesInUse, OpenerShape
  <2>7. DecisionShape'
    BY <1>8, <2>1, <2>2, <2>3 DEF CaseInv, Silent, Says, RefuseDepth, DecisionShape, Assessed
  <2>8. HeldForReview'
    BY <1>8, <2>1, <2>2, <2>3 DEF CaseInv, Silent, Says, RefuseDepth, HeldForReview, Finishing,
       RequiresReview
  <2> QED
    BY <2>2, <2>3, <2>4, <2>5, <2>6, <2>7, <2>8 DEF CaseInv, Says
<1>9. CASE GiveUp
  <2>1. \A x \in Runs : Forward(x)
    BY <1>9 DEF Forward, GiveUp
  <2>2. Says(Opener, "FAILED")
    BY <1>9, <2>1, SaysStatus DEF GiveUp
  <2>3. Decided' = Decided
    BY <1>9 DEF Decided, GiveUp
  <2>4. NothingLeftOut' /\ FailedIsMissing'
    BY <1>9, <2>1, <2>2, <2>3 DEF CaseInv, Silent, Says, GiveUp, NothingLeftOut, FailedIsMissing
  <2>5. PauseComesLast' /\ CompletionComesLast' /\ Paused'
    BY <1>9, <2>1, <2>2, <2>3 DEF CaseInv, Silent, Says, GiveUp, PauseComesLast,
       CompletionComesLast, Paused, Assessed
  <2>6. StatesInUse' /\ OpenerShape'
    BY <1>9, <2>1, <2>2, <2>3 DEF CaseInv, Silent, Says, GiveUp, StatesInUse, OpenerShape
  <2>7. DecisionShape'
    BY <1>9, <2>1, <2>2, <2>3 DEF CaseInv, Silent, Says, GiveUp, DecisionShape, Assessed
  <2>8. HeldForReview'
    BY <1>9, <2>1, <2>2, <2>3 DEF CaseInv, Silent, Says, GiveUp, HeldForReview, Finishing,
       RequiresReview
  <2> QED
    BY <2>2, <2>3, <2>4, <2>5, <2>6, <2>7, <2>8 DEF CaseInv, Says
<1>10. CASE RequestReview
  <2>1. \A x \in Runs : Forward(x)
    BY <1>10 DEF Forward, RequestReview, Record
  <2>2. SaysNoMore
    BY <1>10, <2>1, SaysNothing DEF RequestReview, Record
  <2>3. Decided' = Decided
    BY <1>10 DEF Decided, RequestReview, Record
  <2>4. NothingLeftOut' /\ FailedIsMissing'
    BY <1>10, <2>1, <2>2, <2>3 DEF CaseInv, Silent, SaysNoMore, RequestReview, Record,
       NothingLeftOut, FailedIsMissing
  <2>5. PauseComesLast' /\ CompletionComesLast' /\ Paused'
    BY <1>10, <2>1, <2>2, <2>3 DEF CaseInv, Silent, SaysNoMore, RequestReview, Record,
       PauseComesLast, CompletionComesLast, Paused, Assessed
  <2>6. StatesInUse' /\ OpenerShape'
    BY <1>10, <2>1, <2>2, <2>3 DEF CaseInv, Silent, SaysNoMore, RequestReview, Record,
       StatesInUse, OpenerShape
  <2>7. DecisionShape'
    BY <1>10, <2>1, <2>2, <2>3 DEF CaseInv, Silent, SaysNoMore, RequestReview, Record,
       DecisionShape, Assessed
  <2>8. HeldForReview'
    BY <1>10, <2>1, <2>2, <2>3 DEF CaseInv, Silent, SaysNoMore, RequestReview, Record,
       HeldForReview, Finishing, RequiresReview
  <2> QED
    BY <2>2, <2>3, <2>4, <2>5, <2>6, <2>7, <2>8 DEF CaseInv, SaysNoMore
<1>11. ASSUME NEW r \in Runs, Delegate(r) PROVE CaseInv'
  <2>1. \A x \in Runs : Forward(x)
    BY <1>11 DEF Forward, Delegate
  <2>2. Says(r, "WORKING")
    BY <1>11, <2>1, SaysStatus DEF Delegate
  <2>3. Decided' = Decided
    BY <1>11 DEF Decided, Delegate
  <2>4. NothingLeftOut' /\ FailedIsMissing'
    BY <1>11, <2>1, <2>2, <2>3 DEF CaseInv, Silent, Says, Delegate, NothingLeftOut,
       FailedIsMissing
  <2>5. PauseComesLast' /\ CompletionComesLast' /\ Paused'
    BY <1>11, <2>1, <2>2, <2>3 DEF CaseInv, Silent, Says, Delegate, PauseComesLast,
       CompletionComesLast, Paused, Assessed
  <2>6. StatesInUse' /\ OpenerShape'
    BY <1>11, <2>1, <2>2, <2>3 DEF CaseInv, Silent, Says, Delegate, StatesInUse, OpenerShape
  <2>7. DecisionShape'
    BY <1>11, <2>1, <2>2, <2>3 DEF CaseInv, Silent, Says, Delegate, DecisionShape, Assessed
  <2>8. HeldForReview'
    BY <1>11, <2>1, <2>2, <2>3 DEF CaseInv, Silent, Says, Delegate, HeldForReview, Finishing,
       RequiresReview, OpenerShape
  <2> QED
    BY <2>2, <2>3, <2>4, <2>5, <2>6, <2>7, <2>8 DEF CaseInv, Says
<1>12. ASSUME NEW r \in Runs, PeerFails(r) PROVE CaseInv'
  <2>1. \A x \in Runs : Forward(x)
    BY <1>12 DEF Forward, PeerFails, Advance
  <2>2. Says(r, "WORKING")
    BY <1>12, <2>1, SaysStatus DEF PeerFails, Advance
  <2>3. Decided' = Decided
    BY <1>12 DEF Decided, PeerFails, Advance
  <2>4. Pipeline[at[r]] \in Roles /\ ~Emitted(r, Pipeline[at[r]])
    BY <1>12, PipelineFacts, SMTT(60) DEF CaseInv, EmittedOnce, Behind, PeerFails
  <2>5. \A role : role = Pipeline[at[r]] => Behind(r, role)'
    BY <1>12, PipelineFacts DEF Behind, PeerFails, Advance, CaseInv, OpenerShape
  <2>6. r # Opener => failures'[Opener] = failures[Opener]
    BY <1>12 DEF PeerFails
  <2>7. NothingLeftOut' /\ FailedIsMissing'
    BY <1>12, <2>1, <2>2, <2>3, <2>4, <2>5, <2>6, PipelineFacts DEF CaseInv, Silent, Says,
       PeerFails, Advance, NothingLeftOut, FailedIsMissing, OpenerShape
  <2>8. PauseComesLast' /\ CompletionComesLast' /\ Paused'
    BY <1>12, <2>1, <2>2, <2>3, <2>4, <2>5, <2>6 DEF CaseInv, Silent, Says, PeerFails, Advance,
       PauseComesLast, CompletionComesLast, Paused, Assessed
  <2>9. StatesInUse' /\ OpenerShape'
    BY <1>12, <2>1, <2>2, <2>3, <2>4, <2>5, <2>6, PipelineFacts DEF CaseInv, Silent, Says,
       PeerFails, Advance, StatesInUse, OpenerShape
  <2>10. DecisionShape'
    BY <1>12, <2>1, <2>2, <2>3, <2>4, <2>5, <2>6 DEF CaseInv, Silent, Says, PeerFails, Advance,
       DecisionShape, Assessed
  <2>11. HeldForReview'
    BY <1>12, <2>1, <2>2, <2>3, <2>4, <2>5, <2>6, PipelineFacts DEF CaseInv, Silent, Says,
       PeerFails, Advance, HeldForReview, Finishing, RequiresReview
  <2> QED
    BY <2>2, <2>3, <2>4, <2>5, <2>6, <2>7, <2>8, <2>9, <2>10, <2>11 DEF CaseInv, Says
<1>13. ASSUME NEW r \in Runs, CallRaises(r) PROVE CaseInv'
  <2>1. \A x \in Runs : Forward(x)
    BY <1>13 DEF Forward, CallRaises
  <2>2. Says(r, "FAILED")
    BY <1>13, <2>1, SaysStatus DEF CallRaises
  <2>3. Decided' = Decided
    BY <1>13 DEF Decided, CallRaises
  <2>4. NothingLeftOut' /\ FailedIsMissing'
    BY <1>13, <2>1, <2>2, <2>3 DEF CaseInv, Silent, Says, CallRaises, NothingLeftOut,
       FailedIsMissing
  <2>5. PauseComesLast' /\ CompletionComesLast' /\ Paused'
    BY <1>13, <2>1, <2>2, <2>3 DEF CaseInv, Silent, Says, CallRaises, PauseComesLast,
       CompletionComesLast, Paused, Assessed
  <2>6. StatesInUse' /\ OpenerShape'
    BY <1>13, <2>1, <2>2, <2>3 DEF CaseInv, Silent, Says, CallRaises, StatesInUse, OpenerShape
  <2>7. DecisionShape'
    BY <1>13, <2>1, <2>2, <2>3 DEF CaseInv, Silent, Says, CallRaises, DecisionShape, Assessed
  <2>8. HeldForReview'
    BY <1>13, <2>1, <2>2, <2>3 DEF CaseInv, Silent, Says, CallRaises, HeldForReview, Finishing,
       RequiresReview
  <2> QED
    BY <2>2, <2>3, <2>4, <2>5, <2>6, <2>7, <2>8 DEF CaseInv, Says
<1>14. ASSUME NEW r \in Runs, Conclude(r) PROVE CaseInv'
  <2>1. \A x \in Runs : Forward(x)
    BY <1>14 DEF Forward, Conclude, Degraded
  <2>2. Says(r, IF Degraded(r) THEN "FAILED" ELSE "COMPLETED")
    BY <1>14, <2>1, SaysStatus DEF Conclude, Degraded
  <2>3. Decided' = Decided
    BY <1>14 DEF Decided, Conclude, Degraded
  <2>4. r = Opener /\ failures[r] = {} /\ Live => \A role \in Roles : Emitted(Opener, role)
    BY <1>14, PipelineFacts DEF CaseInv, NothingLeftOut, Conclude
  <2>5. ~Queued(Opener, "COMPLETED") \/ r # Opener
    BY <1>14 DEF CaseInv, CompletionComesLast, Conclude
  <2>6. NothingLeftOut' /\ FailedIsMissing'
    BY <1>14, <2>1, <2>2, <2>3, <2>4, <2>5 DEF CaseInv, Silent, Says, Conclude, Degraded,
       NothingLeftOut, FailedIsMissing
  <2>7. PauseComesLast' /\ CompletionComesLast' /\ Paused'
    BY <1>14, <2>1, <2>2, <2>3, <2>4, <2>5 DEF CaseInv, Silent, Says, Conclude, Degraded,
       PauseComesLast, CompletionComesLast, Paused, Assessed
  <2>8. StatesInUse' /\ OpenerShape'
    BY <1>14, <2>1, <2>2, <2>3, <2>4, <2>5 DEF CaseInv, Silent, Says, Conclude, Degraded,
       StatesInUse, OpenerShape
  <2>9. DecisionShape'
    BY <1>14, <2>1, <2>2, <2>3, <2>4, <2>5 DEF CaseInv, Silent, Says, Conclude, Degraded,
       DecisionShape, Assessed
  <2>10. HeldForReview'
    BY <1>14, <2>1, <2>2, <2>3, <2>4, <2>5 DEF CaseInv, Silent, Says, Conclude, Degraded,
       HeldForReview, Finishing, RequiresReview
  <2> QED
    BY <2>2, <2>3, <2>4, <2>5, <2>6, <2>7, <2>8, <2>9, <2>10 DEF CaseInv, Says
<1>15. ASSUME NEW r \in Runs, RecordVerdict(r) PROVE CaseInv'
  <2>1. \A x \in Runs : Forward(x)
    BY <1>15 DEF Forward, RecordVerdict, Record
  <2>2. SaysNoMore
    BY <1>15, <2>1, SaysNothing DEF RecordVerdict, Record
  <2>3. Decided' = Decided
    BY <1>15 DEF Decided, RecordVerdict, Record
  <2>4. NothingLeftOut' /\ FailedIsMissing'
    BY <1>15, <2>1, <2>2, <2>3 DEF CaseInv, Silent, SaysNoMore, RecordVerdict, Record,
       NothingLeftOut, FailedIsMissing
  <2>5. PauseComesLast' /\ CompletionComesLast' /\ Paused'
    BY <1>15, <2>1, <2>2, <2>3 DEF CaseInv, Silent, SaysNoMore, RecordVerdict, Record,
       PauseComesLast, CompletionComesLast, Paused, Assessed
  <2>6. StatesInUse' /\ OpenerShape'
    BY <1>15, <2>1, <2>2, <2>3 DEF CaseInv, Silent, SaysNoMore, RecordVerdict, Record,
       StatesInUse, OpenerShape
  <2>7. DecisionShape'
    BY <1>15, <2>1, <2>2, <2>3 DEF CaseInv, Silent, SaysNoMore, RecordVerdict, Record,
       DecisionShape, Assessed
  <2>8. HeldForReview'
    BY <1>15, <2>1, <2>2, <2>3 DEF CaseInv, Silent, SaysNoMore, RecordVerdict, Record,
       HeldForReview, Finishing, RequiresReview
  <2> QED
    BY <2>2, <2>3, <2>4, <2>5, <2>6, <2>7, <2>8 DEF CaseInv, SaysNoMore
<1>16. ASSUME NEW d \in Decisions, CheckPaused(d) PROVE CaseInv'
  <2>1. \A x \in Runs : Forward(x)
    BY <1>16 DEF Forward, CheckPaused
  <2>2. SaysNoMore
    BY <1>16, <2>1, SaysNothing DEF CheckPaused
  <2>3. Decided' = Decided
    BY <1>16 DEF Decided, CheckPaused
  <2>4. NothingLeftOut' /\ FailedIsMissing'
    BY <1>16, <2>1, <2>2, <2>3 DEF CaseInv, Silent, SaysNoMore, CheckPaused, NothingLeftOut,
       FailedIsMissing
  <2>5. PauseComesLast' /\ CompletionComesLast' /\ Paused'
    BY <1>16, <2>1, <2>2, <2>3 DEF CaseInv, Silent, SaysNoMore, CheckPaused, PauseComesLast,
       CompletionComesLast, Paused, Assessed
  <2>6. StatesInUse' /\ OpenerShape'
    BY <1>16, <2>1, <2>2, <2>3 DEF CaseInv, Silent, SaysNoMore, CheckPaused, StatesInUse,
       OpenerShape
  <2>7. DecisionShape'
    BY <1>16, <2>1, <2>2, <2>3 DEF CaseInv, Silent, SaysNoMore, CheckPaused, DecisionShape,
       Assessed, Paused
  <2>8. HeldForReview'
    BY <1>16, <2>1, <2>2, <2>3 DEF CaseInv, Silent, SaysNoMore, CheckPaused, HeldForReview,
       Finishing, RequiresReview
  <2> QED
    BY <2>2, <2>3, <2>4, <2>5, <2>6, <2>7, <2>8 DEF CaseInv, SaysNoMore
<1>17. ASSUME NEW d \in Decisions, Continue(d) PROVE CaseInv'
  <2>1. \A x \in Runs : Forward(x)
    BY <1>17 DEF Forward, Continue
  <2>2. SaysNoMore
    BY <1>17, <2>1, SaysNothing DEF Continue
  <2>3. Decided' = Decided
    BY <1>17 DEF Decided, Continue
  <2>4. NothingLeftOut' /\ FailedIsMissing'
    BY <1>17, <2>1, <2>2, <2>3 DEF CaseInv, Silent, SaysNoMore, Continue, NothingLeftOut,
       FailedIsMissing
  <2>5. PauseComesLast' /\ CompletionComesLast' /\ Paused'
    BY <1>17, <2>1, <2>2, <2>3 DEF CaseInv, Silent, SaysNoMore, Continue, PauseComesLast,
       CompletionComesLast, Paused, Assessed
  <2>6. StatesInUse' /\ OpenerShape'
    BY <1>17, <2>1, <2>2, <2>3 DEF CaseInv, Silent, SaysNoMore, Continue, StatesInUse,
       OpenerShape
  <2>7. DecisionShape'
    BY <1>17, <2>1, <2>2, <2>3 DEF CaseInv, Silent, SaysNoMore, Continue, DecisionShape,
       Assessed
  <2>8. HeldForReview'
    BY <1>17, <2>1, <2>2, <2>3 DEF CaseInv, Silent, SaysNoMore, Continue, HeldForReview,
       Finishing, RequiresReview
  <2> QED
    BY <2>2, <2>3, <2>4, <2>5, <2>6, <2>7, <2>8 DEF CaseInv, SaysNoMore
<1>18. ASSUME NEW d \in Decisions, Resume(d) PROVE CaseInv'
  <2>1. \A x \in Runs : Forward(x)
    BY <1>18 DEF Forward, Resume, Record
  <2>2. Says(d, "WORKING")
    BY <1>18, <2>1, SaysStatus DEF Resume, Record
  <2>3. Decided' = Decided \cup { d }
    BY <1>18 DEF Decided, Resume, Record
  <2>4. NothingLeftOut' /\ FailedIsMissing'
    BY <1>18, <2>1, <2>2, <2>3 DEF CaseInv, Silent, Says, Resume, Record, NothingLeftOut,
       FailedIsMissing
  <2>5. PauseComesLast' /\ CompletionComesLast' /\ Paused'
    BY <1>18, <2>1, <2>2, <2>3 DEF CaseInv, Silent, Says, Resume, Record, PauseComesLast,
       CompletionComesLast, Paused, Assessed
  <2>6. StatesInUse' /\ OpenerShape'
    BY <1>18, <2>1, <2>2, <2>3 DEF CaseInv, Silent, Says, Resume, Record, StatesInUse,
       OpenerShape
  <2>7. DecisionShape'
    BY <1>18, <2>1, <2>2, <2>3 DEF CaseInv, Silent, Says, Resume, Record, DecisionShape,
       Assessed
  <2>8. HeldForReview'
    BY <1>18, <2>1, <2>2, <2>3 DEF CaseInv, Silent, Says, Resume, Record, HeldForReview,
       Finishing, RequiresReview
  <2> QED
    BY <2>2, <2>3, <2>4, <2>5, <2>6, <2>7, <2>8 DEF CaseInv, Says
<1>19. CASE Cancel
  <2>1. \A x \in Runs : Forward(x)
    BY <1>19 DEF Forward, Cancel
  <2>2. SaysNoMore
    BY <1>19, <2>1, SaysNothing DEF Cancel
  <2>3. Decided' = Decided
    BY <1>19 DEF Decided, Cancel
  <2>4. NothingLeftOut' /\ FailedIsMissing'
    BY <1>19, <2>1, <2>2, <2>3 DEF CaseInv, Silent, SaysNoMore, Cancel, NothingLeftOut,
       FailedIsMissing
  <2>5. PauseComesLast' /\ CompletionComesLast' /\ Paused'
    BY <1>19, <2>1, <2>2, <2>3 DEF CaseInv, Silent, SaysNoMore, Cancel, PauseComesLast,
       CompletionComesLast, Paused, Assessed
  <2>6. StatesInUse' /\ OpenerShape'
    BY <1>19, <2>1, <2>2, <2>3 DEF CaseInv, Silent, SaysNoMore, Cancel, StatesInUse, OpenerShape
  <2>7. DecisionShape'
    BY <1>19, <2>1, <2>2, <2>3 DEF CaseInv, Silent, SaysNoMore, Cancel, DecisionShape, Assessed
  <2>8. HeldForReview'
    BY <1>19, <2>1, <2>2, <2>3 DEF CaseInv, Silent, SaysNoMore, Cancel, HeldForReview,
       Finishing, RequiresReview
  <2> QED
    BY <2>2, <2>3, <2>4, <2>5, <2>6, <2>7, <2>8 DEF CaseInv, SaysNoMore
<1>20. ASSUME NEW r \in Runs, PeerAnswers(r) PROVE CaseInv'
  BY <1>20, AnswerKeeps
<1>21. ASSUME NEW r \in Runs, PersistStatus(r) PROVE CaseInv'
  BY <1>21, StatusKeeps
<1>22. ASSUME NEW r \in Runs, PersistArtifact(r) PROVE CaseInv'
  BY <1>22, ArtifactKeeps
<1>23. CASE Gate
  BY <1>23, GateKeeps
<1>24. CASE Sweep
  BY <1>24, SweepKeeps
<1>25. ASSUME NEW r \in Runs, TimeOut(r) PROVE CaseInv'
  <2>1. /\ Busy(r) /\ Abandon(r)
        /\ UNCHANGED << settings, artifacts, at, failures, alarms, Decided >>
        /\ status' = status \/ (Live /\ status' = "FAILED")
    BY <1>25 DEF TimeOut, Decided
  <2> QED
    BY <2>1, Abandons
<1>26. CASE Disconnect
  <2>1. /\ Busy(Opener) /\ Abandon(Opener)
        /\ UNCHANGED << settings, status, artifacts, at, failures, alarms, Decided >>
    BY <1>26 DEF Disconnect, Decided
  <2> QED
    BY <2>1, Abandons
<1>27. ASSUME NEW r \in Runs, Resend(r) PROVE CaseInv'
  BY <1>27, CoreUnchanged DEF Resend, core, Decided
<1>28. ASSUME NEW r \in Runs, NEW role \in Roles, PeerCreates(r, role) PROVE CaseInv'
  BY <1>28, CoreUnchanged DEF PeerCreates, core, Decided
<1>29. CASE BeginDelete
  BY <1>29, CoreUnchanged DEF BeginDelete, core, Decided
<1>30. CASE EndDelete
  BY <1>30, CoreUnchanged DEF EndDelete, Record, core, Decided
<1>31. CASE UNCHANGED vars
  BY <1>31, CoreUnchanged DEF vars, core, Decided
<1> QED
  BY <1>5, <1>6, <1>7, <1>8, <1>9, <1>10, <1>11, <1>12, <1>13, <1>14, <1>15, <1>16, <1>17,
     <1>18, <1>19, <1>20, <1>21, <1>22, <1>23, <1>24, <1>25, <1>26, <1>27, <1>28, <1>29, <1>30,
     <1>31 DEF Next, OpenerStep, RunStep, DecisionStep, DeleteStep

LEMMA CaseInit == Init => CaseInv
<1> SUFFICES ASSUME Init PROVE CaseInv
  OBVIOUS
<1>1. /\ Opener \in Runs /\ Decisions \subseteq Runs
      /\ "UNUSED" \notin TaskState
  BY DEF Runs, TaskState
<1>2. /\ \A x \in Runs : /\ queue[x] = << >> /\ pc[x] = "idle" /\ at[x] = 1
                          /\ failures[x] = {} /\ alarms[x] = {}
      /\ artifacts = << >> /\ status = "UNUSED" /\ Decided = {}
  BY DEF Init, Decided
<1>3. /\ \A x \in Runs : \A e : ~Queued(x, e) /\ Once(queue[x], e)
      /\ \A x, role : ~Filed(x, role)
      /\ \A e : Once(artifacts, e)
  BY <1>2, EmptyHas DEF Queued, Filed
<1>4. EmittedOnce
  BY <1>3 DEF EmittedOnce, Emitted
<1>5. NothingLeftOut /\ FailedIsMissing /\ PauseComesLast /\ CompletionComesLast /\ Paused
  BY <1>1, <1>2, <1>3 DEF NothingLeftOut, FailedIsMissing, PauseComesLast, CompletionComesLast, Paused, Live
<1>6. StatesInUse /\ OpenerShape
  BY <1>1, <1>2, <1>3 DEF StatesInUse, OpenerShape
<1>7. DecisionShape
  BY <1>1, <1>2, <1>3 DEF DecisionShape
<1>8. HeldForReview
  BY <1>1, <1>2 DEF HeldForReview, RequiresReview
<1> QED
  BY <1>4, <1>5, <1>6, <1>7, <1>8 DEF CaseInv

LEMMA ElementOf ==
  ASSUME NEW S, NEW q \in Seq(S)
  PROVE  \A i \in DOMAIN q : q[i] \in S
OBVIOUS

THEOREM CaseInvariant == Spec => [](TypeOK /\ CaseInv)
<1>1. Init => TypeOK /\ CaseInv
  BY TypeInit, CaseInit
<1>2. TypeOK /\ CaseInv /\ [Next]_vars => (TypeOK /\ CaseInv)'
  BY TypeStep, CaseStep
<1> QED
  BY <1>1, <1>2, PTL DEF Spec

-----------------------------------------------------------------------------
(* What the case promises.                                                 *)

\* While the task waits for an analyst, every finding _resume rebuilds the
\* report from is stored.
THEOREM PausesAreComplete == Spec => []PausedIsComplete
<1>1. TypeOK /\ CaseInv => PausedIsComplete
  <2> SUFFICES ASSUME CaseInv, status = "INPUT_REQUIRED", NEW role \in Findings PROVE Stored(role)
    BY DEF PausedIsComplete
  <2>1. Has(artifacts, Entry(Opener, role))
    BY DEF CaseInv, Paused, Assessed, Filed
  <2> QED
    BY <2>1 DEF Has, Entry, Stored
<1> QED
  BY <1>1, CaseInvariant, PTL

\* Each decision files at most one report and nothing else, and was recorded
\* in the audit log before.
THEOREM ReportsHaveAuthors == Spec => []ReportsAreAttributed
<1>1. TypeOK /\ CaseInv => ReportsAreAttributed
  <2> SUFFICES ASSUME TypeOK, CaseInv, NEW i \in DOMAIN artifacts, artifacts[i].run \in Decisions
               PROVE  /\ artifacts[i].of = "reporting"
                      /\ << "human_decision", artifacts[i].run >> \in audit
                      /\ \A j \in DOMAIN artifacts : artifacts[j] = artifacts[i] => j = i
    BY DEF ReportsAreAttributed
  <2> DEFINE d == artifacts[i].run
             o == artifacts[i].of
  <2>1. artifacts[i] \in [run : Runs, of : Roles]
    BY ElementOf DEF TypeOK
  <2>2. artifacts[i] = Entry(d, o) /\ d \in Decisions /\ d \in Runs /\ o \in Roles
    BY <2>1 DEF Entry
  <2> HIDE DEF d, o
  <2>3. Filed(d, o)
    BY <2>2 DEF Filed, Has
  <2>4. o = "reporting" /\ d \in Decided
    BY <2>2, <2>3 DEF CaseInv, DecisionShape
  <2>5. Once(artifacts, Entry(d, o))
    BY <2>2 DEF CaseInv, EmittedOnce
  <2>6. \A j \in DOMAIN artifacts : artifacts[j] = artifacts[i] => j = i
    BY <2>2, <2>5 DEF Once
  <2> QED
    BY <2>4, <2>6 DEF d, o, Decided
<1> QED
  BY <1>1, CaseInvariant, PTL

\* A case that needs a human and has everything stored has a decision on the
\* audit log: its report cannot be the opener's, which would lack a finding,
\* and no stored artifact is of a role the opener counts as failed but a
\* decision's report.
THEOREM ReviewComesFirst == Spec => []ReviewedBeforeFiling
<1>1. TypeOK /\ CaseInv => ReviewedBeforeFiling
  <2> SUFFICES ASSUME TypeOK, CaseInv, settings.review, RequiresReview(Opener),
                      \A role \in Roles : Stored(role)
               PROVE  \E d \in Decisions : << "human_decision", d >> \in audit
    BY DEF ReviewedBeforeFiling
  <2>1. \A role \in Roles : \E x \in Runs : Filed(x, role)
    <3>1. \A i \in DOMAIN artifacts : artifacts[i] \in [run : Runs, of : Roles]
      BY ElementOf DEF TypeOK
    <3>2. ASSUME NEW role \in Roles PROVE \E x \in Runs : Filed(x, role)
      <4>1. PICK i \in DOMAIN artifacts : artifacts[i].of = role
        BY DEF Stored
      <4>2. artifacts[i] = Entry(artifacts[i].run, role) /\ artifacts[i].run \in Runs
        BY <3>1, <4>1 DEF Entry
      <4> QED
        BY <4>2 DEF Filed, Has
    <3> QED
      BY <3>2
  <2>2. /\ "reporting" \in Roles /\ Findings \subseteq Roles /\ "reporting" \notin Findings
        /\ \A x \in Runs : x = Opener \/ x \in Decisions
    BY PipelineFacts DEF Findings, Runs
  <2>3. PICK x \in Runs : Filed(x, "reporting")
    BY <2>1, <2>2
  <2>4. CASE x \in Decisions
    BY <2>2, <2>3, <2>4 DEF CaseInv, DecisionShape, Decided
  <2>5. CASE x = Opener
    <3>1. PICK role \in Findings : role \in failures[Opener]
      BY <2>3, <2>5 DEF CaseInv, HeldForReview, Emitted
    <3>2. ~Filed(Opener, role)
      BY <3>1 DEF CaseInv, FailedIsMissing, Emitted
    <3>3. PICK y \in Runs : Filed(y, role)
      BY <2>1, <2>2
    <3> QED
      BY <2>2, <3>2, <3>3 DEF CaseInv, DecisionShape
  <2> QED
    BY <2>2, <2>4, <2>5
<1> QED
  BY <1>1, CaseInvariant, PTL

LEMMA QuietInit == Init => QuietSweep
BY DEF Init, QuietSweep

\* No run, request or decision is there to undo what the sweep did.
LEMMA QuietStep == TypeOK /\ CaseInv /\ QuietSweep /\ [Next]_vars => QuietSweep'
<1> SUFFICES ASSUME TypeOK, CaseInv, QuietSweep, [Next]_vars, calm' PROVE QuietSweep'
  BY DEF QuietSweep
<1> USE DEF run, peers, removal
<1>1. /\ Opener \in Runs /\ Decisions \subseteq Runs
      /\ "UNUSED" \notin TaskState
  BY DEF Runs, TaskState
<1>2. sweep \in Nat /\ Len(Stores) = ReportAt + 1 /\ ReportAt \in Nat
  BY StoresFacts DEF TypeOK
<1>3. CASE BeginDelete
  <2>1. /\ sweep' = 1 /\ wire = {} /\ \A r \in Runs : ~Busy(r) /\ pc[r] # "checked"
        /\ UNCHANGED << status, pc, queue, wire, ghosts, rows >> /\ status \in TaskState
    BY <1>3 DEF BeginDelete, Live
  <2> QED
    BY <1>1, <1>2, <2>1 DEF QuietSweep, Busy
<1>4. CASE calm /\ Sweep
  <2>1. /\ sweep \in 1 .. Len(Stores) /\ sweep' = sweep + 1
        /\ UNCHANGED << wire, pc, queue >>
    BY <1>4 DEF Sweep
  <2>2. /\ wire' = {} /\ (\A r \in Runs : ~Busy(r) /\ pc[r] # "checked")'
        /\ sweep' > 0
    BY <1>2, <1>4, <2>1 DEF QuietSweep, Busy
  <2>3. status' # "UNUSED" /\ ~Live' /\ ghosts' = {}
    <3>1. CASE sweep = 1
      BY <1>1, <1>4, <3>1 DEF Sweep, QuietSweep, Live, TaskState
    <3>2. CASE sweep # 1
      BY <1>2, <1>4, <2>1, <3>2 DEF Sweep, QuietSweep, Live
    <3> QED
      BY <3>1, <3>2
  <2>4. \A w \in rows', k \in 1 .. ReportAt : k + 1 < sweep' => w[2] # Stores[k + 1]
    <3>1. CASE sweep = 1
      BY <1>2, <2>1, <3>1
    <3>2. CASE sweep # 1
      <4>1. rows' = { w \in rows : w[2] # Stores[sweep] }
        BY <1>4, <3>2 DEF Sweep
      <4>2. ASSUME NEW w \in rows', NEW k \in 1 .. ReportAt, k + 1 < sweep' PROVE w[2] # Stores[k + 1]
        <5>1. k + 1 < sweep \/ k + 1 = sweep
          BY <1>2, <2>1, <4>2
        <5> QED
          BY <1>4, <4>1, <4>2, <5>1 DEF QuietSweep
      <4> QED
        BY <4>2
    <3> QED
      BY <3>1, <3>2
  <2> QED
    BY <2>2, <2>3, <2>4 DEF QuietSweep
<1>5. ASSUME calm, UNCHANGED << status, pc, queue, wire, ghosts, rows >>,
             sweep' = sweep \/ (sweep = Len(Stores) + 1 /\ sweep' = sweep + 1)
      PROVE  QuietSweep'
  <2>1. CASE sweep' = sweep
    BY <1>5, <2>1 DEF QuietSweep, Busy, Live
  <2>2. CASE sweep = Len(Stores) + 1 /\ sweep' = sweep + 1
    <3>1. sweep' > 0 /\ sweep > 1 /\ \A k \in 1 .. ReportAt : k + 1 < sweep
      BY <1>2, <2>2
    <3> QED
      BY <1>5, <3>1 DEF QuietSweep, Busy, Live
  <2> QED
    BY <1>5, <2>1, <2>2
<1>6. CASE calm /\ EndDelete
  BY <1>5, <1>6 DEF EndDelete
<1>7. CASE UNCHANGED vars
  BY <1>5, <1>7 DEF vars
<1>8. CASE calm /\ Cancel
  <2>1. status' # "UNUSED" /\ (Live' <=> Live) /\ UNCHANGED << pc, queue, wire, ghosts, rows, sweep >>
    BY <1>8 DEF Cancel, Live, TaskState
  <2> QED
    BY <1>8, <2>1 DEF QuietSweep, Busy
<1>9. ASSUME calm, OpenerStep PROVE FALSE
  <2>1. pc[Opener] \in { "idle", "over" } /\ queue[Opener] = << >> /\ pc[Opener] # "idle"
    BY <1>1, <1>9 DEF QuietSweep, Busy, CaseInv, OpenerShape
  <2> QED
    BY <1>1, <1>9, <2>1
    DEF QuietSweep, OpenerStep, Open, Plan, RecordStart, RefuseDepth, GiveUp, Gate, RequestReview,
        Disconnect
<1>10. ASSUME calm, NEW r \in Runs, RunStep(r) PROVE FALSE
  <2>1. pc[r] \in { "idle", "over" } /\ queue[r] = << >> /\ ~Busy(r)
    BY <1>10 DEF QuietSweep, Busy
  <2> QED
    BY <1>10, <2>1
    DEF RunStep, Delegate, Resend, PeerAnswers, PeerFails, CallRaises, Conclude, RecordVerdict,
        PersistStatus, PersistArtifact, TimeOut
<1>11. ASSUME calm, NEW r \in Runs, NEW role \in Roles, PeerCreates(r, role) PROVE FALSE
  BY <1>11 DEF QuietSweep, PeerCreates
<1>12. ASSUME NEW d \in Decisions, DecisionStep(d) PROVE FALSE
  <2>1. ~CheckPaused(d)
    BY DEF CheckPaused
  <2>2. calm
    BY <1>12, <2>1 DEF DecisionStep, Continue, Resume
  <2>3. pc[d] \notin { "checked", "resuming" }
    BY <1>1, <2>2 DEF QuietSweep, Busy
  <2> QED
    BY <1>12, <2>1, <2>3 DEF DecisionStep, Continue, Resume
<1>13. calm \/ BeginDelete \/ \E d \in Decisions : DecisionStep(d)
  BY DEF Next, OpenerStep, RunStep, DeleteStep, Open, Plan, RecordStart, RefuseDepth, GiveUp, Gate,
         RequestReview, Disconnect, Delegate, Resend, PeerAnswers, PeerFails, CallRaises, Conclude,
         RecordVerdict, PersistStatus, PersistArtifact, TimeOut, PeerCreates, Cancel, Sweep,
         EndDelete, vars
<1> QED
  BY <1>3, <1>4, <1>6, <1>7, <1>8, <1>9, <1>10, <1>11, <1>12, <1>13 DEF Next, DeleteStep

\* Deleting a case that nobody is working on or deciding removes every task of
\* its context from every agent's store.
THEOREM CalmDeletesAreComplete == Spec => []CalmDeleteIsComplete
<1>1. Init => TypeOK /\ CaseInv /\ QuietSweep
  BY TypeInit, CaseInit, QuietInit
<1>2. TypeOK /\ CaseInv /\ QuietSweep /\ [Next]_vars => (TypeOK /\ CaseInv /\ QuietSweep)'
  BY TypeStep, CaseStep, QuietStep
<1>3. TypeOK /\ QuietSweep => CalmDeleteIsComplete
  <2> SUFFICES ASSUME TypeOK, QuietSweep, Deleted, calm PROVE ~Live /\ ghosts = {} /\ rows = {}
    BY DEF CalmDeleteIsComplete
  <2>1. sweep > 1 /\ \A k \in 1 .. ReportAt : k + 1 < sweep
    BY StoresFacts DEF Deleted
  <2>2. ASSUME NEW w \in rows PROVE FALSE
    <3>1. w \in Runs \X Roles
      BY DEF TypeOK
    <3>2. PICK k \in 1 .. ReportAt : Pipeline[k] = w[2]
      BY <3>1, PipelineFacts
    <3> QED
      BY <2>1, <3>2, StoresFacts DEF QuietSweep
  <2> QED
    BY <2>1, <2>2 DEF QuietSweep
<1> QED
  BY <1>1, <1>2, <1>3, PTL DEF Spec

-----------------------------------------------------------------------------
(* A completion without a decision.                                        *)

NoDecision == \A d \in Decisions : pc[d] = "idle"

\* The strengthening behind CleanCompletion: its own run filed everything.
CompletedByRun ==
  status = "COMPLETED" /\ NoDecision => \A role \in Roles : Filed(Opener, role)

\* A run does not become idle again.
LEMMA NeverIdleAgain ==
  ASSUME TypeOK, [Next]_vars, NEW d \in Runs, pc'[d] = "idle"
  PROVE  pc[d] = "idle"
<1> USE DEF TypeOK, Go, Abandon, run, Runs
<1>1. CASE OpenerStep
  BY <1>1 DEF OpenerStep, Open, Plan, RecordStart, RefuseDepth, GiveUp, Gate, RequestReview,
              Disconnect
<1>2. ASSUME NEW r \in Runs, RunStep(r) PROVE pc[d] = "idle"
  BY <1>2 DEF RunStep, Delegate, Resend, PeerAnswers, PeerFails, CallRaises, Conclude,
              RecordVerdict, PersistStatus, PersistArtifact, TimeOut, Advance
<1>3. ASSUME NEW r \in Runs, NEW role \in Roles, PeerCreates(r, role) PROVE pc[d] = "idle"
  BY <1>3 DEF PeerCreates
<1>4. ASSUME NEW x \in Decisions, DecisionStep(x) PROVE pc[d] = "idle"
  BY <1>4 DEF DecisionStep, CheckPaused, Continue, Resume
<1>5. CASE Cancel \/ DeleteStep \/ UNCHANGED vars
  BY <1>5 DEF Cancel, DeleteStep, BeginDelete, Sweep, EndDelete, vars
<1> QED
  BY <1>1, <1>2, <1>3, <1>4, <1>5 DEF Next

\* What is stored stays stored, short of the deletion of the case.
LEMMA FiledStays ==
  ASSUME TypeOK, [Next]_vars, NEW x, NEW role, Filed(x, role)
  PROVE  Filed(x, role)' \/ status' \notin TaskState
<1> USE DEF run, peers, removal
<1>1. CASE artifacts' = artifacts
  BY <1>1 DEF Filed
<1>2. ASSUME NEW r \in Runs, PersistArtifact(r) PROVE Filed(x, role)'
  <2>1. CASE artifacts' = artifacts
    BY <2>1 DEF Filed
  <2>2. CASE artifacts' = Append(artifacts, [run |-> r, of |-> Head(queue[r])])
    <3> DEFINE S == [run : Runs, of : Roles]
               e == [run |-> r, of |-> Head(queue[r])]
    <3>1. artifacts \in Seq(S) /\ e \in S
      BY <1>2 DEF TypeOK, PersistArtifact
    <3> HIDE DEF S, e
    <3>2. \A y : Has(Append(artifacts, e), y) <=> Has(artifacts, y) \/ y = e
      BY <3>1, AppendHas
    <3> QED
      BY <2>2, <3>2 DEF Filed, e
  <2> QED
    BY <1>2, <2>1, <2>2 DEF PersistArtifact
<1>3. CASE Sweep
  BY <1>1, <1>3 DEF Sweep, Live, TypeOK, Absent, TaskState
<1>4. \/ artifacts' = artifacts \/ Sweep \/ \E r \in Runs : PersistArtifact(r)
  BY DEF Next, OpenerStep, RunStep, DecisionStep, DeleteStep, Open, Plan, RecordStart, RefuseDepth,
         GiveUp, Gate, RequestReview, Disconnect, Delegate, Resend, PeerAnswers, PeerFails,
         CallRaises, Conclude, RecordVerdict, PersistStatus, TimeOut, PeerCreates, CheckPaused,
         Continue, Resume, Cancel, BeginDelete, EndDelete, vars
<1> QED
  BY <1>1, <1>2, <1>3, <1>4

\* A status taken from the opener's queue finds everything before it stored;
\* one taken from a decision's queue is not of an undecided case.
LEMMA CompletedStep ==
  TypeOK /\ CaseInv /\ CompletedByRun /\ [Next]_vars => CompletedByRun'
<1> SUFFICES ASSUME TypeOK, CaseInv, CompletedByRun, [Next]_vars,
                    status' = "COMPLETED", NoDecision', NEW role \in Roles
             PROVE  Filed(Opener, role)'
  BY DEF CompletedByRun, Filed
<1> USE DEF run, peers, removal
<1>1. "COMPLETED" \in TaskState /\ Opener \in Runs /\ \A x \in Runs : x = Opener \/ x \in Decisions
  BY DEF TaskState, Runs
<1>2. NoDecision
  BY NeverIdleAgain DEF NoDecision, Runs
<1>3. CASE status = "COMPLETED"
  BY <1>1, <1>2, <1>3, FiledStays DEF CompletedByRun
<1>4. ASSUME NEW r \in Runs, PersistStatus(r), status # "COMPLETED" PROVE Filed(Opener, role)'
  <2> DEFINE e == Head(queue[r])
  <2>1. /\ queue[r] # << >> /\ e = "COMPLETED" /\ Live
        /\ queue' = [queue EXCEPT ![r] = Tail(@)]
        /\ UNCHANGED << artifacts, pc, audit >>
    BY <1>4 DEF PersistStatus
  <2>2. /\ Has(queue[r], e)
        /\ \A x : Last(queue[r], x) => (e = x => queue'[r] = << >>)
        /\ \A x : Has(queue[r], x) <=> x = e \/ Has(queue'[r], x)
    BY <2>1, TakeFacts
  <2> HIDE DEF e
  <2>3. Queued(r, "COMPLETED")
    BY <2>1, <2>2 DEF Queued
  <2>4. r = Opener
    <3> SUFFICES ASSUME r \in Decisions PROVE FALSE
      BY <1>1
    <3> QED
      BY <1>2, <2>1 DEF CaseInv, DecisionShape, NoDecision
  <2>5. queue'[Opener] = << >> /\ Emitted(Opener, role)
    BY <2>1, <2>2, <2>3, <2>4 DEF CaseInv, CompletionComesLast
  <2>6. ~Queued(Opener, role)
    <3>1. ~Has(queue'[Opener], role)
      BY <2>5, EmptyHas
    <3>2. role # "COMPLETED"
      BY <1>1, PipelineFacts
    <3>3. Has(queue[Opener], role) => role = e \/ Has(queue'[Opener], role)
      BY <2>2, <2>4
    <3>4. e = "COMPLETED"
      BY <2>1
    <3> QED
      BY <3>1, <3>2, <3>3, <3>4 DEF Queued
  <2> QED
    BY <2>1, <2>5, <2>6 DEF Emitted, Filed
<1>5. ASSUME status # "COMPLETED", \A r \in Runs : ~PersistStatus(r) PROVE FALSE
  BY <1>5
  DEF Next, OpenerStep, RunStep, DecisionStep, DeleteStep, Open, Plan, RecordStart, RefuseDepth,
      GiveUp, Gate, RequestReview, Disconnect, Delegate, Resend, PeerAnswers, PeerFails,
      CallRaises, Conclude, RecordVerdict, PersistArtifact, TimeOut, PeerCreates, CheckPaused,
      Continue, Resume, Cancel, BeginDelete, Sweep, EndDelete, vars
<1> QED
  BY <1>3, <1>4, <1>5

\* As many artifacts as steps: the opener filed each of them, once, and nobody
\* else filed any.
LEMMA OnePerRole ==
  ASSUME TypeOK, CaseInv, NoDecision, \A role \in Roles : Filed(Opener, role)
  PROVE  Len(artifacts) = Len(Pipeline)
<1> DEFINE S == [run : Runs, of : Roles]
           n == Len(artifacts)
<1>1. /\ artifacts \in Seq(S) /\ n \in Nat /\ DOMAIN artifacts = 1 .. n
      /\ ReportAt \in Nat /\ Len(Pipeline) = ReportAt
  BY PipelineFacts, PipelineAssumption DEF TypeOK, Pipeline, ReportAt
<1>2. ASSUME NEW i \in 1 .. n PROVE \E role \in Roles : artifacts[i] = Entry(Opener, role)
  <2>1. artifacts[i] \in S
    <3> HIDE DEF S
    <3> QED
      BY <1>1, ElementOf
  <2>2. PICK x \in Runs, role \in Roles : artifacts[i] = Entry(x, role)
    BY <2>1 DEF Entry
  <2>3. Filed(x, role)
    BY <1>1, <2>2 DEF Filed, Has
  <2>4. x \notin Decisions
    BY <2>3 DEF CaseInv, DecisionShape, NoDecision
  <2> QED
    BY <2>2, <2>4 DEF Runs
<1>3. \A k \in 1 .. ReportAt : Pipeline[k] \in Roles
  BY PipelineFacts
<1>4. \A k \in 1 .. ReportAt : \E i \in 1 .. n : artifacts[i] = Entry(Opener, Pipeline[k])
  BY <1>1, <1>3 DEF Filed, Has
<1> DEFINE f == [k \in 1 .. ReportAt |->
                   CHOOSE i \in 1 .. n : artifacts[i] = Entry(Opener, Pipeline[k])]
<1>5. \A k \in 1 .. ReportAt : f[k] \in 1 .. n /\ artifacts[f[k]] = Entry(Opener, Pipeline[k])
  BY <1>4
<1>6. f \in [1 .. ReportAt -> 1 .. n]
  BY <1>5
<1> HIDE DEF f, n, S
<1>7. \A j, k \in 1 .. ReportAt : f[j] = f[k] => j = k
  BY <1>5, EntryFacts, PipelineFacts
<1>8. ASSUME NEW i \in 1 .. n PROVE \E k \in 1 .. ReportAt : f[k] = i
  <2>1. PICK role \in Roles : artifacts[i] = Entry(Opener, role)
    BY <1>2
  <2>2. PICK k \in 1 .. ReportAt : Pipeline[k] = role
    BY PipelineFacts
  <2>3. artifacts[f[k]] = Entry(Opener, role) /\ f[k] \in DOMAIN artifacts /\ i \in DOMAIN artifacts
    BY <1>1, <1>5, <2>2
  <2>4. Once(artifacts, Entry(Opener, role))
    BY DEF CaseInv, EmittedOnce, Runs
  <2> QED
    BY <2>1, <2>3, <2>4 DEF Once
<1>9. ExistsBijection(1 .. ReportAt, 1 .. n)
  <2>1. f \in Bijection(1 .. ReportAt, 1 .. n)
    BY <1>6, <1>7, <1>8, Fun_IsBij
  <2> QED
    BY <2>1, Fun_ExistsBij
<1>10. /\ IsFiniteSet(1 .. ReportAt) /\ Cardinality(1 .. ReportAt) = ReportAt
       /\ Cardinality(1 .. n) = n
  <2>1. 0 \in Nat /\ 1 \in Int /\ ReportAt >= 0 /\ n >= 0
    BY <1>1
  <2> QED
    BY <1>1, <2>1, FS_Interval
<1>11. Cardinality(1 .. n) = Cardinality(1 .. ReportAt)
  BY <1>9, <1>10, FS_Bijection
<1> QED
  BY <1>1, <1>10, <1>11 DEF n

\* A case its own run completed has every finding and the report stored, each
\* exactly once.
THEOREM CompletionsAreClean == Spec => []CleanCompletion
<1>1. Init => CompletedByRun
  BY DEF Init, CompletedByRun
<1>2. TypeOK /\ CaseInv /\ CompletedByRun => CleanCompletion
  <2> SUFFICES ASSUME TypeOK, CaseInv, CompletedByRun, status = "COMPLETED", NoDecision
               PROVE  Len(artifacts) = Len(Pipeline) /\ \A role \in Roles : Stored(role)
    BY DEF CleanCompletion, NoDecision
  <2>1. \A role \in Roles : Filed(Opener, role)
    BY DEF CompletedByRun
  <2> QED
    BY <2>1, OnePerRole DEF Filed, Has, Entry, Stored
<1>3. Init => TypeOK /\ CaseInv
  BY TypeInit, CaseInit
<1>4. TypeOK /\ CaseInv /\ CompletedByRun /\ [Next]_vars => (TypeOK /\ CaseInv /\ CompletedByRun)'
  BY TypeStep, CaseStep, CompletedStep
<1> QED
  BY <1>1, <1>2, <1>3, <1>4, PTL DEF Spec

-----------------------------------------------------------------------------
(* The abstract specification: every step of an investigation is one of a  *)
(* case review, or changes nothing a reviewer sees.                        *)

LEMMA SameFiled ==
  /\ \A x, role : Review!Filed(x, role) <=> Filed(x, role)
  /\ Review!Assessed <=> Assessed
BY DEF Review!Filed, Filed, Has, Entry, Review!Assessed, Assessed

\* What the lifecycle lets a status be followed by, in the states in use.
LEMMA MoveKinds ==
  ASSUME NEW from, from # "AUTH_REQUIRED", NEW to, to # "AUTH_REQUIRED", LegalMove(from, to)
  PROVE  \/ to = from
         \/ to = "WORKING" /\ from \in { "SUBMITTED", "INPUT_REQUIRED" }
         \/ to = "INPUT_REQUIRED" /\ from = "WORKING"
         \/ to = "COMPLETED" /\ from = "WORKING"
         \/ to \in { "REJECTED", "FAILED", "CANCELED" }
              /\ from \in { "SUBMITTED", "WORKING", "INPUT_REQUIRED" }
BY DEF LegalMove, Allowed

LEMMA ReviewInit == Init => Review!Init
BY DEF Init, Review!Init, Decided

\* A status taken from a run's queue: a run that has nothing to say of a
\* paused case is the opener's, and one that completes it stored its artifacts.
LEMMA StatusIsReviewed ==
  ASSUME TypeOK, CaseInv, CaseInv', NEW r \in Runs, PersistStatus(r), status' # status
  PROVE  Review!Next
<1> DEFINE e == Head(queue[r])
<1> USE DEF run, peers, removal
<1>1. /\ Opener \in Runs /\ \A x \in Runs : x = Opener \/ x \in Decisions
      /\ "reporting" \in Roles /\ Findings \subseteq Roles
      /\ { "INPUT_REQUIRED", "COMPLETED" } \subseteq TaskState
  BY PipelineFacts DEF Runs, Findings, TaskState
<1>2. /\ queue[r] # << >> /\ e \in TaskState /\ status' = e /\ Live /\ LegalMove(status, e)
      /\ queue' = [queue EXCEPT ![r] = Tail(@)]
      /\ UNCHANGED << artifacts, pc, audit >>
  BY DEF PersistStatus
<1>3. /\ Has(queue[r], e)
      /\ \A x : Last(queue[r], x) => (e = x => queue'[r] = << >>)
  BY <1>2, TakeFacts
<1> HIDE DEF e
<1>4. Decided' = Decided /\ status # "AUTH_REQUIRED" /\ e # "AUTH_REQUIRED"
  BY <1>2 DEF Decided, CaseInv, StatesInUse
<1>5. Queued(r, e)
  BY <1>3 DEF Queued
<1>6. r \in Decisions => r \in Decided /\ Assessed
  BY <1>2 DEF CaseInv, DecisionShape
<1>7. CASE e = "WORKING" /\ status \in { "SUBMITTED", "INPUT_REQUIRED" }
  <2>1. status = "INPUT_REQUIRED" => r \in Decisions
    BY <1>1, <1>2 DEF CaseInv, Paused
  <2> QED
    BY <1>2, <1>4, <1>6, <1>7, <2>1 DEF Review!Next, Review!Work
<1>8. CASE e = "INPUT_REQUIRED" /\ status = "WORKING"
  <2>1. Assessed
    BY <1>2, <1>8 DEF CaseInv, Paused, Assessed, Filed
  <2>2. r = Opener
    BY <1>1, <1>5, <1>8 DEF CaseInv, StatesInUse, Event
  <2>3. ~Filed(Opener, "reporting")
    BY <1>5, <1>8, <2>2 DEF CaseInv, PauseComesLast, Emitted
  <2> QED
    BY <1>2, <1>4, <1>8, <2>1, <2>3, SameFiled DEF Review!Next, Review!Pause
<1>9. CASE e = "COMPLETED" /\ status = "WORKING"
  <2>1. CASE r = Opener
    <3>1. /\ queue'[Opener] = << >>
          /\ \A role \in Roles : Emitted(Opener, role)
      BY <1>2, <1>3, <1>5, <1>9, <2>1 DEF CaseInv, CompletionComesLast
    <3>2. \A role \in Roles : Queued(Opener, role) => Has(queue'[Opener], role)
      <4>1. \A x : Has(queue[r], x) <=> x = Head(queue[r]) \/ Has(queue'[r], x)
        BY <1>2, TakeFacts
      <4> QED
        BY <1>9, <2>1, <4>1, PipelineFacts DEF Queued, e, TaskState
    <3>3. \A role \in Roles : Filed(Opener, role)
      BY <3>1, <3>2, EmptyHas DEF Emitted
    <3> QED
      BY <1>1, <1>2, <1>4, <1>9, <3>3, SameFiled DEF Review!Next, Review!Complete, Assessed
  <2>2. CASE r \in Decisions
    BY <1>2, <1>4, <1>6, <1>9, <2>2, SameFiled DEF Review!Next, Review!Complete
  <2> QED
    BY <1>1, <2>1, <2>2
<1>10. CASE /\ e \in { "REJECTED", "FAILED", "CANCELED" }
            /\ status \in { "SUBMITTED", "WORKING", "INPUT_REQUIRED" }
  BY <1>2, <1>4, <1>10 DEF Review!Next, Review!Abort
<1> QED
  BY <1>2, <1>4, <1>7, <1>8, <1>9, <1>10, MoveKinds

\* An artifact taken from a run's queue.
LEMMA ArtifactIsReviewed ==
  ASSUME TypeOK, CaseInv, NEW r \in Runs, PersistArtifact(r), Live
  PROVE  Review!Next
<1> DEFINE o == Head(queue[r])
<1> USE DEF run, peers, removal
<1>1. /\ queue[r] # << >> /\ o \in Roles /\ artifacts' = Append(artifacts, [run |-> r, of |-> o])
      /\ queue' = [queue EXCEPT ![r] = Tail(@)] /\ UNCHANGED << status, audit >>
  BY DEF PersistArtifact
<1>2. Has(queue[r], o)
  BY <1>1, TakeFacts
<1> HIDE DEF o
<1>3. ~Filed(r, o)
  BY <1>1, <1>2 DEF CaseInv, EmittedOnce, Queued
<1>4. r \in Decisions => r \in Decided /\ o = "reporting"
  BY <1>1, <1>2, PipelineFacts, ZenonT(60)
  DEF CaseInv, DecisionShape, StatesInUse, Queued, Event, TaskState
<1>5. /\ r \in { Opener } \cup Decisions /\ o \in Findings \cup { "reporting" }
      /\ Decided' = Decided
  BY <1>1 DEF Runs, Findings, Decided
<1>6. status \in Review!TaskState
  BY DEF Live, TaskState, Review!TaskState
<1>7. Review!File(r, o)
  BY <1>1, <1>3, <1>4, <1>5, <1>6, SameFiled DEF Review!File
<1> QED
  BY <1>5, <1>7 DEF Review!Next

LEMMA ReviewStep ==
  TypeOK /\ CaseInv /\ CaseInv' /\ [Next]_vars => [Review!Next]_(Review!review)
<1> SUFFICES ASSUME TypeOK, CaseInv, CaseInv', [Next]_vars,
                    ~UNCHANGED << status, artifacts, Decided >>
             PROVE  Review!Next
  BY DEF Review!review
<1> USE DEF run, peers, removal
<1>1. Opener \notin Decisions
  BY RunsAssumption
<1>2. CASE Open
  <2>1. status = "UNUSED" /\ Decided' = Decided
    BY <1>2 DEF Open, CaseInv, OpenerShape, Decided
  <2> QED
    BY <1>2, <2>1 DEF Open, Review!Next, Review!Open
<1>3. ASSUME NEW r \in Runs, PersistStatus(r) PROVE Review!Next
  <2>1. UNCHANGED << artifacts, Decided >>
    BY <1>3 DEF PersistStatus, Decided
  <2> QED
    BY <1>3, <2>1, StatusIsReviewed
<1>4. ASSUME NEW r \in Runs, PersistArtifact(r) PROVE Review!Next
  <2>1. Live
    BY <1>4 DEF PersistArtifact, Decided
  <2> QED
    BY <1>4, <2>1, ArtifactIsReviewed
<1>5. ASSUME NEW r \in Runs, TimeOut(r) PROVE Review!Next
  <2>1. /\ UNCHANGED << artifacts, Decided >> /\ status' = "FAILED" /\ LegalMove(status, "FAILED")
    BY <1>5 DEF TimeOut, Decided
  <2>2. status \in { "SUBMITTED", "WORKING", "INPUT_REQUIRED" }
    BY <2>1, MoveKinds DEF CaseInv, StatesInUse
  <2> QED
    BY <2>1, <2>2 DEF Review!Next, Review!Abort
<1>6. CASE Cancel
  <2>1. /\ UNCHANGED << artifacts, Decided >> /\ status' = "CANCELED" /\ LegalMove(status, "CANCELED")
    BY <1>6 DEF Cancel, Decided
  <2>2. status \in { "SUBMITTED", "WORKING", "INPUT_REQUIRED" }
    BY <2>1, MoveKinds DEF CaseInv, StatesInUse, LegalMove, IsTerminal
  <2> QED
    BY <2>1, <2>2 DEF Review!Next, Review!Abort
<1>7. ASSUME NEW d \in Decisions, Resume(d) PROVE Review!Next
  <2>1. /\ d \notin Decided /\ Decided' = Decided \cup { d } /\ UNCHANGED << status, artifacts >>
        /\ status # "UNUSED" /\ (Live => Assessed)
    BY <1>7 DEF Resume, Record, Decided, CaseInv, DecisionShape
  <2>2. status \in Review!TaskState => Live
    BY DEF Live, TaskState, Review!TaskState
  <2> QED
    BY <2>1, <2>2, SameFiled DEF Review!Next, Review!Decide
<1>8. CASE Sweep
  <2>1. Decided' = Decided
    BY <1>8 DEF Sweep, Decided
  <2>2. Live /\ status' = "DELETED" /\ artifacts' = << >>
    BY <1>8, <2>1 DEF Sweep, CaseInv, OpenerShape
  <2>3. status \in Review!TaskState
    BY <2>2 DEF Live, TaskState, Review!TaskState
  <2> QED
    BY <2>1, <2>2, <2>3 DEF Review!Next, Review!Delete
<1>9. \/ Open \/ Cancel \/ Sweep
      \/ \E r \in Runs : PersistStatus(r) \/ PersistArtifact(r) \/ TimeOut(r)
      \/ \E d \in Decisions : Resume(d)
  <2>1. CASE OpenerStep
    BY <2>1 DEF OpenerStep, Plan, RecordStart, Record, RefuseDepth, GiveUp, Gate, RequestReview,
                Disconnect, Decided
  <2>2. ASSUME NEW r \in Runs, RunStep(r)
        PROVE  PersistStatus(r) \/ PersistArtifact(r) \/ TimeOut(r)
    BY <2>2 DEF RunStep, Delegate, Resend, PeerAnswers, PeerFails, CallRaises, Conclude,
                RecordVerdict, Record, Decided
  <2>3. ASSUME NEW d \in Decisions, DecisionStep(d) PROVE Resume(d)
    BY <2>3 DEF DecisionStep, CheckPaused, Continue, Decided
  <2>4. ~BeginDelete /\ ~EndDelete /\ \A r \in Runs, role \in Roles : ~PeerCreates(r, role)
    BY DEF BeginDelete, EndDelete, Record, PeerCreates, Decided
  <2>5. ~UNCHANGED vars
    BY DEF vars, Decided
  <2> QED
    BY <2>1, <2>2, <2>3, <2>4, <2>5 DEF Next, DeleteStep
<1> QED
  BY <1>2, <1>3, <1>4, <1>5, <1>6, <1>7, <1>8, <1>9

\* The case keeps what CaseReview promises the analysts, for any number of
\* decisions and any pipeline of specialists.
THEOREM ReviewIsImplemented == Spec => ImplementsCaseReview
<1>1. Init => Review!Init
  BY ReviewInit
<1>2. TypeOK /\ CaseInv /\ CaseInv' /\ [Next]_vars => [Review!Next]_(Review!review)
  BY ReviewStep
<1> QED
  BY <1>1, <1>2, CaseInvariant, PTL DEF Spec, ImplementsCaseReview, Review!Spec
=============================================================================
