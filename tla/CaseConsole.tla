------------------------------ MODULE CaseConsole ------------------------------
(***************************************************************************)
(* The analysts' console over the cases: the browser sessions of the UI    *)
(* (ui/), the REST reads and writes behind them (app/api/routes.py), the   *)
(* stored tasks, and the in-memory ring of traces a page draws its         *)
(* conclusions from.                                                       *)
(*                                                                         *)
(* A run or a resume of a case is cut where its status becomes readable    *)
(* and where its trace is put in the ring, which is later: the status is   *)
(* persisted while the executor still writes its audit entry.  Module      *)
(* Investigation has what happens inside a run, and the check-then-resume  *)
(* seam of a decision, here one step.                                      *)
(***************************************************************************)
EXTENDS Naturals, Sequences, FiniteSets, SequencesExt

CONSTANTS
  Cases,        \* the cases there may be
  Sessions,     \* the analysts' browser sessions
  MaxTraces,    \* the size of the ring, 200 in the code
  PageSize,     \* the rows a list page asks for, 200 in the code
  MaxRestarts,  \* bound: how often the server may go down
  Nothing,      \* no result, no trace, no case
  Running       \* a run whose trace is still being written

ASSUME ConsoleAssumption ==
  /\ MaxTraces \in Nat \ { 0 }
  /\ PageSize \in Nat \ { 0 }
  /\ MaxRestarts \in Nat
  /\ Nothing \notin Cases

Ring == INSTANCE TraceRing WITH Contexts <- Cases

\* Nothing is none of the values it is told from, nor is Running.
ASSUME DistinctAssumption ==
  /\ \A S \in SUBSET Cases : S # Nothing
  /\ \A t \in Ring!Trace : t # Running
  /\ Running # Nothing

Band == { "LOW", "HIGH" }
Views == { "investigate", "queue", "history" }
RunState == { "WORKING", "INPUT_REQUIRED", "COMPLETED", "FAILED" }

\* What the store keeps of a case: its state, the hops its run gave up on,
\* the band of the risk_assessment artifact and that of the report.
StoredTask ==
  [state : RunState, lost : SUBSET Ring!Hop,
   risk : Band \cup { "none" }, report : Band \cup { "none" }]

VARIABLES
  tasks,     \* the stored task of each case, or Nothing
  opened,    \* the cases in the order they were created
  runs,      \* a case's first run: Running, then its trace until that is put
  resumes,   \* the resume of each case, or Nothing
  ring,      \* the trace store
  view,      \* the page each session is on
  parked,    \* the page it asked for, applied by its next run
  shown,     \* last_result: what it fetched of a case, or Nothing
  waiting,   \* the run or decision it waits for the answer of, or Nothing
  restarts,  \* how often the server went down
  untraced,  \* history: cases resumed when their trace was not to be had,
  early,     \* history: those among them whose run had yet to put it
  since      \* history: contexts put since a context entered the ring

server  == << tasks, opened, runs, resumes, ring, restarts, untraced, early, since >>
browser == << view, parked, shown, waiting >>
vars == << server, browser >>

Fetched == [case : Cases, task : StoredTask, trace : Ring!Trace \cup { Nothing }]
Resume == [trace : Ring!Trace, shared : BOOLEAN, band : Band,
           step : { "reporting", "filing" }]

TypeOK ==
  /\ tasks \in [Cases -> StoredTask \cup { Nothing }]
  /\ opened \in Seq(Cases) /\ IsInjective(opened)
  /\ runs \in [Cases -> Ring!Trace \cup { Nothing, Running }]
  /\ resumes \in [Cases -> Resume \cup { Nothing }]
  /\ Ring!RingOK(ring)
  /\ view \in [Sessions -> Views]
  /\ parked \in [Sessions -> Views \cup { Nothing }]
  /\ shown \in [Sessions -> Fetched \cup { Nothing }]
  /\ waiting \in [Sessions -> ({ "run", "decision" } \X Cases) \cup { Nothing }]
  /\ restarts \in 0 .. MaxRestarts
  /\ early \subseteq untraced /\ untraced \subseteq Cases
  /\ since \in [Cases -> (SUBSET Cases) \cup { Nothing }]

Init ==
  /\ tasks = [c \in Cases |-> Nothing]
  /\ opened = << >>
  /\ runs = [c \in Cases |-> Nothing]
  /\ resumes = [c \in Cases |-> Nothing]
  /\ ring = Ring!EmptyRing
  /\ view = [s \in Sessions |-> "investigate"]
  /\ parked = [s \in Sessions |-> Nothing]
  /\ shown = [s \in Sessions |-> Nothing]
  /\ waiting = [s \in Sessions |-> Nothing]
  /\ restarts = 0
  /\ untraced = {} /\ early = {}
  /\ since = [c \in Cases |-> Nothing]

-----------------------------------------------------------------------------
(* What a page reads.                                                      *)

\* get_investigation, and the same reads at the end of a run or a decision.
Fetch(c) ==
  [case |-> c, task |-> tasks[c],
   trace |-> IF Ring!Holds(ring, c) THEN ring.traces[c] ELSE Nothing]

\* list_investigations: the newest PageSize cases that are still stored.
Listed ==
  LET stored == { i \in DOMAIN opened : tasks[opened[i]] # Nothing }
  IN  { opened[i] : i \in { j \in stored : Cardinality({ k \in stored : k > j }) < PageSize } }

\* view_review_queue: of those, the cases that wait for a human.
QueueRows == { c \in Listed : tasks[c].state = "INPUT_REQUIRED" }

\* view_history offers every listed case.
Rows(v) == CASE v = "queue" -> QueueRows [] v = "history" -> Listed [] v = "investigate" -> {}

\* A failed_spans that looks at the last hop only.
MutLastHopFailed(result) ==
  IF result.trace = Nothing THEN {} ELSE result.trace.errors \cap { "reporting" }

\* failed_spans: the hops the fetched trace has an error for.
FailedSpans(result) == IF result.trace = Nothing THEN {} ELSE result.trace.errors

\* pipeline_state: an artifact makes a node done, an error span overrides it.
Node(result, hop) ==
  IF hop \in FailedSpans(result) THEN "error"
  ELSE IF \/ hop = "findings" /\ result.task.risk # "none"
          \/ hop = "reporting" /\ result.task.report # "none"
       THEN "done" ELSE "pending"

\* render_result: the failure banner in place of the verdict.
Headline(result) == IF FailedSpans(result) # {} THEN "withheld" ELSE "verdict"

\* view_investigate.
Panel(result) ==
  IF result = Nothing THEN "intake"
  ELSE IF result.task.state = "INPUT_REQUIRED" THEN "review" ELSE Headline(result)

Showing(s) == IF view[s] = "investigate" THEN Panel(shown[s]) ELSE "list"

\* A session serves its user between two requests, its page up to date.
AtHand(s) == waiting[s] = Nothing /\ parked[s] = Nothing

-----------------------------------------------------------------------------
(* Runs and resumes of a case on the server.                               *)

\* The ways a run may end that was not cut short, and the gate between them.
Outcome ==
  { t \in StoredTask :
      /\ t.state \in RunState \ { "WORKING" }
      /\ t.risk = "none" => "findings" \in t.lost
      /\ (t.state = "FAILED") <=> (t.lost # {})
      /\ (t.state = "INPUT_REQUIRED") <=> (t.lost = {} /\ t.risk = "HIGH")
      /\ (t.report = "none") <=> (t.state = "INPUT_REQUIRED" \/ "reporting" \in t.lost)
      /\ t.report \in { "none", "LOW", t.risk }
      /\ t.risk = "HIGH" => t.report # "LOW" }

\* A run that raised: FAILED, with no hop to blame for it.
CutShort == { t \in StoredTask : t.state = "FAILED" /\ t.lost = {} /\ t.report = "none" }

\* The status a run ends with is readable; its trace is not in the ring yet.
EndRun(c) ==
  /\ runs[c] = Running
  /\ \E t \in Outcome \cup CutShort, spans \in SUBSET Ring!Hop :
       /\ t \in Outcome => spans = IF t.state = "INPUT_REQUIRED" THEN { "findings" } ELSE Ring!Hop
       /\ t \in CutShort => "reporting" \notin spans
       /\ tasks' = IF tasks[c] = Nothing THEN tasks ELSE [tasks EXCEPT ![c] = t]
       /\ runs' = [runs EXCEPT ![c] = [spans |-> spans, errors |-> t.lost]]
  /\ UNCHANGED << opened, resumes, ring, restarts, untraced, early, since, browser >>

PutTrace(c, trace) ==
  /\ ring' = Ring!Put(ring, c, trace)
  /\ since' = [x \in Cases |->
                 IF x = c THEN IF Ring!Holds(ring, c) THEN since[c] ELSE {}
                 ELSE IF since[x] = Nothing THEN Nothing ELSE since[x] \cup { c }]

\* The finally of run(): the trace enters the ring.
FileRun(c) ==
  /\ runs[c] \notin { Nothing, Running }
  /\ PutTrace(c, runs[c])
  /\ runs' = [runs EXCEPT ![c] = Nothing]
  /\ UNCHANGED << tasks, opened, resumes, restarts, untraced, early, browser >>

\* A resume that starts a trace of its own.
MutFreshTrace(c) == Ring!NoSpans

\* The trace a resume goes on with: the paused one's, or a new one.
ResumedTrace(c) == Ring!SpansOf(ring, c)

\* The Reporting hop of a resume, and COMPLETED whatever came of it.  The
\* span goes into the trace object itself, which the ring may share.
Report(c) ==
  /\ resumes[c] # Nothing /\ resumes[c].step = "reporting"
  /\ \E ok \in BOOLEAN :
       LET trace == Ring!WithSpan(resumes[c].trace, "reporting", ok)
       IN /\ resumes' = [resumes EXCEPT ![c].trace = trace, ![c].step = "filing"]
          /\ ring' = IF resumes[c].shared /\ Ring!Holds(ring, c)
                     THEN [ring EXCEPT !.traces[c] = trace] ELSE ring
          /\ tasks' = IF tasks[c] = Nothing THEN tasks
                      ELSE [tasks EXCEPT ![c].state = "COMPLETED",
                              ![c].lost = IF ok THEN {} ELSE { "reporting" },
                              ![c].report = IF ok THEN resumes[c].band ELSE "none"]
  /\ UNCHANGED << opened, runs, restarts, untraced, early, since, browser >>

\* The server's time-out takes a resume away during its Reporting hop, whose
\* span is recorded as any other.
TimeOutResume(c) ==
  /\ resumes[c] # Nothing /\ resumes[c].step = "reporting"
  /\ LET trace == Ring!WithSpan(resumes[c].trace, "reporting", TRUE)
     IN ring' = IF resumes[c].shared /\ Ring!Holds(ring, c)
                THEN [ring EXCEPT !.traces[c] = trace] ELSE ring
  /\ resumes' = [resumes EXCEPT ![c] = Nothing]
  /\ tasks' = IF tasks[c] = Nothing THEN tasks ELSE [tasks EXCEPT ![c].state = "FAILED"]
  /\ UNCHANGED << opened, runs, restarts, untraced, early, since, browser >>

FileResume(c) ==
  /\ resumes[c] # Nothing /\ resumes[c].step = "filing"
  /\ PutTrace(c, resumes[c].trace)
  /\ resumes' = [resumes EXCEPT ![c] = Nothing]
  /\ UNCHANGED << tasks, opened, runs, restarts, untraced, early, browser >>

\* The server goes down and comes back: the tasks are in the database, the
\* traces and the runs were in memory, and every open request is lost.
Restart ==
  /\ restarts < MaxRestarts
  /\ restarts' = restarts + 1
  /\ ring' = Ring!EmptyRing
  /\ runs' = [c \in Cases |-> Nothing]
  /\ resumes' = [c \in Cases |-> Nothing]
  /\ waiting' = [s \in Sessions |-> Nothing]
  /\ since' = [c \in Cases |-> Nothing]
  /\ UNCHANGED << tasks, opened, untraced, early, view, parked, shown >>

-----------------------------------------------------------------------------
(* What an analyst does in a session.                                      *)

\* run_detection: the form is sent and the session follows the stream.
RunDetection(s, c) ==
  /\ AtHand(s) /\ Showing(s) = "intake"
  /\ c \notin ToSet(opened)
  /\ tasks' = [tasks EXCEPT ![c] =
       [state |-> "WORKING", lost |-> {}, risk |-> "none", report |-> "none"]]
  /\ opened' = Append(opened, c)
  /\ runs' = [runs EXCEPT ![c] = Running]
  /\ waiting' = [waiting EXCEPT ![s] = << "run", c >>]
  /\ UNCHANGED << resumes, ring, restarts, untraced, early, since, view, parked, shown >>

\* The last frame of the stream or the answer to a decision; an error when
\* the case was deleted meanwhile.
Answer(s) ==
  /\ waiting[s] # Nothing
  /\ LET c == waiting[s][2] IN
     /\ IF waiting[s][1] = "run" THEN runs[c] = Nothing ELSE resumes[c] = Nothing
     /\ shown' = IF tasks[c] = Nothing THEN shown ELSE [shown EXCEPT ![s] = Fetch(c)]
  /\ waiting' = [waiting EXCEPT ![s] = Nothing]
  /\ UNCHANGED << server, view, parked >>

\* open_case from a row; the page changes with the next run of the script.
OpenCase(s, c) ==
  /\ AtHand(s)
  /\ c \in Rows(view[s])
  /\ shown' = [shown EXCEPT ![s] = Fetch(c)]
  /\ parked' = [parked EXCEPT ![s] = "investigate"]
  /\ UNCHANGED << server, view, waiting >>

\* apply_requested_view, ahead of the page.
ApplyRequestedView(s) ==
  /\ parked[s] # Nothing
  /\ view' = [view EXCEPT ![s] = parked[s]]
  /\ parked' = [parked EXCEPT ![s] = Nothing]
  /\ UNCHANGED << server, shown, waiting >>

\* The radio in the sidebar.
Navigate(s, v) ==
  /\ AtHand(s) /\ view[s] # v
  /\ view' = [view EXCEPT ![s] = v]
  /\ UNCHANGED << server, parked, shown, waiting >>

NewInvestigation(s) ==
  /\ AtHand(s) /\ Showing(s) \notin { "intake", "list" }
  /\ shown' = [shown EXCEPT ![s] = Nothing]
  /\ UNCHANGED << server, view, parked, waiting >>

\* delete_case from a row, with its result dropped if it was loaded here.
DeleteCase(s, c) ==
  /\ AtHand(s)
  /\ c \in Rows(view[s])
  /\ tasks' = [tasks EXCEPT ![c] = Nothing]
  /\ shown' = [shown EXCEPT ![s] = IF @ # Nothing /\ @.case = c THEN Nothing ELSE @]
  /\ UNCHANGED << opened, runs, resumes, ring, restarts, untraced, early, since,
                  view, parked, waiting >>

\* The band a decision files: the one shown, another one, or LOW for a case closed.
DecidedBand(action, band, other) ==
  CASE action = "approve" -> band [] action = "override" -> other [] action = "close" -> "LOW"

\* _decision_form and submit_decision.  A case that left INPUT_REQUIRED is
\* refused (409, 404) and the panel stays as it is.
Decide(s, action) ==
  /\ AtHand(s) /\ Showing(s) = "review"
  /\ LET c == shown[s].case IN
     /\ tasks[c] # Nothing /\ tasks[c].state = "INPUT_REQUIRED"
     /\ \E other \in Band \ { shown[s].task.risk } :
          resumes' = [resumes EXCEPT ![c] =
            [trace |-> ResumedTrace(c), shared |-> Ring!Holds(ring, c), step |-> "reporting",
             band |-> DecidedBand(action, tasks[c].risk, other)]]
     /\ tasks' = [tasks EXCEPT ![c].state = "WORKING"]
     /\ untraced' = IF Ring!Holds(ring, c) THEN untraced ELSE untraced \cup { c }
     /\ early' = IF runs[c] = Nothing THEN early ELSE early \cup { c }
     /\ waiting' = [waiting EXCEPT ![s] = << "decision", c >>]
  /\ UNCHANGED << opened, runs, ring, restarts, since, view, parked, shown >>

-----------------------------------------------------------------------------
CaseStep(c) ==
  \/ EndRun(c) \/ FileRun(c)
  \/ Report(c) \/ TimeOutResume(c) \/ FileResume(c)

SessionStep(s) ==
  \/ \E c \in Cases : RunDetection(s, c) \/ OpenCase(s, c) \/ DeleteCase(s, c)
  \/ Answer(s) \/ ApplyRequestedView(s) \/ NewInvestigation(s)
  \/ \E v \in Views : Navigate(s, v)
  \/ \E action \in { "approve", "override", "close" } : Decide(s, action)

Next ==
  \/ \E c \in Cases : CaseStep(c)
  \/ \E s \in Sessions : SessionStep(s)
  \/ Restart

Spec == Init /\ [][Next]_vars

-----------------------------------------------------------------------------
(* Properties.                                                             *)

\* A result that was fetched with its trace, of a case some hop of which was
\* given up on, and that was not decided before its run was done, is never
\* on the page as a verdict: the failure banner stands there instead and the
\* pipeline shows that hop in error, for a run that failed and for a resume
\* that completed the case without its report (ui/results.py render_result,
\* failed_spans, pipeline_state).
LossIsShown ==
  \A s \in Sessions :
    shown[s] # Nothing /\ shown[s].trace # Nothing /\ shown[s].case \notin early
      => \A hop \in shown[s].task.lost :
           Panel(shown[s]) = "withheld" /\ Node(shown[s], hop) = "error"

\* A case decided while its trace was to be had keeps the whole timeline:
\* the trace found for a completed case has the hops of before the pause as
\* well as the Reporting hop, whatever was evicted or put in between
\* (orchestrator.py _resume, "the full 6-agent timeline").
TimelineSurvivesReview ==
  \A c \in Cases \ untraced :
    tasks[c] # Nothing /\ tasks[c].state = "COMPLETED" /\ Ring!Holds(ring, c)
      => ring.traces[c].spans = Ring!Hop

\* A trace is forgotten only for newer ones: as many other contexts as the
\* ring has places were put since, however often each of them was (trace.py put).
RingForgetsOldest ==
  \A c \in Cases :
    since[c] # Nothing /\ ~Ring!Holds(ring, c) => Cardinality(since[c]) >= MaxTraces

\* "An incomplete run must never be presented as a verdict" (ui/results.py:5):
\* a case that lost a hop is not on a page as a verdict.  It does not hold:
\* render_result asks the trace and nothing else, and the trace of a FAILED
\* case is gone after a restart or an eviction and not there yet just before
\* the run puts it.
IncompleteIsNoVerdict ==
  \A s \in Sessions : Panel(shown[s]) = "verdict" => shown[s].task.lost = {}
=============================================================================
