# A2A financial-crime investigator: a TLA+ verification

This directory holds TLA+ models of the investigator's own core logic, the TLC
configurations that check them on small instances, and proofs, checked by TLAPS,
of what must hold for every instance. Paths below are relative to `src/`.

- [The system](#the-system) - inventory: parts, state, operations, interactions
- [Modules](#modules) - which module models which part
- [Runs](#runs) - what is checked, on which bounds, under which fairness
- [Where the code and its documentation disagree](#where-the-code-and-its-documentation-disagree)
- [Proofs](#proofs) - what is proved, from what, along which argument
- [Limits](#limits) - what is only model-checked, what is not modelled
- [Plan](#plan)

## The system

One asyncio process hosts seven A2A agents behind one FastAPI app: an
orchestrator, five analysts (KYC, AML, sanctions, fraud, risk) and a reporter.
An analyst's browser opens a case through the REST gateway; the orchestrator
calls the others one after the other, over HTTP, and either files the report or
pauses the case for a human decision.

| Part | Code | State it keeps | Operations |
|---|---|---|---|
| Task lifecycle and stores | `app/a2a/types.py`, `app/a2a/task_store.py`, `app/database/task_store.py` | a task per id: state, context, artifacts, history | create, get, set_status (checked against `_ALLOWED`), add_artifact, append_history, delete_context |
| A2A server | `app/a2a/server.py`, `app/a2a/executor.py` | a handler, a runner and an event queue per request | SendMessage, SendStreamingMessage, GetTask, CancelTask |
| Orchestrator and review gate | `app/agents/orchestrator.py` | findings and failures of a run; agent cards | run, _resume, _delegate |
| REST gateway | `app/api/routes.py` | none of its own | create, stream, decide, delete an investigation; read and clear the audit log |
| A2A client | `app/a2a/client.py` | `_loopback_origins`, shared by all calls | discover, send_message, get_task, cancel_task, stream_message |
| Audit log | `app/security/audit.py`, `app/database/models.py` | a hash-chained table | record, clear, verify_chain, entries |
| Rate limiter | `app/security/rate_limit.py` | a token bucket per client host | allow |
| Trace store | `app/observability/trace.py` | a ring of 200 traces, in memory | span, put, get |
| Risk scoring | `app/agents/risk.py` | none: pure | five dimensions, their blend, escalation floors, confidence, decision |
| Specialists, detection tools | `app/agents/{kyc,aml,sanctions,fraud,base,schemas}.py`, `app/tools/` | none: pure | name screening, ledger patterns, country and industry risk; one finding per profile |
| Reporting and LLM | `app/agents/reporting.py`, `app/agents/llm.py`, `app/observability/cost.py` | none | one report per case, sections by what was assessed |
| Cards and signing | `app/a2a/agent_card.py`, `app/agents/cards.py`, `app/security/signing.py` | none | card, sign, verify |
| Authentication, roles | `app/security/{authn,jwt_auth,rbac}.py` | none | principal of a request, permission of a role |
| Validation | `app/security/{validation,prompt_guard}.py` | none | size limits, injection patterns |
| Database | `app/database/{session,repository,models}.py` | the tables | sessions, read-only queries |
| Metrics, logs | `app/observability/{metrics,logging}.py` | counters | inc, observe |
| Factory, configuration | `app/api/factory.py`, `app/config.py`, `app/main.py` | settings | wiring |
| Evaluation | `app/evaluation/` | none | an offline test bench |
| Console (UI) | `ui/` | a browser session: page, loaded result, requested page | run, open, decide, delete a case; the ledger grid and its cleaning |

How they interact. The gateway and a peer's client reach an agent the same way:
through its server, which prepares a task in the store, starts the executor as a
concurrent *runner* and drains what the runner publishes on a queue into the
store. The orchestrator is such an executor; its `_delegate` uses the A2A
client, which reaches another agent's server. Every one of them awaits at every
store access, so any two interleave there. What a peer computes is a pure
function of the profile and of what the earlier peers found; the console reads
the stored task and, beside it, the trace the run leaves in memory when it is
done. Decisions, cancellations and deletions come in beside a run and share
nothing with it but the stored task.

What is hard about it, and what must hold of each part:

- *Two writers, one task.* A message may name a task whose run is under way, a
  CancelTask does not stop the runner, and a time-out fails a task that may just
  have ended. The store's transition check is the only arbiter: states must
  follow the lifecycle, terminal states must stay, and no task may be forgotten.
- *Results through a queue.* A status and the artifacts it speaks of reach the
  store one by one; a pause must not be seen before its findings.
- *Partial failure.* A peer fails, a client leaves, an executor raises or hangs.
  Nothing partial may pass for complete.
- *Check, then act.* A decision and a cancellation read the task, then write.
- *Retries.* A request whose answer was lost is sent again, though it may have
  been handled.
- *A chain under concurrency.* The log must verify whatever was recorded at
  once, and must not once a row was changed.
- *Restarts.* Rows survive, coroutines and traces do not.
- *Two sources for one page.* The console draws its verdict from the stored task
  and from the trace, which appears later, and is gone after a restart or when
  newer cases push it out.
- *Thresholds.* A rating is a blend of rounded numbers cut into bands and raised
  to floors; one signal that should decide a case can be lost between two
  roundings, in a default for a finding that was never made, or in a denominator
  that other rows inflate.

`PROJECT.json` lists these as hazards, each at its line with the properties that
watch it.

## Modules

| Module | Models | Abstracted |
|---|---|---|
| `TaskStates` | the states, `_ALLOWED`, `assert_transition` | `UNSPECIFIED`, which nothing assigns |
| `TaskLifecycle` | what a store promises: an abstract specification | - |
| `A2AServer` | one agent's server, queue and store, an action per await | message contents; what an executor publishes is any script of `Scripts` |
| `CaseReview` | what a case promises its analysts: an abstract specification | - |
| `Investigation` | one case: orchestrator runs, gateway, the peers' rows | of the findings, only what asks for a human; the handler's seams inside a store access |
| `A2AClient` | calls that share a client, their attempts and the fail-over | delays; bodies |
| `AuditLog` | both loggers, the chain, the clearing route, tampering | fields of an entry; hashing is collision-free |
| `RateLimiter` | the token bucket and Retry-After | floating point: tokens are sixtieths, time is seconds |
| `TraceRing` | the ring of traces, as operators on a record | of a trace, which hops it has and which are in error |
| `CaseConsole` | browser sessions over the cases, the ring and restarts | of a case, its state, lost hops, band and report; the hops before Reporting are one |
| `RiskModel` | the rating: dimensions, blend, floors, confidence, decision, actions | the factors' wording and the waterfall |
| `DetectionTools` | the four specialists and their five tools | how alike two tokens are (a table); text searched for a country or an indicator (members of sets) |
| `CaseReport` | what each section of the report claims | wording, charts, cost |
| `Screening` | one case from the grid to the report, through the three above | interleaving, which `Investigation` has |
| `...Proofs` | proofs about the module they are named after | |
| `MC...` | constants for TLC | |

`Screening` composes `DetectionTools`, `RiskModel` and `CaseReport`;
`CaseConsole` instantiates `TraceRing`; `A2AServer` implements `TaskLifecycle`
and `Investigation` implements `CaseReview`. Operators named `Mut...`
or commented "Mutant of" are plausible bugs in one definition each: the checks
were tried against them.

**A2AServer.** A request moves `idle -> created | found -> prepared -> draining
-> answered`, or out to `timed_out -> expired`, `error`, `gone` (the SSE client
left) or `lost` (the process died). `PrepareNew`, `MarkSubmitted`, `LookUp` and
`AppendHistory` are `_prepare_task`; `Publish`, `Return` and `Raise` the runner;
`PersistStatus`, `PersistArtifact` and `Finish` the drain loop; `Timeout` and
`FailTimedOut` the `except TimeoutError` with its unguarded `set_status`;
`CheckCancel` and `ApplyCancel` the two halves of `cancel_task`. The in-memory
and the SQL store make the same moves; `Restart` is a process that starts again
over the SQL one. `Lifecycle == INSTANCE TaskLifecycle` is the refinement.

**Investigation.** A run per request: the `Opener` and each of `Decisions`.
`pc` says where its executor stands and `queue` what it has published and the
handler not persisted. `wire` and `rows` are the requests to peers and the tasks
they left: a request may be taken late, more than once (`Resend`, the client's
retry) or never. `sweep` is `delete_investigation`'s progress over the stores,
`ghosts` the decisions that opened a new task because theirs was deleted between
the check and the message. `settings` ranges over configurations, so one run
covers review on, review off and an iteration limit below the pipeline's length.
A flagged profile (`scan_injection`) adds a second WORKING update and an audit
entry before the run starts; it changes no later step and is left out.

**CaseReview** says what the analysts rely on: a case is paused only with all
its findings stored, goes on from a pause only because of a decision on record,
has at most one report of each decision and nothing else of it, is completed by
a run that stored everything or by a decision, and once it has ended its state
changes only by deletion. `Decided`, the decisions in the audit log, is the only state
the mapping computes; `status` and `artifacts` map to themselves.

**CaseConsole.** A case is `WORKING` from `RunDetection` to `EndRun`, where its
status becomes readable; `FileRun` puts the trace, which in the code follows the
audit entry. `Decide` starts a resume, whose trace extends the one in the ring
if it is still there (`ResumedTrace`) *and is that very object* (`shared`), and
`Report`, `TimeOutResume` and `FileResume` are how it ends. `Restart` empties the
ring and loses what was in flight. A session is its page (`view`), the page it
asked for (`parked`, applied by the next run of the script), the request it waits
for and the result it shows (`shown`: the task and the trace as they were
fetched); `Panel` and `Node` are what `render_result` and `pipeline_state` make of
that. `untraced`, `early` and `since` only remember what the properties speak of:
decisions made when the trace was gone, decisions made before the run had put it,
and which other contexts were put since.

**Screening.** `AddRow` types a row into the grid; `Submit` cleans it as the form
does or validates it as the API does, and fills in the defaults. `Delegate`,
`AssessRisk`, `FileReport` are the hops, each answered or lost; `Pause` and
`Decide` the review. A ledger is a bag of rows, since no finding depends on their
order; names are sequences of tokens; days are numbers. Ratios are in thousandths
and points in hundredths, rounded where the code rounds, half to even.
The integer arithmetic was compared with the program's own code on 30 000
ratings of this instance: all agree but about one in a thousand that differ by
one point, where the blend is exactly at a half and the code's renormalised
floating-point weights fall on the other side of it. No band differed.

**A2AClient.** `FailOver` and `ConnectFails` are what a refused connection leads
to, `TryAgain` what any other transient failure does, `Refuse` the answers that
are final. `wire` and `handled` are the requests and the work they set going;
each carries the number it was sent as and whether it went in-process. `label`
is what `_delegate` then writes on the trace. `max_attempts` is taken to be
positive: at 0 every call fails without sending.

**AuditLog.** `ReadLast` and `AppendEntry` are the two database accesses of
`record`, under the lock; `Clear` is `clear()`, and the clearer's own entry
follows as a separate `record`, as in the route. A digest is the sequence of the
contents it was computed over. The tampering actions change rows behind the
logger: edit one, edit one and rehash it, or delete one. Editing and rehashing
the *newest* row, or cutting off the tail, is outside what the chain claims to
detect, and outside the model.

**RateLimiter.** A request costs 60 units and a bucket gains `Rpm` units a
second, which is `allow()`'s arithmetic without its rounding; `promise` records
what a refused client was told.

## Runs

All runs but `server_live` and `client_calls` are safety only. A system that has
served all its requests is at rest, so deadlock is not checked.

| Run | Bounds | States | Checks |
|---|---|---|---|
| `server_safety` | 1 SendMessage, 1 stream, 2 tasks, 1 context, 3 scripts | 1.1 million | `ImplementsLifecycle`, `TerminalIsFinal`, `ErrorMeansOver`, `NoForgottenTask`, `AnswerIsSettled`, `ArtifactsAccounted` |
| `server_live` | 2 SendMessages, 1 task | 181 thousand | `TaskSettles`, `CallAnswered` |
| `investigation_safety` | 1 case, 2 decisions, specialist + risk + reporting, 3 configurations | 1.3 million | `ImplementsCaseReview`, `PausedIsComplete`, `ReviewedBeforeFiling`, `CleanCompletion`, `ReportsAreAttributed`, `CalmDeleteIsComplete` |
| `client_calls` | 2 calls, a local and a remote peer, 3 attempts (the default) | 184 thousand | `WorkIsBounded`, `RemotePeersAnswerThemselves`, `FallbackIsReported`, `AnswersAreFinal`, `CallsEnd` |
| `audit_chain` | 3 recorders, 2 clearers | 18 thousand | `ChainIntact`, `TamperEvident`, `ClearanceLeavesTrace` |
| `rate_limiter` | 2 clients, 25 a minute, burst 2, 9 seconds | 158 thousand | `RateBounded`, `RetryHonoured` |
| `console_safety` | 2 sessions, 2 cases, ring of 1, pages of 1, 1 restart | 2.2 million | `LossIsShown`, `TimelineSurvivesReview`, `RingForgetsOldest` |
| `screening` | 7 customers, 6 ledgers, 11 kinds of row, 2 rows typed, 1 hop lost | 221 thousand | `EscalationHolds`, `FilingIsNeverLow`, `ThinEvidenceIsLowConfidence`, `GridIsAccepted`, `ReportAgrees`, `CashIsNotDiluted` |
| `server_stream_hangs`, `no_report`, `console_verdict`, `screening_blocked` | smallest that show it | | the documentation's claims, below |

Each safety run also checks the module's `TypeOK`.

Why these bounds are enough to meet the interesting cases:

- *Server.* Two requests on one task already race a persist against a time-out, a
  cancellation and a deletion; the second task and the shared context make
  `delete_context` and fresh ids visible. Three scripts are the three shapes the
  repository's executors have: work and complete, work and pause, reject.
- *Investigation.* Two decisions suffice for the race past the INPUT_REQUIRED
  check. One specialist that can alarm, before Risk and Reporting, gives every
  place a failure can fall: before the gate, at Risk, at Reporting. Two
  specialists with one decision (`TwoSpecialists`) pass the same checks.
- *Client.* Two calls share the set of failed-over origins; three attempts are
  the configured number; one peer of each kind.
- *Audit.* Three recorders and two clearers give chains of up to five rows, a
  row in the middle to tamper with, and a recorder between the two halves of a
  clearance.
- *Console.* A ring of one place and two cases evict each other; two sessions are
  a decision, a deletion or a new case behind another analyst's back; one restart
  falls anywhere. A larger ring only puts an eviction off.
- *Screening.* The rows are one of each kind the tools tell apart (a listed name
  and a near miss, cash just under the threshold and well over it, both
  directions, crypto, a blocked country, an undated row, one with nothing but an
  amount); the ledgers start at or a row or two short of the patterns (structuring,
  layering, velocity), so that typed rows complete them; a hop lost at each place is
  enough for every default an absent finding is read with.
- *Rate.* At 25 a minute a token takes 2.4 seconds, so rounding up and down
  differ; nine seconds see the burst spent and three tokens come back.

Fairness. `server_live` assumes weak fairness of the steps that only need the
event loop (`ServerStep`), the `wait_for` timer among them, and none of the
executors (they may hang) or the clients. `client_calls` assumes it of each
call's own steps: connecting, waiting and sleeping are each timed by httpx or
`asyncio.sleep`, and an in-process call is answered because the server's own
time-out answers it, which is what `CallAnswered` shows. Nothing else is
assumed.

## Where the code and its documentation disagree

Four runs expect a violation; each quotes the sentence it refutes in
`PROJECT.json` under `findings`.

- `no_report`: `_resume` gives `_delegate` a throw-away list of failures and then
  publishes COMPLETED, so a decision whose Reporting call fails ends a case as
  COMPLETED with no report. `run` itself is careful not to (`CleanCompletion`).
- `server_stream_hangs`: only SendMessage is timed out; a stream whose executor
  hangs keeps its task WORKING.
- `console_verdict`: whether a page is a verdict or a failure banner is decided by
  the trace alone. A FAILED case opened after a restart, an eviction, or just
  before its run has put the trace is shown as a verdict. With its trace at hand
  it never is (`LossIsShown`).
- `screening_blocked`: a transaction with a party in a blocked jurisdiction scores,
  but only the customer's own country raises a floor, so such a case can be LOW.

Others, met while modelling, that need no run:

- The gate reads `if not failures and ...` (`app/agents/orchestrator.py:153`): a
  case that Risk or Sanctions flags goes to Reporting unreviewed as soon as any
  one peer failed. It ends FAILED, but its report is stored.
  `ReviewedBeforeFiling` is what does hold.
- `delete_investigation` sweeps the stores once and does not stop the run, whose
  next delegation leaves rows behind the sweep (`app/api/routes.py:269`). A case at
  rest is removed whole (`CalmDeleteIsComplete`).
- Clearing the audit log and recording the clearance are two critical sections
  (`app/api/routes.py:290`); another entry may come first in the new chain. And
  `app/database/models.py:43` calls the table append-only, which `clear` is not.
- `_delegate` reads `uses_loopback` after its call "to record which wire the hop
  actually took". The flag is the origin's, not the hop's, so a hop over a socket
  is labelled loopback when another call failed over meanwhile. The other
  direction holds and is proved (`FallbackIsReported`).
- Attested structuring with layering forces a HIGH floor although a ledger was
  assessed (`app/agents/risk.py:138`), while the report's methodology says a score
  with a ledger comes from the ledger alone (`app/agents/reporting.py:537`).
- An override or a close changes band and decision and leaves the recommended
  actions of the band before (`app/agents/orchestrator.py:224`); `override_band` is
  any text (`app/api/routes.py:32`).
- The report's coverage table says of AML and fraud that they were performed when
  their hop was lost (`app/agents/reporting.py:528`); `ReportAgrees` therefore
  speaks of cases that lost nothing there.
- A country is found as a part of a text (`app/tools/datasets.py:38`): Somalia
  contains Mali.
- A date in the last week of the year 9999 overflows in `_velocity_7d`
  (`app/tools/finance.py:324`) and loses the AML and fraud hops of its case.
- With a burst of 0 no bucket ever holds a token and every Retry-After is in vain.
- The review queue shows the paused ones among the newest 200 cases
  (`ui/views.py:67`): an older pause is on no page.

## Proofs

For all values of the constants (any number of requests, calls, decisions, any
pipeline of specialists, ...), from the named assumptions of each module and
nothing else:

| Theorem | Says |
|---|---|
| `A2AServerProofs!TypeCorrect` | `Spec => []TypeOK` |
| `A2AServerProofs!ServerImplementsLifecycle` | the server implements `TaskLifecycle` |
| `A2AServerProofs!TerminalStatesAreFinal` | a terminal state changes only by deletion |
| `A2AServerProofs!ErrorsLeaveNothingRunning` | a request that ends in an internal error leaves a task that is over or in other hands |
| `A2AServerProofs!TasksAreNotForgotten`, `AnswersAreSettled` | `NoForgottenTask`, `AnswerIsSettled`: a task under way has a handler that will move it |
| `A2AServerProofs!ArtifactsAreAccounted` | `ArtifactsAccounted`: what an executor published is stored once or still queued |
| `InvestigationProofs!TypeCorrect`, `CaseInvariant` | types, and the inductive invariant of a case |
| `InvestigationProofs!PausesAreComplete`, `ReportsHaveAuthors`, `ReviewComesFirst`, `CalmDeletesAreComplete` | `PausedIsComplete`, `ReportsAreAttributed`, `ReviewedBeforeFiling`, `CalmDeleteIsComplete` |
| `InvestigationProofs!CompletionsAreClean` | `CleanCompletion`: a case its own run completed has every artifact once |
| `InvestigationProofs!ReviewIsImplemented` | an investigation implements `CaseReview` |
| `A2AClientProofs!TypeCorrect`, `WorkStaysBounded`, `RemotePeersDo`, `FallbacksAreReported`, `NoRetryAfterAnAnswer` | the client's safety properties, for any number of attempts |
| `AuditLogProofs!TypeCorrect`, `UntamperedLogVerifies`, `TamperingIsEvident`, `ClearancesAreTraced` | the chain's promise, for logs of any length |
| `RateLimiterProofs!TypeCorrect`, `RateIsBounded`, `RetryAfterIsHonoured` | the limiter's promise, for any rate and burst |
| `CaseConsoleProofs!ConsoleTypes`, `TimelinesSurviveReview`, `LossesAreShown`, `RingsForgetTheOldest` | the console's safety properties, for any number of cases, sessions and restarts and any ring |
| `RiskModelProofs!FloorKeepsBand`, `FloorKeepsOrder`, `EscalationKeepsBand`, `FilingHasABand` | what the escalation floors guarantee, whatever the scores of the dimensions |
| `ScreeningProofs!CasesAreTyped` | scores, qualities, confidences and shares stay in range, whatever was lost |
| `ScreeningProofs!EscalationsHold`, `FilingsAreNeverLow`, `ThinEvidenceIsNotTrusted` | `EscalationHolds`, `FilingIsNeverLow`, `ThinEvidenceIsLowConfidence`, for any customer, ledger, list and table |
| `ScreeningProofs!ReportsAgree` | `ReportAgrees`: a filed report does not contradict what it is filed with |
| `ScreeningProofs!CashIsMeasuredBySide` | `CashIsNotDiluted`, of every row anybody can type |
| `ScreeningProofs!TypedGridsAreAccepted` | whatever is typed into the grid, the API takes the cleaned ledger |

Every safety invariant and every action property of a passing run is the
statement of one of these theorems.

The arguments:

- *Server.* `TypeOK` is inductive. The refinement maps `status` to itself:
  `StepRefines` goes through the actions, and everything that writes a status is
  a `Create`, a `Move` or a `Delete`. `TerminalIsFinal` then follows from the
  abstract steps alone. `ErrorMeansOver` is not inductive: `MarkSubmitted` ends
  in an error when somebody moved the task it has just created, so `ErrorInv`
  adds what can have become of such a task - it is still SUBMITTED, over,
  deleted, or another request's.
- *Server, who answers.* `NoForgottenTask` says that a handler is in flight;
  that alone is not inductive, because a handler may be in flight and have nothing
  to say. `Owns(r, s)` is what is: request `r` has not started its runner yet, or
  was timed out, dropped or lost, or is draining and still *yields* an event the
  task may move to from `s`, queued or unpublished. `OwnedInv` gives every task
  under way an owner; the step lemma shows that whoever moves a task owns it and
  that an owner stops owning only by moving it on. It rests on
  `ScriptsSettleAssumption`: every executor of the repository says at some time
  what a SUBMITTED task may become, and something final or a pause after each
  WORKING. It may still raise or hang anywhere. `HandlerOK` is the part about one
  handler: its queue ends in the sentinel exactly if its runner has ended.
- *Server, artifacts.* The property counts, so `AccountInv` adds that each stored
  artifact is of a request that works on the task (`EmittersKnown`), and the lemmas
  about counting say what appending, dropping the first item and emptying do to a
  count.
- *Investigation.* `PausedIsComplete` relates the store to what the executor has
  published and the handler not stored yet, so `CaseInv` speaks of the queue as
  well: an artifact is *emitted* if it is queued or stored; a run emits each once
  and none ahead of its step (`EmittedOnce`); what it passed and did not count as
  failed it has emitted (`NothingLeftOut`), and what failed it has not
  (`FailedIsMissing`). The gate pauses only without failures, so at that moment
  every finding is emitted, and the pause is last in the queue (`PauseComesLast`);
  when the handler reaches it, the queue is empty and emitted is stored
  (`Paused`). The same argument makes a completion clean for the abstract step
  (`CompletionComesLast`). `DecisionShape` keeps that a decision acts on a case
  that was paused, with its audit entry before its report, and `HeldForReview`
  that a case with an alarm that went on without a pause lacks a finding.
  `QuietSweep` is a second, smaller invariant for deletions. The steps of a run
  fall into those that say a status, those that say nothing, and the few that
  touch artifacts; `SaysStatus` and `SaysNothing` carry the part common to all.
- *Clean completion.* `CompletedByRun` strengthens `CleanCompletion`: without a
  decision, COMPLETED can only be the last status of the opener, at whose
  persisting its queue is empty and so everything it emitted is filed; that it is
  filed once is `EmittedOnce`.
- *Case review.* `ReviewStep` goes through the steps that change status, artifacts
  or `Decided`; the invariant *after* the step gives a pause its findings.
- *Client.* `ClientInv` says that a call that may send has an attempt to spare,
  that its requests carry different numbers up to what it has sent, and that an
  in-process request is a local peer's that is on record. `WorkIsBounded` then
  is an injection from a call's requests into its attempts.
- *Audit.* `ChainIntact` needs `HolderIsCurrent`: whoever holds the lock has read
  the hash of what is still the newest row. `TamperEvident` is the harder half:
  once the log fails to verify, neither recording nor more tampering may make it
  whole. `ChainInv` keeps that hashes grow along the log (so a row fits in one
  place only) and that no row was linked to a forged hash (so a forged row that
  was rehashed breaks the link after it); each way of tampering then leaves an
  unsound row behind, by a lemma of its own.
- *Limiter.* `RateBounded` is carried by `BoundInv`, which adds the clients that
  have no bucket yet. For `RetryHonoured`, `PromiseInv` keeps, of an open
  promise, that what the bucket holds plus what comes in by the promised time is
  at least a token; a refusal in between moves the bucket's clock and keeps that
  sum. The division behind Retry-After enters through one lemma.
- *Risk.* The blend is `n \div d` rounded, with `d` one of four sums of weights
  (only transactions and fraud are ever left out). `EscalationKeepsBand` shows that
  raising a score into the upper part of a floor's band neither leaves that band
  nor reaches the next, and `FloorKeepsOrder` that two cases under one floor keep
  the order of their blends. `FilingHasABand`: a case that recommends a filing is
  never LOW.
- *Console.* `Inv` says, case by case, what every trace that is or will be put has
  in it: which of run, resume and stored state go together (`Turns`), that the
  trace has an error for every hop the task lost unless the case was decided
  before its run was done (`Losses`), and which hops it has by then (`Timeline`).
  A resume shares its trace with the ring, so each step that extends one is shown
  to extend the other. `ShownInv` carries that over to a fetched result, which
  nobody updates. `AgeInv`: of two contexts in the ring the later was put since
  the earlier, so the one that falls out has as many newer ones as the ring has
  other places and the one that comes in; an injection counts them.
- *Grid.* `GridInv` only needs the grid's type; the lemma is that a cleaned row
  satisfies the schema's validator.
- *Screening.* `CaseInv` says what the records of a case are: a role that had its
  turn and was not lost (`Answered`) left exactly what its tool finds in the
  profile and the ledger, any other the empty record (`FindingsAre`); the rating
  is `Assess` of those findings or none (`RatingIs`); a report is `Render` of both
  as the decision left them (`ReportIs`); an accepted ledger is a finite bag of
  rows (`InputsAre`). It is inductive, and the rest is about the operators. A
  finding is typed because a sum of naturals is one, a part is at most its whole
  and the maximum of a finite set is in it. For the escalations, the highest floor
  alone decides (`HighestFloorCounts`), and a listed party of any row is in the set
  that is screened, or has no name and matches nobody (`ListedPartiesAreFound`). A report
  agrees because each of its fields is one of the rating's, and a decision changes
  band, decision and filing only (`DecidedRating`). For `CashIsNotDiluted` a typed row leaves the rows of the other
  side and how often each occurs as they were (`OtherSideIsKept`), and the ratio
  is the larger of the two sides.

Sums, counts and maxima over sets of rows are folds, and the library's induction
theorems cannot be used. `RiskModelProofs` therefore derives what it needs from
the definitions: `SetInduction` is induction over the naturals for a *set* of
them, `SubsetInduction` the same for finite sets, and `FoldsExist` shows that the
choice behind a fold exists. From these follow `SumSplits`, `SumTakesOut`,
`SumsAgree`, `SumsCompare` and `SumOfNaturals`, and `MaxExists`, which everything
about the tools rests on.

The assumptions on the constants, which TLC evaluates on the instances:
`ScriptsSettleAssumption` (above); `DistinctAssumption` (the console's `Nothing`
is no trace and no set of cases); `LikenessAssumption` (the likeness of two tokens
is 0 to 1000 thousandths), `ListsAssumption` (the lists of names are finite, of
names made of those tokens), `IndustryAssumption` (an industry's risk is 0 to 100),
`CountriesAssumption` (the blank country is not blocked), `ProfilesAssumption`,
`CellsAssumption` and `LedgersAssumption` (a profile has the schema's fields; the
grid has finitely many kinds of row); and those that size the models.

`ErrorInv`, `OwnedInv`, `AccountInv`, `CaseInv` (both), `CompletedByRun`,
`QuietSweep`, `Inv`, `ShownInv`, `AgeInv`, `ClientInv`, `ChainInv`, `BoundInv` and
`PromiseInv` were checked with TLC before they were proved.

## Limits

Only model-checked: liveness (`TaskSettles`, `CallAnswered`, `CallsEnd`), which
needs fairness and ENABLED and is beyond the prover. What a fold returns on given
rows, as against the bounds and the comparisons proved of it, is seen on TLC's
instance and nowhere else.

Not modelled:

- Cards and signatures, tokens and roles, validation: stateless predicates in
  front of a handler. A request they refuse reaches no modelled code.
- How alike two tokens are (Jaro-Winkler) and how a country or an indicator is
  found in a text: `Likeness` and the sets of countries stand for the results.
- The narrative of a report, its methodology text and its price list; an external
  model that fails falls back to a template with the same facts.
- Metrics and logs, which nothing reads back; the evaluation bench, which runs
  the agents offline one after the other; layout, charts and samples of the UI.
- `stream_message` of the client, which retries nothing, touches no shared state
  and has no caller in the application; the read-only repository; wiring.
- Several server processes: the locks, the ring and the buckets are one process's.

Not stated: `_buckets` and the agents' stores grow without bound, and the code
says nothing against it. The review queue's 200 rows are a matter of case load.

## Plan

Done, in this order: the lifecycle and the server, the investigation that drives
it, the audit log, the limiter, the client; then the trace ring and the console,
the tools, the rating, the report and the case that goes through them, the
abstract case review and the proofs about an investigation.

Then the theorems: the server's answers and artifacts, clean completions, the
console, and the whole of `Screening`.

Left, the most useful first:

1. An abstract specification of what a reader of the console is promised, with
   `CaseConsole` as its implementation, as `CaseReview` is for the case itself.
2. The liveness of a case - every accepted decision is answered - which needs the
   time-outs of client and server in one module.
3. Roles and tokens (`rbac`, `jwt_auth`) and the evaluation metrics, as operators.
