------------------------------ MODULE A2AClient ------------------------------
(***************************************************************************)
(* The A2A client one agent calls its peers with (app/a2a/client.py):      *)
(* _request_with_retry and the in-process fail-over, over calls that share *)
(* one client, as the orchestrator's investigations do.                    *)
(*                                                                         *)
(* A call is one JSON-RPC request or one card fetch; each of its attempts  *)
(* may fail to connect, be answered, or be lost with the request still on  *)
(* its way or already handled.  stream_message and aclose share no state   *)
(* with the calls and retry nothing; the delays are left out.              *)
(***************************************************************************)
EXTENDS Naturals, FiniteSets

CONSTANTS
  Calls,         \* calls made through the client
  Peers,         \* origins of peers
  Local,         \* those on one of _LOOPBACK_HOSTS
  HasLoopback,   \* set_loopback was called
  MaxAttempts,   \* max_attempts
  None           \* no peer

ASSUME LocalAssumption == Local \subseteq Peers
ASSUME NoneAssumption == None \notin Peers \cup { "socket", "loopback" }
ASSUME HasLoopbackAssumption == HasLoopback \in BOOLEAN
ASSUME AttemptsAssumption == MaxAttempts \in Nat \ {0}

VARIABLES
  loopback_origins,  \* the peers that are served in-process from now on
  pc,                \* where each call stands
  peer,              \* the peer it calls
  attempt,           \* the attempt it is at
  sent,              \* the requests it has sent
  wire,              \* requests no server has handled yet
  handled,           \* requests a server handled
  settled,           \* calls the peer gave a final answer, good or bad
  label              \* what the caller is told of the transport of a good one

calling == << pc, peer, attempt >>
network == << sent, wire, handled >>
vars == << loopback_origins, calling, network, settled, label >>

\* A request: whose, the number it was sent as, and how.
Via     == { "socket", "loopback" }
Request == [call : Calls, nth : 1 .. MaxAttempts, via : Via]

Ended == { "done", "failed" }
Step  == { "idle", "connecting", "waiting", "backoff", "inprocess" } \cup Ended

TypeOK ==
  /\ loopback_origins \subseteq Peers
  /\ pc \in [Calls -> Step]
  /\ peer \in [Calls -> Peers \cup { None }]
  /\ \A c \in Calls : peer[c] = None <=> pc[c] = "idle"
  /\ attempt \in [Calls -> 1 .. MaxAttempts]
  /\ sent \in [Calls -> 0 .. MaxAttempts]
  /\ wire \subseteq Request
  /\ handled \subseteq Request
  /\ settled \subseteq Calls
  /\ label \in [Calls -> Via \cup { None }]

Init ==
  /\ loopback_origins = {}
  /\ pc = [c \in Calls |-> "idle"]
  /\ peer = [c \in Calls |-> None]
  /\ attempt = [c \in Calls |-> 1]
  /\ sent = [c \in Calls |-> 0]
  /\ wire = {}
  /\ handled = {}
  /\ settled = {}
  /\ label = [c \in Calls |-> None]

-----------------------------------------------------------------------------
\* A fail-over for every peer, wherever it runs.
MutCanLoopback(p) == HasLoopback

CanLoopback(p) == HasLoopback /\ p \in Local

Go(c, step) == pc' = [pc EXCEPT ![c] = step]

\* c's next request leaves.
Send(c, via) ==
  /\ sent' = [sent EXCEPT ![c] = @ + 1]
  /\ wire' = wire \cup { [call |-> c, nth |-> sent[c] + 1, via |-> via] }

\* The request c is waiting for the answer of.
Latest(c) == { q \in Request : q.call = c /\ q.nth = sent[c] }

\* A call starts in-process when its peer has failed over before.
Start(c, p) ==
  /\ pc[c] = "idle"
  /\ peer' = [peer EXCEPT ![c] = p]
  /\ IF CanLoopback(p) /\ p \in loopback_origins
       THEN Send(c, "loopback") /\ Go(c, "inprocess")
       ELSE Go(c, "connecting") /\ UNCHANGED << sent, wire >>
  /\ UNCHANGED << loopback_origins, attempt, handled, settled, label >>

\* The connection is made and the request sent over it.
Connect(c) ==
  /\ pc[c] = "connecting"
  /\ Send(c, "socket")
  /\ Go(c, "waiting")
  /\ UNCHANGED << loopback_origins, peer, attempt, handled, settled, label >>

\* A delay after every attempt, the last one too.
MutRetryOnceMore(c) ==
  IF attempt[c] > MaxAttempts THEN Go(c, "failed") ELSE Go(c, "backoff")

\* The last attempt is the end of the call, any other is followed by a delay.
Retry(c) ==
  IF attempt[c] = MaxAttempts THEN Go(c, "failed") ELSE Go(c, "backoff")

\* A fail-over nobody hears of.
MutFailOverSilently(c) ==
  /\ pc[c] = "connecting"
  /\ CanLoopback(peer[c])
  /\ Send(c, "loopback")
  /\ Go(c, "inprocess")
  /\ UNCHANGED << loopback_origins, peer, attempt, handled, settled, label >>

\* A local peer that cannot be connected to is served in-process, for good.
FailOver(c) ==
  /\ pc[c] = "connecting"
  /\ CanLoopback(peer[c])
  /\ loopback_origins' = loopback_origins \cup { peer[c] }
  /\ Send(c, "loopback")
  /\ Go(c, "inprocess")
  /\ UNCHANGED << peer, attempt, handled, settled, label >>

\* Any other that cannot be connected to is tried again.
ConnectFails(c) ==
  /\ pc[c] = "connecting"
  /\ ~CanLoopback(peer[c])
  /\ Retry(c)
  /\ UNCHANGED << loopback_origins, peer, attempt, network, settled, label >>

\* A loop that counts no attempts.
MutBackOffForever(c) ==
  /\ pc[c] = "backoff"
  /\ Go(c, "connecting")
  /\ UNCHANGED << loopback_origins, peer, attempt, network, settled, label >>

BackOff(c) ==
  /\ pc[c] = "backoff"
  /\ attempt' = [attempt EXCEPT ![c] = @ + 1]
  /\ Go(c, "connecting")
  /\ UNCHANGED << loopback_origins, peer, network, settled, label >>

\* A server handles a request, be it long after its caller gave it up.
Handle(q) ==
  /\ q \in wire
  /\ wire' = wire \ { q }
  /\ handled' = handled \cup { q }
  /\ UNCHANGED << loopback_origins, calling, sent, settled, label >>

\* A server turns c's request down before its handler: it is not handled.
TurnDown(c) == wire' = wire \ Latest(c) /\ UNCHANGED << sent, handled >>

-----------------------------------------------------------------------------
(* How an attempt ends once its request was sent.                          *)

\* 200 with a result.  Who made the call then labels the hop by what has
\* become of the peer's origin.
Succeed(c) ==
  /\ pc[c] \in { "waiting", "inprocess" }
  /\ Latest(c) \cap handled # {}
  /\ settled' = settled \cup { c }
  /\ label' = [label EXCEPT ![c] =
                 IF peer[c] \in loopback_origins THEN "loopback" ELSE "socket"]
  /\ Go(c, "done")
  /\ UNCHANGED << loopback_origins, peer, attempt, network >>

\* A refusal that is tried again.
MutRefuseRetries(c) ==
  /\ pc[c] \in { "waiting", "inprocess" }
  /\ TurnDown(c) \/ UNCHANGED network
  /\ settled' = settled \cup { c }
  /\ IF pc[c] = "waiting" THEN Retry(c) ELSE Go(c, "failed")
  /\ UNCHANGED << loopback_origins, peer, attempt, label >>

\* 200 with a JSON-RPC error or a card that fails its signature check, or a 4xx
\* other than 429.
Refuse(c) ==
  /\ pc[c] \in { "waiting", "inprocess" }
  /\ TurnDown(c) \/ UNCHANGED network
  /\ settled' = settled \cup { c }
  /\ Go(c, "failed")
  /\ UNCHANGED << loopback_origins, peer, attempt, label >>

\* A fail-over on any network error.
MutTryAgainInProcess(c) ==
  /\ pc[c] = "waiting"
  /\ IF CanLoopback(peer[c])
       THEN /\ loopback_origins' = loopback_origins \cup { peer[c] }
            /\ Send(c, "loopback")
            /\ Go(c, "inprocess")
       ELSE Retry(c) /\ UNCHANGED << loopback_origins, sent, wire >>
  /\ UNCHANGED << peer, attempt, handled, settled, label >>

\* A 429, a 5xx, a time-out or a broken connection: try again, with the
\* request turned down, lost, on its way or handled.
TryAgain(c) ==
  /\ pc[c] = "waiting"
  /\ TurnDown(c) \/ UNCHANGED network
  /\ Retry(c)
  /\ UNCHANGED << loopback_origins, peer, attempt, settled, label >>

\* In-process, a 429, a 5xx or a network error ends the call at once.
FailInProcess(c) ==
  /\ pc[c] = "inprocess"
  /\ TurnDown(c) \/ UNCHANGED network
  /\ Go(c, "failed")
  /\ UNCHANGED << loopback_origins, peer, attempt, settled, label >>

-----------------------------------------------------------------------------
CallStep(c) ==
  \/ Connect(c) \/ FailOver(c) \/ ConnectFails(c) \/ BackOff(c)
  \/ Succeed(c) \/ Refuse(c) \/ TryAgain(c) \/ FailInProcess(c)

Next ==
  \/ \E c \in Calls, p \in Peers : Start(c, p)
  \/ \E c \in Calls : CallStep(c)
  \/ \E q \in wire : Handle(q)

Spec == Init /\ [][Next]_vars

\* Connecting, waiting and sleeping are timed, so each ends; in-process, the
\* server's own time-out answers (A2AServer, CallAnswered).
FairSpec == Spec /\ \A c \in Calls : WF_vars(CallStep(c))

-----------------------------------------------------------------------------
(* Properties.                                                             *)

HandledOf(c) == { q \in handled : q.call = c }

\* max_attempts bounds what one call can set going at a peer: however its
\* attempts fail and whether or not it fails over on the way, no more tasks
\* than attempts come of it, those its peer takes up late included.
WorkIsBounded ==
  \A c \in Calls : Cardinality({ q \in handled \cup wire : q.call = c }) <= attempt[c]

\* "A2A application errors are NOT retried": once the peer has given an answer
\* that a retry would not change, the call sends nothing more.
AnswersAreFinal ==
  [][\A c \in settled : sent'[c] = sent[c] /\ pc[c] \in Ended]_vars

\* "Remote peers are untouched - a real outage must still degrade loudly": no
\* request meant for a remote peer is ever handled by this process instead,
\* so a call that succeeded was handled where it was sent.
RemotePeersAnswerThemselves ==
  /\ \A q \in handled : q.via = "loopback" => peer[q.call] \in Local
  /\ \A c \in Calls : pc[c] = "done" => HandledOf(c) # {}

\* "The fallback is reported, never silent" (test_agents.py): the trace never
\* says socket of a hop that was served in-process.
FallbackIsReported ==
  \A c \in Calls :
    label[c] = "socket" => \A q \in HandledOf(c) : q.via = "socket"

\* The inductive invariant behind the four: a call has sent at most a request
\* an attempt, each under a number of its own; only a local peer's, and one
\* recorded as failed over, went in-process.
Requests == wire \cup handled

SendsArePaced ==
  \A c \in Calls :
    /\ sent[c] <= attempt[c]
    /\ pc[c] \in { "idle", "connecting" } => sent[c] < attempt[c]
    /\ pc[c] = "backoff" => attempt[c] < MaxAttempts

RequestsAreNumbered ==
  /\ \A q \in Requests : q.nth <= sent[q.call]
  /\ \A q, s \in Requests : q.call = s.call /\ q.nth = s.nth => q = s

InProcessIsLocal ==
  \A q \in Requests :
    q.via = "loopback" => peer[q.call] \in Local \cap loopback_origins

SocketIsSocket ==
  \A c \in Calls :
    label[c] = "socket" =>
      /\ pc[c] \in Ended
      /\ \A q \in Requests : q.call = c => q.via = "socket"

EndsAreKnown ==
  \A c \in Calls :
    /\ pc[c] = "idle" => sent[c] = 0
    /\ c \in settled => pc[c] \in Ended
    /\ pc[c] = "done" => HandledOf(c) # {}

ClientInv ==
  /\ TypeOK
  /\ SendsArePaced
  /\ RequestsAreNumbered
  /\ InProcessIsLocal
  /\ SocketIsSocket
  /\ EndsAreKnown

\* Every call ends, with its result or with an error.
CallsEnd == \A c \in Calls : pc[c] # "idle" ~> pc[c] \in Ended
=============================================================================
