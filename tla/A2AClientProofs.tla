--------------------------- MODULE A2AClientProofs ---------------------------
(***************************************************************************)
(* Proofs about A2AClient, for any calls, peers and number of attempts:    *)
(* the work a call sets going is bounded, remote peers answer for          *)
(* themselves, a fail-over is reported, and a final answer is the last.    *)
(***************************************************************************)
EXTENDS A2AClient, FunctionTheorems, FiniteSetTheorems, TLAPS

\* A call that may send has an attempt to spare, and numbers its request anew.
LEMMA SendFacts ==
  ASSUME ClientInv, NEW c \in Calls, pc[c] \in { "idle", "connecting" },
         NEW via \in Via, Send(c, via), handled' = handled
  PROVE  /\ sent' \in [Calls -> 0 .. MaxAttempts]
         /\ sent'[c] = sent[c] + 1 /\ sent'[c] <= attempt[c]
         /\ \A d \in Calls \ { c } : sent'[d] = sent[d]
         /\ wire' \subseteq Request
         /\ \A q \in Requests' : \/ q \in Requests
                                 \/ q.call = c /\ q.via = via
         /\ RequestsAreNumbered'
<1> DEFINE new == [call |-> c, nth |-> sent[c] + 1, via |-> via]
<1>1. /\ sent[c] \in Nat /\ attempt[c] \in 1 .. MaxAttempts
      /\ sent[c] + 1 <= attempt[c]
  BY DEF ClientInv, TypeOK, SendsArePaced
<1>2. /\ sent' \in [Calls -> 0 .. MaxAttempts]
      /\ sent'[c] = sent[c] + 1
      /\ \A d \in Calls \ { c } : sent'[d] = sent[d]
  BY <1>1, AttemptsAssumption DEF Send, ClientInv, TypeOK
<1>3. new \in Request
  BY <1>1, AttemptsAssumption DEF Request
<1>4. wire' = wire \cup { new } /\ Requests' = Requests \cup { new }
  BY DEF Send, Requests
<1>5. \A q \in Requests : q.call \in Calls /\ q.nth \in Nat /\ q \in Request
  BY DEF Requests, ClientInv, TypeOK, Request
<1>6. RequestsAreNumbered'
  <2>1. ASSUME NEW q \in Requests' PROVE q.nth <= sent'[q.call]
    BY <1>1, <1>2, <1>4, <1>5, <2>1 DEF ClientInv, TypeOK, RequestsAreNumbered
  <2>2. ASSUME NEW q \in Requests', NEW s \in Requests',
               q.call = s.call, q.nth = s.nth
        PROVE  q = s
    BY <1>1, <1>4, <1>5, <2>2 DEF ClientInv, RequestsAreNumbered
  <2>3. QED
    BY <2>1, <2>2 DEF RequestsAreNumbered
<1>7. QED
  BY <1>1, <1>2, <1>3, <1>4, <1>6 DEF ClientInv, TypeOK

\* A server that handles a request, or turns it down, numbers none.
LEMMA NumbersStay ==
  ASSUME ClientInv, sent' = sent, Requests' \subseteq Requests
  PROVE  RequestsAreNumbered'
BY DEF ClientInv, RequestsAreNumbered

\* A request sent in-process is still a local, recorded peer's, if no call
\* under way changes its peer.
LEMMA InProcessStays ==
  ASSUME ClientInv, peer' = peer, Requests' \subseteq Requests,
         loopback_origins \subseteq loopback_origins'
  PROVE  InProcessIsLocal'
BY DEF ClientInv, InProcessIsLocal

\* What a call's own step that sends nothing leaves behind.
LEMMA QuietStep ==
  ASSUME ClientInv, NEW c \in Calls,
         TurnDown(c) \/ UNCHANGED network
  PROVE  /\ sent' = sent /\ handled' = handled
         /\ wire' \subseteq wire /\ Requests' \subseteq Requests
BY DEF TurnDown, network, Requests

-----------------------------------------------------------------------------
LEMMA ClientInit == Init => ClientInv
BY AttemptsAssumption, NoneAssumption
   DEF Init, ClientInv, TypeOK, SendsArePaced, RequestsAreNumbered,
       InProcessIsLocal, SocketIsSocket, EndsAreKnown, Requests, Step, Ended

LEMMA StartStep ==
  ASSUME ClientInv, NEW c \in Calls, NEW p \in Peers, Start(c, p)
  PROVE  ClientInv'
<1>1. /\ peer' \in [Calls -> Peers \cup { None }] /\ peer'[c] = p /\ p # None
      /\ \A d \in Calls \ { c } : peer'[d] = peer[d] /\ pc'[d] = pc[d]
      /\ loopback_origins' = loopback_origins /\ attempt' = attempt
      /\ handled' = handled /\ settled' = settled /\ label' = label
  BY NoneAssumption DEF Start, Go, ClientInv, TypeOK
<1>2. /\ pc[c] = "idle" /\ sent[c] = 0 /\ c \notin settled
      /\ \A q \in Requests : q.call # c
  <2>1. pc[c] = "idle" /\ sent[c] = 0 /\ c \notin settled
    BY DEF Start, ClientInv, EndsAreKnown, Ended
  <2>2. ASSUME NEW q \in Requests PROVE q.call # c
    BY <2>1 DEF ClientInv, TypeOK, Requests, Request, RequestsAreNumbered
  <2>3. QED
    BY <2>1, <2>2
<1>3. CASE CanLoopback(p) /\ p \in loopback_origins
  <2>1. Send(c, "loopback") /\ Go(c, "inprocess")
    BY <1>3 DEF Start
  <2>2. pc' \in [Calls -> Step] /\ pc'[c] = "inprocess"
    BY <2>1 DEF Go, ClientInv, TypeOK, Step
  <2>3. /\ sent' \in [Calls -> 0 .. MaxAttempts]
        /\ sent'[c] = sent[c] + 1 /\ sent'[c] <= attempt[c]
        /\ \A d \in Calls \ { c } : sent'[d] = sent[d]
        /\ wire' \subseteq Request
        /\ \A q \in Requests' : \/ q \in Requests
                                \/ q.call = c /\ q.via = "loopback"
        /\ RequestsAreNumbered'
    BY <1>1, <1>2, <2>1, SendFacts DEF Via
  <2>4. TypeOK'
    BY <1>1, <2>2, <2>3 DEF ClientInv, TypeOK
  <2>5. SendsArePaced'
    BY <1>1, <2>2, <2>3 DEF ClientInv, SendsArePaced
  <2>6. InProcessIsLocal'
    BY <1>1, <1>2, <1>3, <2>3 DEF ClientInv, InProcessIsLocal, CanLoopback, Requests, TypeOK, Request
  <2>7. SocketIsSocket' /\ EndsAreKnown'
    BY <1>1, <1>2, <2>2, <2>3 DEF ClientInv, SocketIsSocket, EndsAreKnown, HandledOf, Ended
  <2>8. QED
    BY <2>3, <2>4, <2>5, <2>6, <2>7 DEF ClientInv
<1>4. CASE ~ (CanLoopback(p) /\ p \in loopback_origins)
  <2>1. Go(c, "connecting") /\ sent' = sent /\ wire' = wire
    BY <1>4 DEF Start
  <2>2. pc' \in [Calls -> Step] /\ pc'[c] = "connecting" /\ Requests' = Requests
    BY <1>1, <2>1 DEF Go, ClientInv, TypeOK, Step, Requests
  <2>3. TypeOK'
    BY <1>1, <2>1, <2>2 DEF ClientInv, TypeOK
  <2>4. SendsArePaced' /\ RequestsAreNumbered'
    BY <1>1, <1>2, <2>1, <2>2, NumbersStay DEF ClientInv, SendsArePaced
  <2>5. InProcessIsLocal'
    BY <1>1, <1>2, <2>2 DEF ClientInv, InProcessIsLocal, Requests, TypeOK, Request
  <2>6. SocketIsSocket' /\ EndsAreKnown'
    BY <1>1, <1>2, <2>1, <2>2 DEF ClientInv, SocketIsSocket, EndsAreKnown, HandledOf, Ended
  <2>7. QED
    BY <2>3, <2>4, <2>5, <2>6 DEF ClientInv
<1>5. QED
  BY <1>3, <1>4

LEMMA ConnectStep ==
  ASSUME ClientInv, NEW c \in Calls, Connect(c) \/ FailOver(c)
  PROVE  ClientInv'
<1>1. PICK via \in Via :
        /\ Send(c, via)
        /\ via = "loopback" => peer[c] \in Local \cap loopback_origins'
  BY DEF Connect, FailOver, Via, ClientInv, TypeOK, CanLoopback
<1>2. /\ pc[c] = "connecting" /\ peer' = peer /\ attempt' = attempt
      /\ handled' = handled /\ settled' = settled /\ label' = label
      /\ loopback_origins \subseteq loopback_origins'
      /\ loopback_origins' \subseteq loopback_origins \cup { peer[c] }
      /\ pc' = [pc EXCEPT ![c] = "waiting"] \/ pc' = [pc EXCEPT ![c] = "inprocess"]
  BY DEF Connect, FailOver, Go
<1>3. /\ pc' \in [Calls -> Step] /\ pc'[c] \in { "waiting", "inprocess" }
      /\ \A d \in Calls \ { c } : pc'[d] = pc[d]
      /\ loopback_origins' \subseteq Peers
  BY <1>2 DEF ClientInv, TypeOK, Step
<1>4. /\ sent' \in [Calls -> 0 .. MaxAttempts]
      /\ sent'[c] = sent[c] + 1 /\ sent'[c] <= attempt[c]
      /\ \A d \in Calls \ { c } : sent'[d] = sent[d]
      /\ wire' \subseteq Request
      /\ \A q \in Requests' : q \in Requests \/ (q.call = c /\ q.via = via)
      /\ RequestsAreNumbered'
  BY <1>1, <1>2, SendFacts
<1>5. TypeOK'
  BY <1>2, <1>3, <1>4 DEF ClientInv, TypeOK
<1>6. SendsArePaced'
  BY <1>2, <1>3, <1>4 DEF ClientInv, SendsArePaced
<1>7. InProcessIsLocal'
  BY <1>1, <1>2, <1>4 DEF ClientInv, InProcessIsLocal
<1>8. SocketIsSocket' /\ EndsAreKnown'
  BY <1>2, <1>3, <1>4 DEF ClientInv, SocketIsSocket, EndsAreKnown, HandledOf, Ended
<1>9. QED
  BY <1>4, <1>5, <1>6, <1>7, <1>8 DEF ClientInv

\* An attempt that did not succeed: the call goes on to the next, or ends.
LEMMA AttemptFails ==
  ASSUME ClientInv, NEW c \in Calls,
         pc[c] \in { "connecting", "waiting", "inprocess" },
         TurnDown(c) \/ UNCHANGED network,
         UNCHANGED << loopback_origins, peer, attempt, label >>,
         \/ (Retry(c) \/ Go(c, "failed")) /\ settled' = settled
         \/ Go(c, "failed") /\ settled' = settled \cup { c }
  PROVE  ClientInv'
<1>1. /\ sent' = sent /\ handled' = handled
      /\ wire' \subseteq wire /\ Requests' \subseteq Requests
  BY QuietStep
<1>2. \/ pc' = [pc EXCEPT ![c] = "failed"]
      \/ pc' = [pc EXCEPT ![c] = "backoff"] /\ attempt[c] # MaxAttempts
         /\ settled' = settled
  BY DEF Retry, Go
<1>3. /\ pc' \in [Calls -> Step] /\ pc'[c] \in { "failed", "backoff" }
      /\ pc'[c] = "backoff" => attempt[c] < MaxAttempts
      /\ \A d \in Calls \ { c } : pc'[d] = pc[d]
      /\ settled' \subseteq settled \cup { c }
      /\ pc'[c] = "backoff" => settled' = settled
  BY <1>2, AttemptsAssumption DEF ClientInv, TypeOK, Step, Ended
<1>4. TypeOK'
  BY <1>1, <1>3 DEF ClientInv, TypeOK
<1>5. SendsArePaced' /\ RequestsAreNumbered' /\ InProcessIsLocal'
  BY <1>1, <1>3, NumbersStay, InProcessStays DEF ClientInv, SendsArePaced
<1>6. SocketIsSocket' /\ EndsAreKnown'
  BY <1>1, <1>3 DEF ClientInv, SocketIsSocket, EndsAreKnown, HandledOf, Ended
<1>7. QED
  BY <1>4, <1>5, <1>6 DEF ClientInv

LEMMA BackOffStep ==
  ASSUME ClientInv, NEW c \in Calls, BackOff(c)
  PROVE  ClientInv'
<1>1. /\ pc' \in [Calls -> Step] /\ pc[c] = "backoff" /\ pc'[c] = "connecting"
      /\ \A d \in Calls \ { c } : pc'[d] = pc[d] /\ attempt'[d] = attempt[d]
      /\ attempt' \in [Calls -> 1 .. MaxAttempts] /\ attempt'[c] = attempt[c] + 1
      /\ UNCHANGED << loopback_origins, peer, network, settled, label >>
  BY AttemptsAssumption DEF BackOff, Go, ClientInv, TypeOK, SendsArePaced, Step
<1>2. Requests' = Requests /\ sent' = sent
  BY <1>1 DEF network, Requests
<1>3. TypeOK'
  BY <1>1 DEF ClientInv, TypeOK, network
<1>4. SendsArePaced' /\ RequestsAreNumbered' /\ InProcessIsLocal'
  BY <1>1, <1>2, <1>3, NumbersStay, InProcessStays DEF ClientInv, SendsArePaced, TypeOK
<1>5. SocketIsSocket' /\ EndsAreKnown'
  BY <1>1, <1>2 DEF ClientInv, SocketIsSocket, EndsAreKnown, HandledOf, Ended, network
<1>6. QED
  BY <1>3, <1>4, <1>5 DEF ClientInv

LEMMA SucceedStep ==
  ASSUME ClientInv, NEW c \in Calls, Succeed(c)
  PROVE  ClientInv'
<1>1. /\ pc' \in [Calls -> Step] /\ pc[c] # "idle" /\ pc'[c] = "done"
      /\ \A d \in Calls \ { c } : pc'[d] = pc[d] /\ label'[d] = label[d]
      /\ label' \in [Calls -> Via \cup { None }]
      /\ label'[c] = "socket" => peer[c] \notin loopback_origins
      /\ settled' = settled \cup { c }
      /\ UNCHANGED << loopback_origins, peer, attempt, network >>
  BY DEF Succeed, Go, ClientInv, TypeOK, Step, Ended, Via
<1>2. /\ Requests' = Requests /\ sent' = sent /\ HandledOf(c)' = HandledOf(c)
      /\ \A d \in Calls : HandledOf(d)' = HandledOf(d)
  BY <1>1 DEF network, Requests, HandledOf
<1>3. HandledOf(c) # {}
  BY DEF Succeed, Latest, HandledOf
<1>4. TypeOK'
  BY <1>1 DEF ClientInv, TypeOK, network
<1>5. SendsArePaced' /\ RequestsAreNumbered' /\ InProcessIsLocal'
  BY <1>1, <1>2, NumbersStay, InProcessStays DEF ClientInv, SendsArePaced
<1>6. SocketIsSocket'
  <2>1. \A q \in Requests : q.via \in Via
    BY DEF ClientInv, TypeOK, Requests, Request
  <2>2. QED
    BY <1>1, <1>2, <2>1 DEF ClientInv, SocketIsSocket, InProcessIsLocal, Ended, Via
<1>7. EndsAreKnown'
  BY <1>1, <1>2, <1>3 DEF ClientInv, EndsAreKnown, Ended
<1>8. QED
  BY <1>4, <1>5, <1>6, <1>7 DEF ClientInv

LEMMA HandleStep ==
  ASSUME ClientInv, NEW q \in wire, Handle(q)
  PROVE  ClientInv'
<1>1. /\ UNCHANGED << loopback_origins, pc, peer, attempt, sent, settled, label >>
      /\ wire' \subseteq Request /\ handled' \subseteq Request
      /\ handled \subseteq handled' /\ Requests' = Requests
  BY DEF Handle, calling, Requests, ClientInv, TypeOK
<1>2. TypeOK'
  BY <1>1 DEF ClientInv, TypeOK
<1>3. SendsArePaced' /\ RequestsAreNumbered' /\ InProcessIsLocal'
  BY <1>1, NumbersStay, InProcessStays DEF ClientInv, SendsArePaced
<1>4. SocketIsSocket' /\ EndsAreKnown'
  BY <1>1 DEF ClientInv, SocketIsSocket, EndsAreKnown, HandledOf
<1>5. QED
  BY <1>2, <1>3, <1>4 DEF ClientInv

LEMMA ClientStep == ClientInv /\ [Next]_vars => ClientInv'
<1> SUFFICES ASSUME ClientInv, [Next]_vars PROVE ClientInv'
  OBVIOUS
<1>1. ASSUME NEW c \in Calls, NEW p \in Peers, Start(c, p) PROVE ClientInv'
  BY <1>1, StartStep
<1>2. ASSUME NEW c \in Calls, CallStep(c) PROVE ClientInv'
  <2>1. CASE Connect(c) \/ FailOver(c)
    BY <2>1, ConnectStep
  <2>2. CASE ConnectFails(c)
    BY <2>2, AttemptFails DEF ConnectFails
  <2>3. CASE BackOff(c)
    BY <2>3, BackOffStep
  <2>4. CASE Succeed(c)
    BY <2>4, SucceedStep
  <2>5. CASE Refuse(c)
    BY <2>5, AttemptFails DEF Refuse
  <2>6. CASE TryAgain(c)
    BY <2>6, AttemptFails DEF TryAgain
  <2>7. CASE FailInProcess(c)
    BY <2>7, AttemptFails DEF FailInProcess
  <2>8. QED
    BY <1>2, <2>1, <2>2, <2>3, <2>4, <2>5, <2>6, <2>7 DEF CallStep
<1>3. ASSUME NEW q \in wire, Handle(q) PROVE ClientInv'
  BY <1>3, HandleStep
<1>4. CASE UNCHANGED vars
  BY <1>4 DEF vars, calling, network, ClientInv, TypeOK, SendsArePaced,
              RequestsAreNumbered, InProcessIsLocal, SocketIsSocket,
              EndsAreKnown, Requests, HandledOf
<1>5. QED
  BY <1>1, <1>2, <1>3, <1>4 DEF Next

LEMMA ClientInvHolds == Spec => []ClientInv
BY ClientInit, ClientStep, PTL DEF Spec

-----------------------------------------------------------------------------
\* The client's state is well-formed for any calls, peers and attempts.
THEOREM TypeCorrect == Spec => []TypeOK
<1>1. ClientInv => TypeOK
  BY DEF ClientInv
<1>2. QED
  BY <1>1, ClientInvHolds, PTL

\* However its attempts fail, a call sets no more tasks going than it has made
\* attempts: its requests are numbered, and there is a number an attempt.
THEOREM WorkStaysBounded == Spec => []WorkIsBounded
<1>1. ClientInv => WorkIsBounded
  <2> SUFFICES ASSUME ClientInv, NEW c \in Calls
               PROVE  Cardinality({ q \in handled \cup wire : q.call = c })
                        <= attempt[c]
    BY DEF WorkIsBounded
  <2> DEFINE mine == { q \in handled \cup wire : q.call = c }
             nth  == [q \in mine |-> q.nth]
  <2>1. /\ attempt[c] \in Nat
        /\ \A q \in mine : q \in Requests /\ q.nth \in 1 .. attempt[c]
    BY DEF ClientInv, TypeOK, SendsArePaced, RequestsAreNumbered, Requests, Request
  <2>2. nth \in Injection(mine, 1 .. attempt[c])
    BY <2>1 DEF ClientInv, RequestsAreNumbered, Injection, IsInjective
  <2>3. IsFiniteSet(1 .. attempt[c]) /\ Cardinality(1 .. attempt[c]) = attempt[c]
    <3> DEFINE n == attempt[c]
    <3> HIDE DEF n
    <3>1. 1 \in Int /\ n \in Nat
      BY <2>1 DEF n
    <3>2. IsFiniteSet(1 .. n) /\ Cardinality(1 .. n) = IF 1 > n THEN 0 ELSE n - 1 + 1
      BY <3>1, FS_Interval
    <3>3. (IF 1 > n THEN 0 ELSE n - 1 + 1) = n
      BY <3>1
    <3>4. QED
      BY <3>2, <3>3 DEF n
  <2>4. QED
    BY <2>2, <2>3, FS_Injection
<1>2. QED
  BY <1>1, ClientInvHolds, PTL

\* No request meant for a remote peer is served by this process, and a call
\* that succeeded was handled.
THEOREM RemotePeersDo == Spec => []RemotePeersAnswerThemselves
<1>1. ClientInv => RemotePeersAnswerThemselves
  BY DEF ClientInv, RemotePeersAnswerThemselves, InProcessIsLocal, EndsAreKnown, Requests
<1>2. QED
  BY <1>1, ClientInvHolds, PTL

\* A hop served in-process is never said to have gone over a socket.
THEOREM FallbacksAreReported == Spec => []FallbackIsReported
<1>1. ClientInv => FallbackIsReported
  BY DEF ClientInv, FallbackIsReported, SocketIsSocket, HandledOf, Requests
<1>2. QED
  BY <1>1, ClientInvHolds, PTL

\* A call the peer has answered for good is over and sends nothing more.
THEOREM NoRetryAfterAnAnswer == Spec => AnswersAreFinal
<1>1. ClientInv /\ [Next]_vars =>
        [\A c \in settled : sent'[c] = sent[c] /\ pc[c] \in Ended]_vars
  <2> SUFFICES ASSUME ClientInv, Next, NEW c \in settled
               PROVE  sent'[c] = sent[c] /\ pc[c] \in Ended
    OBVIOUS
  <2>1. c \in Calls /\ pc[c] \in Ended
    BY DEF ClientInv, TypeOK, EndsAreKnown
  <2>2. ASSUME NEW d \in Calls, pc[d] \in { "idle", "connecting" }, NEW via \in Via,
               Send(d, via)
        PROVE  sent'[c] = sent[c]
    BY <2>1, <2>2 DEF Send, ClientInv, TypeOK, Ended
  <2>3. ASSUME NEW d \in Calls, NEW p \in Peers, Start(d, p)
        PROVE  sent'[c] = sent[c]
    BY <2>2, <2>3 DEF Start, Via
  <2>4. ASSUME NEW d \in Calls, CallStep(d)
        PROVE  sent'[c] = sent[c]
    BY <2>2, <2>4, QuietStep
       DEF CallStep, Connect, FailOver, ConnectFails, BackOff, Succeed, Refuse,
           TryAgain, FailInProcess, network, Via
  <2>5. ASSUME NEW q \in wire, Handle(q)
        PROVE  sent'[c] = sent[c]
    BY <2>5 DEF Handle
  <2>6. QED
    BY <2>1, <2>3, <2>4, <2>5 DEF Next
<1>2. QED
  BY <1>1, ClientInvHolds, PTL DEF Spec, AnswersAreFinal
=============================================================================
