--------------------------- MODULE CaseConsoleProofs ---------------------------
(***************************************************************************)
(* Proofs about CaseConsole, for any number of cases, sessions, restarts   *)
(* and any sizes of the ring and of a list page.                           *)
(***************************************************************************)
EXTENDS CaseConsole, FiniteSetTheorems, FunctionTheorems, TLAPS

-----------------------------------------------------------------------------
(* The ring.                                                               *)

\* What a put does to a sequence of contexts: nothing, one more at the end, or
\* that with the first one dropped.
LEMMA EnteredFacts ==
  ASSUME NEW r, Ring!RingOK(r), NEW c \in Cases
  PROVE  LET e == Ring!Entered(r, c)
         IN  /\ e \in Seq(Cases) /\ Len(e) <= MaxTraces + 1
             /\ Ring!IsInjective(e)
             /\ \A x : (\E i \in DOMAIN e : e[i] = x) <=> x = c \/ Ring!Holds(r, x)
             /\ Len(r.order) <= Len(e) /\ \A i \in DOMAIN r.order : e[i] = r.order[i]
             /\ \A i \in DOMAIN e : i \in DOMAIN r.order \/ (i = Len(e) /\ e[i] = c)
             /\ Ring!Holds(r, c) => e = r.order
<1> DEFINE e == Ring!Entered(r, c)
<1>1. /\ r.order \in Seq(Cases) /\ Len(r.order) <= MaxTraces /\ Ring!IsInjective(r.order)
      /\ \A x : (\E i \in DOMAIN r.order : r.order[i] = x) <=> Ring!Holds(r, x)
      /\ MaxTraces \in Nat
  BY ConsoleAssumption DEF Ring!RingOK, Ring!ToSet, Ring!Holds
<1>2. CASE Ring!Holds(r, c)
  <2>1. e = r.order
    BY <1>2 DEF Ring!Entered
  <2> QED
    BY <1>1, <1>2, <2>1
<1>3. CASE ~Ring!Holds(r, c)
  <2>1. e = Append(r.order, c)
    BY <1>3 DEF Ring!Entered
  <2>2. /\ e \in Seq(Cases) /\ Len(e) = Len(r.order) + 1 /\ e[Len(e)] = c
        /\ \A i \in DOMAIN r.order : e[i] = r.order[i]
        /\ DOMAIN e = 1 .. Len(e) /\ DOMAIN r.order = 1 .. Len(r.order) /\ Len(r.order) \in Nat
    BY <1>1, <2>1
  <2> HIDE DEF e
  <2>3. \A i \in DOMAIN e : i \in DOMAIN r.order \/ i = Len(e)
    BY <2>2
  <2>4. Ring!IsInjective(e)
    BY <1>1, <1>3, <2>2, <2>3 DEF Ring!IsInjective
  <2>5. Len(e) \in DOMAIN e /\ DOMAIN r.order \subseteq DOMAIN e
    BY <2>2
  <2>6. ASSUME NEW x PROVE (\E i \in DOMAIN e : e[i] = x) <=> x = c \/ Ring!Holds(r, x)
    BY <1>1, <2>2, <2>3, <2>5
  <2>7. Len(e) <= MaxTraces + 1 /\ Len(r.order) <= Len(e)
    BY <1>1, <2>2
  <2> QED
    BY <1>3, <2>2, <2>3, <2>4, <2>6, <2>7 DEF e
<1> QED
  BY <1>2, <1>3

\* The context put is in the ring with its trace, no other trace is touched, and
\* a context is gone only from the first place of a full ring.
LEMMA PutFacts ==
  ASSUME NEW r, Ring!RingOK(r), NEW c \in Cases, NEW trace \in Ring!Trace
  PROVE  LET n == Ring!Put(r, c, trace)
             e == Ring!Entered(r, c)
         IN  /\ Ring!RingOK(n)
             /\ Ring!Holds(n, c) /\ n.traces[c] = trace
             /\ \A x : x # c /\ Ring!Holds(n, x) =>
                  Ring!Holds(r, x) /\ n.traces[x] = r.traces[x]
             /\ \A x : x # c /\ Ring!Holds(r, x) /\ ~Ring!Holds(n, x) =>
                  Len(e) = MaxTraces + 1 /\ x = e[1] /\ ~Ring!Holds(r, c)
             /\ \E over \in { 0, 1 } :
                  /\ DOMAIN n.order = 1 .. Len(e) - over
                  /\ \A i \in DOMAIN n.order : n.order[i] = e[i + over]
<1> DEFINE n == Ring!Put(r, c, trace)
           e == Ring!Entered(r, c)
           over == IF Len(e) > MaxTraces THEN Len(e) - MaxTraces ELSE 0
           dropped == Ring!ToSet(SubSeq(e, 1, over))
           kept == (DOMAIN r.traces \cup { c }) \ dropped
<1>1. /\ e \in Seq(Cases) /\ Len(e) <= MaxTraces + 1
      /\ Ring!IsInjective(e)
      /\ \A x : (\E i \in DOMAIN e : e[i] = x) <=> x = c \/ Ring!Holds(r, x)
      /\ Ring!Holds(r, c) => e = r.order
      /\ \A i \in DOMAIN e : i \in DOMAIN r.order \/ (i = Len(e) /\ e[i] = c)
  BY EnteredFacts
<1>2. /\ r.order \in Seq(Cases) /\ Len(r.order) <= MaxTraces /\ MaxTraces \in Nat /\ MaxTraces > 0
      /\ \A x \in DOMAIN r.traces : r.traces[x] \in Ring!Trace
  BY ConsoleAssumption DEF Ring!RingOK
<1>3. n = [order |-> SubSeq(e, over + 1, Len(e)),
           traces |-> [x \in kept |-> IF x = c THEN trace ELSE r.traces[x]]]
  BY DEF Ring!Put
<1> HIDE DEF n, e
<1>4. /\ over \in Nat /\ (over = 0 \/ over = 1)
      /\ Len(e) \in Nat /\ DOMAIN e = 1 .. Len(e)
      /\ over = 1 => Len(e) = MaxTraces + 1
      /\ over = 0 => Len(e) <= MaxTraces
  BY <1>1, <1>2
<1> HIDE DEF over
<1>5. over = 1 => e[1] # c /\ ~Ring!Holds(r, c)
  <2> SUFFICES ASSUME over = 1 PROVE e[1] # c /\ ~Ring!Holds(r, c)
    OBVIOUS
  <2>1. Len(e) = MaxTraces + 1
    BY <1>4
  <2>2. ~Ring!Holds(r, c)
    BY <1>1, <1>2, <2>1
  <2>3. Len(e) \in DOMAIN e /\ 1 \in DOMAIN e /\ Len(e) # 1
    BY <1>2, <1>4, <2>1
  <2>4. Len(e) \notin DOMAIN r.order
    BY <1>2, <2>1
  <2>5. e[Len(e)] = c
    BY <1>1, <2>3, <2>4
  <2> QED
    BY <1>1, <2>2, <2>3, <2>5 DEF Ring!IsInjective
<1>6. dropped = IF over = 1 THEN { e[1] } ELSE {}
  <2>1. CASE over = 0
    <3>1. SubSeq(e, 1, over) = << >>
      BY <1>1, <2>1
    <3> QED
      BY <2>1, <3>1 DEF Ring!ToSet
  <2>2. CASE over = 1
    <3>1. 1 <= Len(e)
      BY <1>2, <1>4, <2>2
    <3> DEFINE s == SubSeq(e, 1, over)
    <3>2. s \in Seq(Cases) /\ Len(s) = 1 /\ s[1] = e[1]
      BY <1>1, <2>2, <3>1
    <3> HIDE DEF s
    <3>3. DOMAIN s = { 1 }
      BY <3>2
    <3> QED
      BY <2>2, <3>2, <3>3 DEF Ring!ToSet, s
  <2> QED
    BY <1>4, <2>1, <2>2
<1> HIDE DEF dropped
<1>7. /\ n.order \in Seq(Cases) /\ Len(n.order) = Len(e) - over
      /\ DOMAIN n.order = 1 .. Len(e) - over
      /\ \A i \in DOMAIN n.order : n.order[i] = e[i + over]
  <2> DEFINE k == over + 1
             s == SubSeq(e, k, Len(e))
  <2>1. n.order = s /\ k \in Nat /\ k >= 1 /\ k <= Len(e) + 1
    <3>1. n.order = s
      BY <1>3
    <3>2. CASE over = 0
      BY <1>4, <3>1, <3>2
    <3>3. CASE over = 1
      BY <1>2, <1>4, <3>1, <3>3
    <3> QED
      BY <1>4, <3>2, <3>3
  <2>2. k - 1 = over
    BY <1>4
  <2> HIDE DEF k
  <2>3. s \in Seq(Cases) /\ Len(s) = Len(e) - (k - 1)
        /\ \A i \in 1 .. Len(s) : s[i] = e[i + (k - 1)]
    BY <1>1, <1>4, <2>1
  <2> HIDE DEF s
  <2>4. DOMAIN s = 1 .. Len(s)
    BY <2>3
  <2> QED
    BY <2>1, <2>2, <2>3, <2>4
<1>8. \A x : Ring!Holds(n, x) <=> x \in kept
  BY <1>3 DEF Ring!Holds
<1>9. c \in kept /\ \A x \in kept : x = c \/ Ring!Holds(r, x)
  BY <1>5, <1>6 DEF Ring!Holds
<1>10. \A x \in kept : n.traces[x] = IF x = c THEN trace ELSE r.traces[x]
  BY <1>3
<1>11. \A x : x # c /\ Ring!Holds(r, x) /\ x \notin kept =>
         Len(e) = MaxTraces + 1 /\ x = e[1] /\ ~Ring!Holds(r, c)
  BY <1>4, <1>5, <1>6 DEF Ring!Holds
<1>12. \A x : x \in kept <=> \E i \in DOMAIN n.order : n.order[i] = x
  <2>1. \A x : x \in kept <=> (\E i \in DOMAIN e : e[i] = x) /\ ~(over = 1 /\ x = e[1])
    BY <1>1, <1>6 DEF Ring!Holds
  <2>2. CASE over = 0
    <3>1. DOMAIN n.order = DOMAIN e /\ \A i \in DOMAIN e : n.order[i] = e[i]
      BY <1>4, <1>7, <2>2
    <3> QED
      BY <2>1, <2>2, <3>1
  <2>3. CASE over = 1
    <3>1. ASSUME NEW x \in kept PROVE \E i \in DOMAIN n.order : n.order[i] = x
      <4>1. PICK i \in DOMAIN e : e[i] = x /\ i # 1
        BY <2>1, <2>3
      <4>2. i - 1 \in DOMAIN n.order /\ (i - 1) + over = i
        BY <1>4, <1>7, <2>3, <4>1
      <4> QED
        BY <1>7, <4>1, <4>2
    <3>2. ASSUME NEW i \in DOMAIN n.order PROVE n.order[i] \in kept
      <4>1. i + over \in DOMAIN e /\ 1 \in DOMAIN e /\ i + over # 1
        BY <1>4, <1>7, <2>3
      <4>2. e[i + over] # e[1]
        BY <1>1, <4>1 DEF Ring!IsInjective
      <4> QED
        BY <1>7, <2>1, <4>1, <4>2
    <3> QED
      BY <3>1, <3>2
  <2> QED
    BY <1>4, <2>2, <2>3
<1>13. Ring!IsInjective(n.order)
  <2> SUFFICES ASSUME NEW i \in DOMAIN n.order, NEW j \in DOMAIN n.order,
                      n.order[i] = n.order[j]
               PROVE  i = j
    BY DEF Ring!IsInjective
  <2>1. i + over \in DOMAIN e /\ j + over \in DOMAIN e /\ i \in Nat /\ j \in Nat
    <3>1. over \in Nat /\ i \in 1 .. Len(e) - over /\ j \in 1 .. Len(e) - over
      BY <1>4, <1>7
    <3> QED
      BY <1>4, <3>1, SMTT(60)
  <2>2. i + over = j + over
    BY <1>1, <1>7, <2>1 DEF Ring!IsInjective
  <2> QED
    BY <1>4, <2>1, <2>2
<1>14. Ring!RingOK(n)
  <2>1. DOMAIN n.traces = Ring!ToSet(n.order)
    BY <1>8, <1>12 DEF Ring!Holds, Ring!ToSet
  <2>2. Len(n.order) <= MaxTraces
    <3>1. Len(n.order) = Len(e) - over
      BY <1>7
    <3>2. CASE over = 0
      BY <1>2, <1>4, <3>1, <3>2
    <3>3. CASE over = 1
      BY <1>2, <1>4, <3>1, <3>3
    <3> QED
      BY <1>4, <3>2, <3>3
  <2>3. \A x \in kept : n.traces[x] \in Ring!Trace
    BY <1>2, <1>9, <1>10 DEF Ring!Holds
  <2> QED
    BY <1>7, <1>8, <1>13, <2>1, <2>2, <2>3 DEF Ring!RingOK, Ring!Holds
<1> HIDE DEF kept
<1> QED
  BY <1>4, <1>7, <1>8, <1>9, <1>10, <1>11, <1>14 DEF n, e

-----------------------------------------------------------------------------
(* What a page reads and what a run leaves.                                *)

Stored(c) == tasks[c] # Nothing
In(c, state) == Stored(c) /\ tasks[c].state = state
Asked(c) == resumes[c] # Nothing
Traced(c) == runs[c] \notin { Nothing, Running }

LEMMA SpanFacts ==
  ASSUME NEW trace \in Ring!Trace, NEW ok \in BOOLEAN
  PROVE  LET t == Ring!WithSpan(trace, "reporting", ok)
         IN  /\ t \in Ring!Trace
             /\ t.spans = trace.spans \cup { "reporting" }
             /\ trace.errors \subseteq t.errors
             /\ ~ok => "reporting" \in t.errors
BY DEF Ring!WithSpan, Ring!Trace, Ring!Hop

LEMMA ListedIsStored ==
  ASSUME TypeOK, NEW v, NEW c \in Rows(v), v \in Views
  PROVE  c \in Cases /\ Stored(c) /\ tasks[c] \in StoredTask
<1>1. ASSUME c \in Listed PROVE c \in Cases /\ Stored(c)
  <2>1. PICK i \in DOMAIN opened : c = opened[i] /\ tasks[opened[i]] # Nothing
    BY <1>1 DEF Listed
  <2>2. opened[i] \in Cases
    BY <2>1 DEF TypeOK
  <2> QED
    BY <2>1, <2>2 DEF Stored
<1>2. c \in Listed
  BY DEF Rows, QueueRows, Views
<1> QED
  BY <1>1, <1>2 DEF Stored, TypeOK

\* What a session fetches of a stored case.
LEMMA FetchFacts ==
  ASSUME TypeOK, NEW c \in Cases, Stored(c)
  PROVE  /\ Fetch(c) \in Fetched
         /\ Fetch(c).case = c /\ Fetch(c).task = tasks[c]
         /\ Fetch(c).trace # Nothing =>
              Ring!Holds(ring, c) /\ Fetch(c).trace = ring.traces[c]
<1>1. Ring!Holds(ring, c) => ring.traces[c] \in Ring!Trace
  BY DEF TypeOK, Ring!RingOK, Ring!Holds
<1>2. tasks[c] \in StoredTask
  BY DEF TypeOK, Stored
<1> QED
  BY <1>1, <1>2 DEF Fetch, Fetched

\* What a session may be looking at when it decides.
LEMMA ReviewFacts ==
  ASSUME TypeOK, NEW s \in Sessions, Showing(s) = "review"
  PROVE  shown[s] # Nothing /\ shown[s] \in Fetched /\ shown[s].case \in Cases
<1>1. shown[s] # Nothing
  <2> SUFFICES ASSUME shown[s] = Nothing PROVE FALSE
    OBVIOUS
  <2>1. Panel(shown[s]) = "intake"
    BY DEF Panel
  <2> QED
    BY <2>1 DEF Showing
<1> QED
  BY <1>1 DEF TypeOK, Fetched

-----------------------------------------------------------------------------
(* The case by case strengthening.                                         *)

\* What is known of a case the store has seen, and who may act on it when: a run
\* that has yet to put its trace has the ring to itself, but for a decision that
\* came early; a paused case has lost nothing and no resume.
Turns(c) ==
  /\ Stored(c) \/ runs[c] # Nothing \/ Asked(c) \/ Ring!Holds(ring, c) => c \in ToSet(opened)
  /\ runs[c] # Nothing /\ Ring!Holds(ring, c) => c \in early
  /\ runs[c] # Nothing /\ Asked(c) => c \in early
  /\ runs[c] = Running => ~Asked(c) /\ (Stored(c) => In(c, "WORKING"))
  /\ In(c, "INPUT_REQUIRED") => ~Asked(c) /\ tasks[c].risk = "HIGH" /\ tasks[c].lost = {}
  /\ Asked(c) /\ resumes[c].step = "reporting" /\ Stored(c) => tasks[c].lost = {}

\* What a stored case has lost is an error of every trace that may yet be put
\* or is to be had, unless its decision came before its run put its own.
Losses(c) ==
  Stored(c) /\ c \notin early =>
    /\ Ring!Holds(ring, c) => tasks[c].lost \subseteq ring.traces[c].errors
    /\ Traced(c) => tasks[c].lost \subseteq runs[c].errors
    /\ Asked(c) /\ resumes[c].step = "filing" => tasks[c].lost \subseteq resumes[c].trace.errors
    /\ Asked(c) /\ ~resumes[c].shared => ~Ring!Holds(ring, c)

\* The spans such a trace has by then, of a case that was not decided untraced.
Timeline(c) ==
  c \notin untraced =>
    /\ Asked(c) => /\ resumes[c].shared
                   /\ "findings" \in resumes[c].trace.spans
                   /\ resumes[c].step = "filing" => "reporting" \in resumes[c].trace.spans
    /\ In(c, "INPUT_REQUIRED") => /\ Ring!Holds(ring, c) => "findings" \in ring.traces[c].spans
                                  /\ Traced(c) => "findings" \in runs[c].spans
    /\ In(c, "COMPLETED") => /\ Ring!Holds(ring, c) => Ring!Hop \subseteq ring.traces[c].spans
                             /\ Traced(c) => Ring!Hop \subseteq runs[c].spans

CaseOK(c) == Turns(c) /\ Losses(c) /\ Timeline(c)

Inv == TypeOK /\ \A c \in Cases : CaseOK(c)

\* A function that has nothing for anything.
LEMMA AllNothing ==
  ASSUME NEW D, NEW S
  PROVE  [x \in D |-> Nothing] \in [D -> S \cup { Nothing }]
OBVIOUS

LEMMA InitTypes == Init => TypeOK
<1> SUFFICES ASSUME Init PROVE TypeOK
  OBVIOUS
<1>1. << >> \in Seq(Cases) /\ IsInjective(<< >>)
  BY DEF IsInjective
<1>2. Ring!RingOK(Ring!EmptyRing)
  <2>1. << >> \in Seq(Cases) /\ Len(<< >>) = 0 /\ DOMAIN << >> = {}
    OBVIOUS
  <2> QED
    BY <2>1, ConsoleAssumption DEF Ring!RingOK, Ring!EmptyRing, Ring!IsInjective, Ring!ToSet
<1>3. /\ tasks \in [Cases -> StoredTask \cup { Nothing }]
      /\ runs \in [Cases -> Ring!Trace \cup { Nothing, Running }]
      /\ resumes \in [Cases -> Resume \cup { Nothing }]
      /\ since \in [Cases -> (SUBSET Cases) \cup { Nothing }]
  <2>1. runs \in [Cases -> Ring!Trace \cup { Nothing, Running }]
    BY DEF Init
  <2>2. /\ tasks = [c \in Cases |-> Nothing] /\ resumes = [c \in Cases |-> Nothing]
        /\ since = [c \in Cases |-> Nothing]
    BY DEF Init
  <2> QED
    BY <2>1, <2>2, AllNothing
<1>4. /\ view \in [Sessions -> Views]
      /\ parked \in [Sessions -> Views \cup { Nothing }]
      /\ shown \in [Sessions -> Fetched \cup { Nothing }]
      /\ waiting \in [Sessions -> ({ "run", "decision" } \X Cases) \cup { Nothing }]
  BY DEF Init, Views
<1>5. restarts \in 0 .. MaxRestarts /\ early \subseteq untraced /\ untraced \subseteq Cases
  BY ConsoleAssumption DEF Init
<1> QED
  BY <1>1, <1>2, <1>3, <1>4, <1>5 DEF Init, TypeOK

\* A put keeps the ring and the history typed.
LEMMA PutTraceTypes ==
  ASSUME TypeOK, NEW c \in Cases, NEW trace \in Ring!Trace, PutTrace(c, trace)
  PROVE  Ring!RingOK(ring') /\ since' \in [Cases -> (SUBSET Cases) \cup { Nothing }]
<1>1. Ring!RingOK(ring')
  BY PutFacts DEF TypeOK, PutTrace
<1>2. since \in [Cases -> (SUBSET Cases) \cup { Nothing }]
  BY DEF TypeOK
<1> QED
  BY <1>1, <1>2 DEF PutTrace

\* A span that goes into the trace the ring shares.
LEMMA SharedSpanTypes ==
  ASSUME TypeOK, NEW c \in Cases, NEW trace \in Ring!Trace, Ring!Holds(ring, c)
  PROVE  Ring!RingOK([ring EXCEPT !.traces[c] = trace])
<1> DEFINE n == [ring EXCEPT !.traces[c] = trace]
<1>1. Ring!RingOK(ring)
  BY DEF TypeOK
<1> QED
  BY <1>1 DEF Ring!RingOK, Ring!Holds

LEMMA TypesStep == Inv /\ [Next]_vars => TypeOK'
<1> SUFFICES ASSUME Inv, [Next]_vars PROVE TypeOK'
  OBVIOUS
<1> USE DEF server, browser
<1>1. TypeOK /\ \A c \in Cases : Turns(c)
  BY DEF Inv, CaseOK
<1>2. ASSUME NEW c \in Cases, EndRun(c) PROVE TypeOK'
  <2>1. PICK t \in Outcome \cup CutShort, spans \in SUBSET Ring!Hop :
          /\ tasks' = IF tasks[c] = Nothing THEN tasks ELSE [tasks EXCEPT ![c] = t]
          /\ runs' = [runs EXCEPT ![c] = [spans |-> spans, errors |-> t.lost]]
    BY <1>2 DEF EndRun
  <2>2. t \in StoredTask /\ t.lost \in SUBSET Ring!Hop
    BY <2>1 DEF Outcome, CutShort, StoredTask
  <2>3. [spans |-> spans, errors |-> t.lost] \in Ring!Trace
    BY <2>2 DEF Ring!Trace
  <2>4. tasks' \in [Cases -> StoredTask \cup { Nothing }]
    BY <1>1, <2>1, <2>2 DEF TypeOK
  <2>5. runs' \in [Cases -> Ring!Trace \cup { Nothing, Running }]
    BY <1>1, <2>1, <2>3 DEF TypeOK
  <2> QED
    BY <1>1, <1>2, <2>4, <2>5 DEF TypeOK, EndRun
<1>3. ASSUME NEW c \in Cases, FileRun(c) PROVE TypeOK'
  <2>1. runs[c] \in Ring!Trace
    BY <1>1, <1>3 DEF TypeOK, FileRun
  <2>2. Ring!RingOK(ring') /\ since' \in [Cases -> (SUBSET Cases) \cup { Nothing }]
    BY <1>1, <1>3, <2>1, PutTraceTypes DEF FileRun
  <2> QED
    BY <1>1, <1>3, <2>2 DEF TypeOK, FileRun
<1>4. ASSUME NEW c \in Cases, Report(c) PROVE TypeOK'
  <2>1. resumes[c] \in Resume
    BY <1>1, <1>4 DEF TypeOK, Report
  <2>2. PICK ok \in BOOLEAN :
          LET trace == Ring!WithSpan(resumes[c].trace, "reporting", ok)
          IN /\ resumes' = [resumes EXCEPT ![c].trace = trace, ![c].step = "filing"]
             /\ ring' = IF resumes[c].shared /\ Ring!Holds(ring, c)
                        THEN [ring EXCEPT !.traces[c] = trace] ELSE ring
             /\ tasks' = IF tasks[c] = Nothing THEN tasks
                         ELSE [tasks EXCEPT ![c].state = "COMPLETED",
                                 ![c].lost = IF ok THEN {} ELSE { "reporting" },
                                 ![c].report = IF ok THEN resumes[c].band ELSE "none"]
    BY <1>4 DEF Report
  <2> DEFINE trace == Ring!WithSpan(resumes[c].trace, "reporting", ok)
  <2>3. trace \in Ring!Trace
    BY <2>1, SpanFacts DEF Resume
  <2> HIDE DEF trace
  <2>4. resumes' \in [Cases -> Resume \cup { Nothing }]
    <3>1. [resumes[c] EXCEPT !.trace = trace, !.step = "filing"] \in Resume
      BY <2>1, <2>3 DEF Resume
    <3>2. resumes' = [resumes EXCEPT ![c] = [resumes[c] EXCEPT !.trace = trace, !.step = "filing"]]
      BY <1>1, <2>2 DEF TypeOK, trace
    <3> QED
      BY <1>1, <3>1, <3>2 DEF TypeOK
  <2>5. Ring!RingOK(ring')
    BY <1>1, <2>2, <2>3, SharedSpanTypes DEF TypeOK, trace
  <2>6. tasks' \in [Cases -> StoredTask \cup { Nothing }]
    <3>1. CASE tasks[c] = Nothing
      BY <1>1, <2>2, <3>1 DEF TypeOK
    <3>2. CASE tasks[c] # Nothing
      <4> DEFINE t == [tasks[c] EXCEPT !.state = "COMPLETED",
                         !.lost = IF ok THEN {} ELSE { "reporting" },
                         !.report = IF ok THEN resumes[c].band ELSE "none"]
      <4>1. tasks[c] \in StoredTask
        BY <1>1, <3>2 DEF TypeOK
      <4>2. t \in StoredTask
        BY <2>1, <4>1 DEF StoredTask, Resume, RunState, Ring!Hop
      <4>3. tasks' = [tasks EXCEPT ![c] = t]
        BY <1>1, <2>2, <3>2 DEF TypeOK
      <4> QED
        BY <1>1, <4>2, <4>3 DEF TypeOK
    <3> QED
      BY <3>1, <3>2
  <2> QED
    BY <1>1, <1>4, <2>4, <2>5, <2>6 DEF TypeOK, Report
<1>5. ASSUME NEW c \in Cases, TimeOutResume(c) PROVE TypeOK'
  <2> DEFINE trace == Ring!WithSpan(resumes[c].trace, "reporting", TRUE)
  <2>1. resumes[c] \in Resume
    BY <1>1, <1>5 DEF TypeOK, TimeOutResume
  <2>2. trace \in Ring!Trace
    BY <2>1, SpanFacts DEF Resume
  <2>3. Ring!RingOK(ring')
    BY <1>1, <1>5, <2>2, SharedSpanTypes DEF TypeOK, TimeOutResume
  <2>4. tasks' \in [Cases -> StoredTask \cup { Nothing }]
    <3>1. CASE tasks[c] = Nothing
      BY <1>1, <1>5, <3>1 DEF TypeOK, TimeOutResume
    <3>2. CASE tasks[c] # Nothing
      <4>1. tasks[c] \in StoredTask
        BY <1>1, <3>2 DEF TypeOK
      <4>2. [tasks[c] EXCEPT !.state = "FAILED"] \in StoredTask
        BY <4>1 DEF StoredTask, RunState
      <4>3. tasks' = [tasks EXCEPT ![c] = [tasks[c] EXCEPT !.state = "FAILED"]]
        BY <1>1, <1>5, <3>2 DEF TypeOK, TimeOutResume
      <4> QED
        BY <1>1, <4>2, <4>3 DEF TypeOK
    <3> QED
      BY <3>1, <3>2
  <2> QED
    BY <1>1, <1>5, <2>3, <2>4 DEF TypeOK, TimeOutResume
<1>6. ASSUME NEW c \in Cases, FileResume(c) PROVE TypeOK'
  <2>1. resumes[c].trace \in Ring!Trace
    BY <1>1, <1>6 DEF TypeOK, FileResume, Resume
  <2>2. Ring!RingOK(ring') /\ since' \in [Cases -> (SUBSET Cases) \cup { Nothing }]
    BY <1>1, <1>6, <2>1, PutTraceTypes DEF FileResume
  <2> QED
    BY <1>1, <1>6, <2>2 DEF TypeOK, FileResume
<1>7. ASSUME NEW s \in Sessions, NEW c \in Cases, RunDetection(s, c) PROVE TypeOK'
  <2>1. opened' \in Seq(Cases) /\ IsInjective(opened')
    <3>1. /\ opened \in Seq(Cases) /\ opened' = Append(opened, c) /\ IsInjective(opened)
          /\ \A i \in DOMAIN opened : opened[i] # c
      BY <1>1, <1>7 DEF TypeOK, RunDetection, ToSet
    <3>2. /\ opened' \in Seq(Cases) /\ DOMAIN opened' = DOMAIN opened \cup { Len(opened) + 1 }
          /\ opened'[Len(opened) + 1] = c /\ \A i \in DOMAIN opened : opened'[i] = opened[i]
      BY <3>1
    <3> QED
      BY <3>1, <3>2 DEF IsInjective
  <2>2. /\ tasks' \in [Cases -> StoredTask \cup { Nothing }]
        /\ runs' \in [Cases -> Ring!Trace \cup { Nothing, Running }]
        /\ waiting' \in [Sessions -> ({ "run", "decision" } \X Cases) \cup { Nothing }]
    BY <1>1, <1>7 DEF TypeOK, RunDetection, StoredTask, RunState
  <2> QED
    BY <1>1, <1>7, <2>1, <2>2 DEF TypeOK, RunDetection
<1>8. ASSUME NEW s \in Sessions, Answer(s) PROVE TypeOK'
  <2> DEFINE c == waiting[s][2]
  <2>1. c \in Cases
    BY <1>1, <1>8 DEF TypeOK, Answer
  <2>2. Stored(c) => Fetch(c) \in Fetched
    BY <1>1, <2>1, FetchFacts
  <2>3. shown' = IF tasks[c] = Nothing THEN shown ELSE [shown EXCEPT ![s] = Fetch(c)]
    BY <1>8 DEF Answer
  <2> HIDE DEF c
  <2>4. shown' \in [Sessions -> Fetched \cup { Nothing }]
    BY <1>1, <2>2, <2>3 DEF TypeOK, Stored
  <2>5. waiting' \in [Sessions -> ({ "run", "decision" } \X Cases) \cup { Nothing }]
    BY <1>1, <1>8 DEF TypeOK, Answer
  <2> QED
    BY <1>1, <1>8, <2>4, <2>5 DEF TypeOK, Answer
<1>9. ASSUME NEW s \in Sessions, NEW c \in Cases, OpenCase(s, c) PROVE TypeOK'
  <2>1. Stored(c)
    BY <1>1, <1>9, ListedIsStored DEF OpenCase, TypeOK
  <2>2. Fetch(c) \in Fetched
    BY <1>1, <2>1, FetchFacts
  <2> QED
    BY <1>1, <1>9, <2>2 DEF TypeOK, OpenCase, Views
<1>10. ASSUME NEW s \in Sessions, ApplyRequestedView(s) PROVE TypeOK'
  BY <1>1, <1>10 DEF TypeOK, ApplyRequestedView
<1>11. ASSUME NEW s \in Sessions, NEW v \in Views, Navigate(s, v) PROVE TypeOK'
  BY <1>1, <1>11 DEF TypeOK, Navigate
<1>12. ASSUME NEW s \in Sessions, NewInvestigation(s) PROVE TypeOK'
  BY <1>1, <1>12 DEF TypeOK, NewInvestigation
<1>13. ASSUME NEW s \in Sessions, NEW c \in Cases, DeleteCase(s, c) PROVE TypeOK'
  BY <1>1, <1>13 DEF TypeOK, DeleteCase
<1>14. ASSUME NEW s \in Sessions, NEW action \in { "approve", "override", "close" },
              Decide(s, action)
       PROVE  TypeOK'
  <2> DEFINE c == shown[s].case
  <2>1. c \in Cases
    BY <1>1, <1>14, ReviewFacts DEF Decide
  <2>2. PICK other \in Band :
          resumes' = [resumes EXCEPT ![c] =
            [trace |-> ResumedTrace(c), shared |-> Ring!Holds(ring, c), step |-> "reporting",
             band |-> DecidedBand(action, tasks[c].risk, other)]]
    BY <1>14 DEF Decide
  <2>3. /\ tasks[c] # Nothing /\ tasks[c].state = "INPUT_REQUIRED"
        /\ tasks' = [tasks EXCEPT ![c].state = "WORKING"]
        /\ untraced' = IF Ring!Holds(ring, c) THEN untraced ELSE untraced \cup { c }
        /\ early' = IF runs[c] = Nothing THEN early ELSE early \cup { c }
        /\ waiting' = [waiting EXCEPT ![s] = << "decision", c >>]
    BY <1>14 DEF Decide
  <2> HIDE DEF c
  <2>4. Turns(c) /\ tasks[c].risk \in Band
    BY <1>1, <2>1, <2>3 DEF Turns, In, Stored, Band
  <2>5. DecidedBand(action, tasks[c].risk, other) \in Band
    BY <2>4 DEF DecidedBand, Band
  <2>6. ResumedTrace(c) \in Ring!Trace
    BY <1>1 DEF ResumedTrace, Ring!SpansOf, Ring!NoSpans, Ring!Trace, TypeOK, Ring!RingOK,
                Ring!Holds
  <2>7. resumes' \in [Cases -> Resume \cup { Nothing }]
    <3> DEFINE x == [trace |-> ResumedTrace(c), shared |-> Ring!Holds(ring, c),
                     step |-> "reporting", band |-> DecidedBand(action, tasks[c].risk, other)]
    <3>1. Ring!Holds(ring, c) \in BOOLEAN
      BY DEF Ring!Holds
    <3>2. x \in Resume
      BY <2>5, <2>6, <3>1 DEF Resume
    <3>3. resumes' = [resumes EXCEPT ![c] = x]
      BY <2>2
    <3> HIDE DEF x
    <3> QED
      BY <1>1, <3>2, <3>3 DEF TypeOK
  <2>8. tasks' \in [Cases -> StoredTask \cup { Nothing }]
    <3>1. tasks[c] \in StoredTask
      BY <1>1, <2>1, <2>3 DEF TypeOK
    <3>2. [tasks[c] EXCEPT !.state = "WORKING"] \in StoredTask
      BY <3>1 DEF StoredTask, RunState
    <3>3. tasks' = [tasks EXCEPT ![c] = [tasks[c] EXCEPT !.state = "WORKING"]]
      BY <1>1, <2>1, <2>3 DEF TypeOK
    <3> QED
      BY <1>1, <3>2, <3>3 DEF TypeOK
  <2>9. early' \subseteq untraced' /\ untraced' \subseteq Cases
    <3>1. runs[c] # Nothing => ~Ring!Holds(ring, c) \/ c \in early
      BY <2>4 DEF Turns
    <3> QED
      BY <1>1, <2>1, <2>3, <3>1 DEF TypeOK
  <2>10. waiting' \in [Sessions -> ({ "run", "decision" } \X Cases) \cup { Nothing }]
    BY <1>1, <2>1, <2>3 DEF TypeOK
  <2> QED
    BY <1>1, <1>14, <2>7, <2>8, <2>9, <2>10 DEF TypeOK, Decide
<1>15. CASE Restart
  <2>1. Ring!RingOK(Ring!EmptyRing)
    <3>1. << >> \in Seq(Cases) /\ Len(<< >>) = 0 /\ DOMAIN << >> = {}
      OBVIOUS
    <3> QED
      BY <3>1, ConsoleAssumption DEF Ring!RingOK, Ring!EmptyRing, Ring!IsInjective, Ring!ToSet
  <2>2. /\ runs' \in [Cases -> Ring!Trace \cup { Nothing, Running }]
        /\ resumes' \in [Cases -> Resume \cup { Nothing }]
        /\ since' \in [Cases -> (SUBSET Cases) \cup { Nothing }]
        /\ waiting' \in [Sessions -> ({ "run", "decision" } \X Cases) \cup { Nothing }]
    <3>1. runs' \in [Cases -> Ring!Trace \cup { Nothing, Running }]
      BY <1>15 DEF Restart
    <3>2. /\ resumes' = [c \in Cases |-> Nothing] /\ since' = [c \in Cases |-> Nothing]
          /\ waiting' = [s \in Sessions |-> Nothing]
      BY <1>15 DEF Restart
    <3> QED
      BY <3>1, <3>2, AllNothing
  <2>3. restarts' \in 0 .. MaxRestarts /\ ring' = Ring!EmptyRing
    BY <1>1, <1>15, ConsoleAssumption DEF TypeOK, Restart
  <2> QED
    BY <1>1, <1>15, <2>1, <2>2, <2>3 DEF TypeOK, Restart
<1>16. CASE UNCHANGED vars
  BY <1>1, <1>16 DEF TypeOK, vars
<1> QED
  BY <1>2, <1>3, <1>4, <1>5, <1>6, <1>7, <1>8, <1>9, <1>10, <1>11, <1>12, <1>13, <1>14, <1>15,
     <1>16 DEF Next, CaseStep, SessionStep

\* A step that leaves a case as it was; the ring may have forgotten it.
Untouched(c) ==
  /\ tasks'[c] = tasks[c] /\ runs'[c] = runs[c] /\ resumes'[c] = resumes[c]
  /\ c \in early' <=> c \in early
  /\ c \in untraced' <=> c \in untraced
  /\ Ring!Holds(ring', c) => Ring!Holds(ring, c) /\ ring'.traces[c] = ring.traces[c]
  /\ ToSet(opened) \subseteq ToSet(opened')

LEMMA UntouchedStaysOK ==
  ASSUME NEW c \in Cases, CaseOK(c), Untouched(c)
  PROVE  CaseOK(c)'
<1>1. Turns(c)'
  BY DEF CaseOK, Untouched, Turns, Stored, In, Asked
<1>2. Losses(c)'
  BY DEF CaseOK, Untouched, Losses, Stored, Asked, Traced
<1>3. Timeline(c)'
  BY DEF CaseOK, Untouched, Timeline, Stored, In, Asked, Traced
<1> QED
  BY <1>1, <1>2, <1>3 DEF CaseOK

\* A put leaves the other cases as they were, but for the one it drops.
LEMMA PutLeavesOthers ==
  ASSUME TypeOK, NEW c \in Cases, NEW d \in Cases, c # d, NEW trace \in Ring!Trace,
         PutTrace(d, trace)
  PROVE  Ring!Holds(ring', c) => Ring!Holds(ring, c) /\ ring'.traces[c] = ring.traces[c]
BY PutFacts DEF TypeOK, PutTrace

LEMMA Touched ==
  ASSUME Inv, [Next]_vars, NEW c \in Cases
  PROVE  \/ Untouched(c) \/ Restart
         \/ EndRun(c) \/ FileRun(c) \/ Report(c) \/ TimeOutResume(c) \/ FileResume(c)
         \/ \E s \in Sessions : RunDetection(s, c) \/ DeleteCase(s, c)
         \/ \E s \in Sessions, action \in { "approve", "override", "close" } :
              Decide(s, action) /\ shown[s].case = c
<1> USE DEF server, browser
<1>1. TypeOK
  BY DEF Inv
<1>2. ASSUME NEW d \in Cases, d # c, EndRun(d) PROVE Untouched(c)
  BY <1>1, <1>2 DEF EndRun, Untouched, TypeOK
<1>3. ASSUME NEW d \in Cases, d # c, FileRun(d) PROVE Untouched(c)
  <2>1. runs[d] \in Ring!Trace
    BY <1>1, <1>3 DEF TypeOK, FileRun
  <2>2. Ring!Holds(ring', c) => Ring!Holds(ring, c) /\ ring'.traces[c] = ring.traces[c]
    BY <1>1, <1>3, <2>1, PutLeavesOthers DEF FileRun
  <2> QED
    BY <1>1, <1>3, <2>2 DEF FileRun, Untouched, TypeOK
<1>4. ASSUME NEW d \in Cases, d # c, Report(d) PROVE Untouched(c)
  <2>1. Ring!Holds(ring', c) => Ring!Holds(ring, c) /\ ring'.traces[c] = ring.traces[c]
    BY <1>1, <1>4 DEF Report, Ring!Holds, TypeOK, Ring!RingOK
  <2> QED
    BY <1>1, <1>4, <2>1 DEF Report, Untouched, TypeOK
<1>5. ASSUME NEW d \in Cases, d # c, TimeOutResume(d) PROVE Untouched(c)
  <2>1. Ring!Holds(ring', c) => Ring!Holds(ring, c) /\ ring'.traces[c] = ring.traces[c]
    <3> DEFINE trace == Ring!WithSpan(resumes[d].trace, "reporting", TRUE)
    <3>1. ring' = ring \/ ring' = [ring EXCEPT !.traces[d] = trace]
      BY <1>5 DEF TimeOutResume
    <3> HIDE DEF trace
    <3>2. CASE ring' = ring
      BY <3>2
    <3>3. CASE ring' = [ring EXCEPT !.traces[d] = trace]
      BY <1>1, <1>5, <3>3 DEF Ring!Holds, TypeOK, Ring!RingOK
    <3> QED
      BY <3>1, <3>2, <3>3
  <2> QED
    BY <1>1, <1>5, <2>1 DEF TimeOutResume, Untouched, TypeOK
<1>6. ASSUME NEW d \in Cases, d # c, FileResume(d) PROVE Untouched(c)
  <2>1. resumes[d].trace \in Ring!Trace
    BY <1>1, <1>6 DEF TypeOK, FileResume, Resume
  <2>2. Ring!Holds(ring', c) => Ring!Holds(ring, c) /\ ring'.traces[c] = ring.traces[c]
    BY <1>1, <1>6, <2>1, PutLeavesOthers DEF FileResume
  <2> QED
    BY <1>1, <1>6, <2>2 DEF FileResume, Untouched, TypeOK
<1>7. ASSUME NEW s \in Sessions, NEW d \in Cases, d # c, RunDetection(s, d) PROVE Untouched(c)
  <2>1. ToSet(opened) \subseteq ToSet(opened')
    <3>1. opened \in Seq(Cases) /\ opened' = Append(opened, d)
      BY <1>1, <1>7 DEF RunDetection, TypeOK
    <3>2. \A i \in DOMAIN opened : i \in DOMAIN opened' /\ opened'[i] = opened[i]
      BY <3>1
    <3> QED
      BY <3>2 DEF ToSet
  <2> QED
    BY <1>1, <1>7, <2>1 DEF RunDetection, Untouched, TypeOK
<1>8. ASSUME NEW s \in Sessions, NEW d \in Cases, d # c, DeleteCase(s, d) PROVE Untouched(c)
  BY <1>1, <1>8 DEF DeleteCase, Untouched, TypeOK
<1>9. ASSUME NEW s \in Sessions, NEW action \in { "approve", "override", "close" },
             Decide(s, action), shown[s].case # c
      PROVE  Untouched(c)
  BY <1>1, <1>9, ReviewFacts DEF Decide, Untouched, TypeOK
<1>10. ASSUME NEW s \in Sessions,
              \/ Answer(s) \/ ApplyRequestedView(s) \/ NewInvestigation(s)
              \/ \E d \in Cases : OpenCase(s, d)
              \/ \E v \in Views : Navigate(s, v)
       PROVE  Untouched(c)
  BY <1>10 DEF Answer, ApplyRequestedView, NewInvestigation, OpenCase, Navigate, Untouched
<1>11. CASE UNCHANGED vars
  BY <1>11 DEF vars, Untouched
<1> QED
  BY <1>2, <1>3, <1>4, <1>5, <1>6, <1>7, <1>8, <1>9, <1>10, <1>11 DEF Next, CaseStep, SessionStep

-----------------------------------------------------------------------------
(* One case, by the steps that touch it.                                   *)

LEMMA EndRunKeeps ==
  ASSUME Inv, NEW c \in Cases, EndRun(c)
  PROVE  CaseOK(c)'
<1> USE DEF server, browser
<1>1. TypeOK /\ Turns(c)
  BY DEF Inv, CaseOK
<1>2. PICK t \in Outcome \cup CutShort, spans \in SUBSET Ring!Hop :
        /\ t \in Outcome => spans = IF t.state = "INPUT_REQUIRED" THEN { "findings" } ELSE Ring!Hop
        /\ tasks' = IF tasks[c] = Nothing THEN tasks ELSE [tasks EXCEPT ![c] = t]
        /\ runs' = [runs EXCEPT ![c] = [spans |-> spans, errors |-> t.lost]]
  BY DEF EndRun
<1> DEFINE trace == [spans |-> spans, errors |-> t.lost]
<1>3. /\ t \in StoredTask
      /\ t.state = "INPUT_REQUIRED" => t.risk = "HIGH" /\ t.lost = {} /\ spans = { "findings" }
      /\ t.state = "COMPLETED" => spans = Ring!Hop
      /\ t.state = "WORKING" => FALSE
  BY <1>2 DEF Outcome, CutShort
<1>4. /\ runs[c] = Running /\ runs'[c] = trace /\ trace.spans = spans /\ trace.errors = t.lost
      /\ tasks'[c] = IF Stored(c) THEN t ELSE Nothing
      /\ UNCHANGED << opened, resumes, ring, untraced, early >>
  BY <1>1, <1>2 DEF EndRun, TypeOK, Stored
<1>5. trace \in Ring!Trace /\ trace # Running /\ runs[c] # Nothing /\ ~Asked(c)
  BY <1>1, <1>3, <1>4, DistinctAssumption DEF Ring!Trace, StoredTask, Turns
<1> HIDE DEF trace
<1>6. Ring!Holds(ring, c) => c \in early /\ c \in untraced
  BY <1>1, <1>5 DEF Turns, TypeOK
<1>7. Turns(c)'
  BY <1>1, <1>3, <1>4, <1>5 DEF Turns, In, Stored, Asked
<1>8. Losses(c)'
  BY <1>4, <1>5, <1>6 DEF Losses, Stored, Asked, Traced
<1>9. Timeline(c)'
  BY <1>3, <1>4, <1>5, <1>6 DEF Timeline, Stored, In, Asked, Traced
<1> QED
  BY <1>7, <1>8, <1>9 DEF CaseOK

LEMMA FileRunKeeps ==
  ASSUME Inv, NEW c \in Cases, FileRun(c)
  PROVE  CaseOK(c)'
<1> USE DEF server, browser
<1>1. TypeOK /\ CaseOK(c)
  BY DEF Inv
<1>2. runs[c] \in Ring!Trace /\ Traced(c)
  BY <1>1 DEF FileRun, TypeOK, Traced
<1>3. Ring!Holds(ring', c) /\ ring'.traces[c] = runs[c]
  BY <1>1, <1>2, PutFacts DEF FileRun, PutTrace, TypeOK
<1>4. runs'[c] = Nothing /\ UNCHANGED << tasks, opened, resumes, untraced, early >>
  BY <1>1 DEF FileRun, TypeOK
<1>5. Asked(c) => c \in early /\ c \in untraced
  BY <1>1, <1>2 DEF CaseOK, Turns, TypeOK, Traced
<1>6. Turns(c)'
  BY <1>1, <1>2, <1>3, <1>4, DistinctAssumption DEF CaseOK, Turns, In, Stored, Asked, Traced
<1>7. Losses(c)'
  BY <1>1, <1>2, <1>3, <1>4, <1>5 DEF CaseOK, Losses, Stored, Asked, Traced
<1>8. Timeline(c)'
  BY <1>1, <1>2, <1>3, <1>4, <1>5 DEF CaseOK, Timeline, Stored, In, Asked, Traced
<1> QED
  BY <1>6, <1>7, <1>8 DEF CaseOK

LEMMA ReportKeeps ==
  ASSUME Inv, NEW c \in Cases, Report(c)
  PROVE  CaseOK(c)'
<1> USE DEF server, browser
<1>1. TypeOK /\ CaseOK(c)
  BY DEF Inv
<1>2. resumes[c] \in Resume /\ Asked(c) /\ resumes[c].step = "reporting"
  BY <1>1 DEF Report, TypeOK, Asked
<1>3. PICK ok \in BOOLEAN :
        LET trace == Ring!WithSpan(resumes[c].trace, "reporting", ok)
        IN /\ resumes' = [resumes EXCEPT ![c].trace = trace, ![c].step = "filing"]
           /\ ring' = IF resumes[c].shared /\ Ring!Holds(ring, c)
                      THEN [ring EXCEPT !.traces[c] = trace] ELSE ring
           /\ tasks' = IF tasks[c] = Nothing THEN tasks
                       ELSE [tasks EXCEPT ![c].state = "COMPLETED",
                               ![c].lost = IF ok THEN {} ELSE { "reporting" },
                               ![c].report = IF ok THEN resumes[c].band ELSE "none"]
  BY DEF Report
<1> DEFINE trace == Ring!WithSpan(resumes[c].trace, "reporting", ok)
           lost == IF ok THEN {} ELSE { "reporting" }
<1>4. /\ trace \in Ring!Trace /\ trace.spans = resumes[c].trace.spans \cup { "reporting" }
      /\ lost \subseteq trace.errors
  BY <1>2, SpanFacts DEF Resume
<1> HIDE DEF trace
<1>5. /\ resumes'[c].trace = trace /\ resumes'[c].step = "filing"
      /\ resumes'[c].shared = resumes[c].shared
  BY <1>1, <1>2, <1>3 DEF TypeOK, Resume, trace
<1>6. /\ ~Stored(c) => tasks'[c] = Nothing
      /\ Stored(c) => tasks'[c].state = "COMPLETED" /\ tasks'[c].lost = lost
  <2>1. CASE ~Stored(c)
    BY <1>3, <2>1 DEF Stored
  <2>2. CASE Stored(c)
    <3>1. tasks[c] \in StoredTask
      BY <1>1, <2>2 DEF Stored, TypeOK
    <3>2. tasks'[c] = [tasks[c] EXCEPT !.state = "COMPLETED", !.lost = lost,
                         !.report = IF ok THEN resumes[c].band ELSE "none"]
      BY <1>1, <1>3, <2>2 DEF Stored, TypeOK
    <3> QED
      BY <2>2, <3>1, <3>2 DEF StoredTask
  <2> QED
    BY <2>1, <2>2
<1>7. /\ Ring!Holds(ring', c) <=> Ring!Holds(ring, c)
      /\ resumes[c].shared /\ Ring!Holds(ring, c) => ring'.traces[c] = trace
      /\ ~resumes[c].shared => ring' = ring
  BY <1>1, <1>3 DEF Ring!Holds, TypeOK, Ring!RingOK, trace
<1> HIDE DEF lost
<1>8. UNCHANGED << runs, opened, untraced, early >>
  BY DEF Report
<1>9. resumes[c].shared \in BOOLEAN /\ early \subseteq untraced
  BY <1>1, <1>2 DEF Resume, TypeOK
<1>10. Turns(c)'
  BY <1>1, <1>2, <1>5, <1>6, <1>7, <1>8 DEF CaseOK, Turns, In, Stored, Asked
<1>11. Losses(c)'
  <2> SUFFICES ASSUME Stored(c)', c \notin early'
               PROVE  /\ Ring!Holds(ring', c) => lost \subseteq ring'.traces[c].errors
                      /\ ~Traced(c)'
                      /\ ~resumes[c].shared => ~Ring!Holds(ring', c)
    BY <1>4, <1>5, <1>6 DEF Losses, Stored, Asked
  <2>1. Stored(c) /\ c \notin early
    BY <1>6, <1>8 DEF Stored
  <2>2. runs[c] = Nothing
    BY <1>1, <1>2, <2>1 DEF CaseOK, Turns
  <2>3. ~resumes[c].shared => ~Ring!Holds(ring, c)
    BY <1>1, <1>2, <2>1 DEF CaseOK, Losses
  <2> QED
    BY <1>4, <1>7, <1>8, <1>9, <2>2, <2>3 DEF Traced
<1>12. Timeline(c)'
  <2> SUFFICES ASSUME c \notin untraced'
               PROVE  Timeline(c)'
    BY DEF Timeline
  <2>1. /\ resumes[c].shared /\ "findings" \in trace.spans /\ "reporting" \in trace.spans
        /\ runs[c] = Nothing
    BY <1>1, <1>2, <1>4, <1>8, <1>9 DEF CaseOK, Timeline, Turns
  <2>2. Ring!Hop \subseteq trace.spans
    BY <2>1 DEF Ring!Hop
  <2> QED
    BY <1>5, <1>6, <1>7, <1>8, <2>1, <2>2 DEF Timeline, Stored, In, Asked, Traced
<1> QED
  BY <1>10, <1>11, <1>12 DEF CaseOK

LEMMA TimeOutKeeps ==
  ASSUME Inv, NEW c \in Cases, TimeOutResume(c)
  PROVE  CaseOK(c)'
<1> USE DEF server, browser
<1>1. TypeOK /\ CaseOK(c)
  BY DEF Inv
<1>2. resumes[c] \in Resume /\ Asked(c) /\ resumes[c].step = "reporting"
  BY <1>1 DEF TimeOutResume, TypeOK, Asked
<1> DEFINE trace == Ring!WithSpan(resumes[c].trace, "reporting", TRUE)
<1>3. ring' = IF resumes[c].shared /\ Ring!Holds(ring, c)
              THEN [ring EXCEPT !.traces[c] = trace] ELSE ring
  BY DEF TimeOutResume
<1> HIDE DEF trace
<1>4. /\ ~Stored(c) => tasks'[c] = Nothing
      /\ Stored(c) => tasks'[c].state = "FAILED" /\ tasks'[c].lost = {}
  <2>1. CASE ~Stored(c)
    BY <2>1 DEF Stored, TimeOutResume
  <2>2. CASE Stored(c)
    <3>1. tasks[c] \in StoredTask /\ tasks[c].lost = {}
      BY <1>1, <1>2, <2>2 DEF Stored, TypeOK, CaseOK, Turns
    <3>2. tasks'[c] = [tasks[c] EXCEPT !.state = "FAILED"]
      BY <1>1, <2>2 DEF Stored, TypeOK, TimeOutResume
    <3> QED
      BY <2>2, <3>1, <3>2 DEF StoredTask
  <2> QED
    BY <2>1, <2>2
<1>5. Ring!Holds(ring', c) <=> Ring!Holds(ring, c)
  BY <1>1, <1>3 DEF Ring!Holds, TypeOK, Ring!RingOK
<1>6. resumes'[c] = Nothing /\ UNCHANGED << runs, opened, untraced, early >>
  BY <1>1 DEF TimeOutResume, TypeOK
<1>7. Turns(c)'
  BY <1>1, <1>2, <1>4, <1>5, <1>6 DEF CaseOK, Turns, In, Stored, Asked
<1>8. Losses(c)'
  BY <1>4, <1>6 DEF Losses, Stored, Asked
<1>9. Timeline(c)'
  BY <1>4, <1>6 DEF Timeline, Stored, In, Asked
<1> QED
  BY <1>7, <1>8, <1>9 DEF CaseOK

LEMMA FileResumeKeeps ==
  ASSUME Inv, NEW c \in Cases, FileResume(c)
  PROVE  CaseOK(c)'
<1> USE DEF server, browser
<1>1. TypeOK /\ CaseOK(c)
  BY DEF Inv
<1>2. resumes[c].trace \in Ring!Trace /\ Asked(c) /\ resumes[c].step = "filing"
  BY <1>1 DEF FileResume, TypeOK, Asked, Resume
<1>3. Ring!Holds(ring', c) /\ ring'.traces[c] = resumes[c].trace
  BY <1>1, <1>2, PutFacts DEF FileResume, PutTrace, TypeOK
<1>4. resumes'[c] = Nothing /\ UNCHANGED << tasks, opened, runs, untraced, early >>
  BY <1>1 DEF FileResume, TypeOK
<1>5. runs[c] # Nothing => c \in early /\ c \in untraced
  BY <1>1, <1>2 DEF CaseOK, Turns, TypeOK
<1>6. Turns(c)'
  BY <1>1, <1>2, <1>3, <1>4, <1>5 DEF CaseOK, Turns, In, Stored, Asked
<1>7. Losses(c)'
  BY <1>1, <1>2, <1>3, <1>4, <1>5 DEF CaseOK, Losses, Stored, Asked, Traced
<1>8. Timeline(c)'
  <2> SUFFICES ASSUME c \notin untraced'
               PROVE  Timeline(c)'
    BY DEF Timeline
  <2>1. Ring!Hop \subseteq resumes[c].trace.spans /\ runs[c] = Nothing
    BY <1>1, <1>2, <1>4, <1>5 DEF CaseOK, Timeline, Ring!Hop
  <2> QED
    BY <1>3, <1>4, <2>1 DEF Timeline, Stored, In, Asked, Traced, Ring!Hop
<1> QED
  BY <1>6, <1>7, <1>8 DEF CaseOK

LEMMA RunDetectionKeeps ==
  ASSUME Inv, NEW s \in Sessions, NEW c \in Cases, RunDetection(s, c)
  PROVE  CaseOK(c)'
<1> USE DEF server, browser
<1>1. TypeOK /\ CaseOK(c)
  BY DEF Inv
<1>2. ~Stored(c) /\ runs[c] = Nothing /\ ~Asked(c) /\ ~Ring!Holds(ring, c)
  BY <1>1 DEF RunDetection, CaseOK, Turns
<1>3. /\ tasks'[c] = [state |-> "WORKING", lost |-> {}, risk |-> "none", report |-> "none"]
      /\ runs'[c] = Running /\ UNCHANGED << resumes, ring, untraced, early >>
  BY <1>1 DEF RunDetection, TypeOK
<1>4. c \in ToSet(opened')
  <2>1. opened \in Seq(Cases) /\ opened' = Append(opened, c)
    BY <1>1 DEF RunDetection, TypeOK
  <2>2. Len(opened) + 1 \in DOMAIN opened' /\ opened'[Len(opened) + 1] = c
    BY <2>1
  <2> QED
    BY <2>2 DEF ToSet
<1>5. Turns(c)'
  BY <1>2, <1>3, <1>4 DEF Turns, In, Stored, Asked
<1>6. Losses(c)'
  BY <1>2, <1>3 DEF Losses, Stored, Asked
<1>7. Timeline(c)'
  BY <1>2, <1>3 DEF Timeline, Stored, In, Asked
<1> QED
  BY <1>5, <1>6, <1>7 DEF CaseOK

\* Nothing is said of a case that is not stored but who may act on it.
LEMMA DeleteKeeps ==
  ASSUME Inv, NEW s \in Sessions, NEW c \in Cases, DeleteCase(s, c)
  PROVE  CaseOK(c)'
<1> USE DEF server, browser
<1>1. TypeOK /\ CaseOK(c)
  BY DEF Inv
<1>2. tasks'[c] = Nothing /\ UNCHANGED << opened, runs, resumes, ring, untraced, early >>
  BY <1>1 DEF DeleteCase, TypeOK
<1> QED
  BY <1>1, <1>2 DEF CaseOK, Turns, Losses, Timeline, In, Stored, Asked, Traced

LEMMA RestartKeeps ==
  ASSUME Inv, Restart, NEW c \in Cases
  PROVE  CaseOK(c)'
<1> USE DEF server, browser
<1>1. CaseOK(c)
  BY DEF Inv
<1>2. /\ ~Ring!Holds(ring', c) /\ runs'[c] = Nothing /\ resumes'[c] = Nothing
      /\ UNCHANGED << tasks, opened, untraced, early >>
  BY DEF Restart, Ring!Holds, Ring!EmptyRing
<1> QED
  BY <1>1, <1>2, DistinctAssumption
  DEF CaseOK, Turns, Losses, Timeline, In, Stored, Asked, Traced

LEMMA DecideKeeps ==
  ASSUME Inv, NEW s \in Sessions, NEW action, Decide(s, action), NEW c \in Cases,
         shown[s].case = c
  PROVE  CaseOK(c)'
<1> USE DEF server, browser
<1>1. TypeOK /\ CaseOK(c)
  BY DEF Inv
<1>2. PICK other \in Band :
        resumes' = [resumes EXCEPT ![c] =
          [trace |-> ResumedTrace(c), shared |-> Ring!Holds(ring, c), step |-> "reporting",
           band |-> DecidedBand(action, tasks[c].risk, other)]]
  BY DEF Decide
<1>3. /\ resumes'[c].trace = ResumedTrace(c) /\ resumes'[c].shared = Ring!Holds(ring, c)
      /\ resumes'[c].step = "reporting"
  BY <1>1, <1>2 DEF TypeOK
<1>4. /\ In(c, "INPUT_REQUIRED") /\ tasks[c] \in StoredTask
      /\ tasks' = [tasks EXCEPT ![c].state = "WORKING"]
      /\ untraced' = IF Ring!Holds(ring, c) THEN untraced ELSE untraced \cup { c }
      /\ early' = IF runs[c] = Nothing THEN early ELSE early \cup { c }
      /\ UNCHANGED << opened, runs, ring >>
  BY <1>1 DEF Decide, In, Stored, TypeOK
<1>5. tasks'[c].state = "WORKING" /\ tasks'[c].lost = {}
  BY <1>1, <1>4 DEF TypeOK, StoredTask, CaseOK, Turns
<1>6. runs[c] # Running
  BY <1>1, <1>4 DEF CaseOK, Turns, In
<1>7. Turns(c)'
  BY <1>1, <1>3, <1>4, <1>5, <1>6 DEF CaseOK, Turns, In, Stored, Asked
<1>8. Losses(c)'
  BY <1>3, <1>4, <1>5 DEF Losses, Stored, Asked
<1>9. Timeline(c)'
  <2>1. c \notin untraced' =>
          /\ Ring!Holds(ring, c) /\ ResumedTrace(c) = ring.traces[c]
          /\ "findings" \in ring.traces[c].spans
    BY <1>1, <1>4 DEF CaseOK, Timeline, In, ResumedTrace, Ring!SpansOf
  <2> QED
    BY <1>3, <1>4, <1>5, <2>1 DEF Timeline, Stored, In, Asked
<1> QED
  BY <1>7, <1>8, <1>9 DEF CaseOK

LEMMA InvStep == Inv /\ [Next]_vars => Inv'
<1> SUFFICES ASSUME Inv, [Next]_vars, NEW c \in Cases PROVE CaseOK(c)'
  BY TypesStep DEF Inv
<1>1. CaseOK(c)
  BY DEF Inv
<1> QED
  BY <1>1, Touched, UntouchedStaysOK, EndRunKeeps, FileRunKeeps, ReportKeeps, TimeOutKeeps,
     FileResumeKeeps, RunDetectionKeeps, DeleteKeeps, RestartKeeps, DecideKeeps

LEMMA InvInit == Init => Inv
<1> SUFFICES ASSUME Init PROVE Inv
  OBVIOUS
<1>1. ASSUME NEW c \in Cases PROVE CaseOK(c)
  <2>1. /\ ~Stored(c) /\ runs[c] = Nothing /\ ~Asked(c) /\ ~Ring!Holds(ring, c)
    BY DEF Init, Stored, Asked, Ring!Holds, Ring!EmptyRing
  <2> QED
    BY <2>1, DistinctAssumption DEF CaseOK, Turns, Losses, Timeline, In, Traced
<1> QED
  BY <1>1, InitTypes DEF Inv

LEMMA InvAlways == Spec => []Inv
<1> QED
  BY InvInit, InvStep, PTL DEF Spec

\* Every state of the console is made of the values its readers take, for any
\* number of cases and sessions: the ring within its bound, no context in it
\* twice, no band filed that is none.
THEOREM ConsoleTypes == Spec => []TypeOK
<1>1. Inv => TypeOK
  BY DEF Inv
<1> QED
  BY <1>1, InvAlways, PTL

\* A case decided while its trace was to be had keeps the whole timeline, however
\* small the ring is and however its steps meet those of other cases.
THEOREM TimelinesSurviveReview == Spec => []TimelineSurvivesReview
<1>1. Inv => TimelineSurvivesReview
  <2> SUFFICES ASSUME Inv, NEW c \in Cases \ untraced, In(c, "COMPLETED"), Ring!Holds(ring, c)
               PROVE  ring.traces[c].spans = Ring!Hop
    BY DEF TimelineSurvivesReview, In, Stored
  <2>1. Ring!Hop \subseteq ring.traces[c].spans
    BY DEF Inv, CaseOK, Timeline
  <2>2. ring.traces[c].spans \subseteq Ring!Hop
    BY DEF Inv, TypeOK, Ring!RingOK, Ring!Holds, Ring!Trace
  <2> QED
    BY <2>1, <2>2
<1> QED
  BY <1>1, InvAlways, PTL

-----------------------------------------------------------------------------
(* What a session has fetched stays true of a decision made in time.       *)

ShownOK(s) ==
  shown[s] # Nothing =>
    /\ shown[s].task.state = "INPUT_REQUIRED" => shown[s].task.lost = {}
    /\ shown[s].trace # Nothing /\ shown[s].case \notin early =>
         shown[s].task.lost \subseteq shown[s].trace.errors

ShownInv == \A s \in Sessions : ShownOK(s)

LEMMA FetchIsOK ==
  ASSUME Inv, NEW c \in Cases, Stored(c), NEW s \in Sessions, shown'[s] = Fetch(c),
         early' = early
  PROVE  ShownOK(s)'
<1>1. TypeOK /\ CaseOK(c)
  BY DEF Inv
<1>2. /\ Fetch(c).case = c /\ Fetch(c).task = tasks[c]
      /\ Fetch(c).trace # Nothing => Ring!Holds(ring, c) /\ Fetch(c).trace = ring.traces[c]
  BY <1>1, FetchFacts
<1>3. tasks[c].state = "INPUT_REQUIRED" => tasks[c].lost = {}
  BY <1>1 DEF CaseOK, Turns, In
<1>4. Ring!Holds(ring, c) /\ c \notin early => tasks[c].lost \subseteq ring.traces[c].errors
  BY <1>1 DEF CaseOK, Losses
<1> QED
  BY <1>2, <1>3, <1>4 DEF ShownOK

LEMMA ShownStep == Inv /\ ShownInv /\ [Next]_vars => ShownInv'
<1> SUFFICES ASSUME Inv, ShownInv, [Next]_vars, NEW s \in Sessions PROVE ShownOK(s)'
  BY DEF ShownInv
<1> USE DEF server, browser
<1>1. TypeOK /\ ShownOK(s)
  BY DEF Inv, ShownInv
<1>2. ASSUME shown'[s] = shown[s] \/ shown'[s] = Nothing, early \subseteq early' PROVE ShownOK(s)'
  BY <1>1, <1>2 DEF ShownOK
<1>3. ASSUME NEW c \in Cases, CaseStep(c) PROVE ShownOK(s)'
  BY <1>2, <1>3 DEF CaseStep, EndRun, FileRun, Report, TimeOutResume, FileResume
<1>4. ASSUME NEW x \in Sessions, Answer(x) PROVE ShownOK(s)'
  <2> DEFINE c == waiting[x][2]
  <2>1. c \in Cases
    BY <1>1, <1>4 DEF TypeOK, Answer
  <2>2. /\ shown' = IF tasks[c] = Nothing THEN shown ELSE [shown EXCEPT ![x] = Fetch(c)]
        /\ early' = early
    BY <1>4 DEF Answer
  <2> HIDE DEF c
  <2>3. shown'[s] = shown[s] \/ (Stored(c) /\ shown'[s] = Fetch(c))
    BY <1>1, <2>2 DEF TypeOK, Stored
  <2> QED
    BY <1>2, <2>1, <2>2, <2>3, FetchIsOK
<1>5. ASSUME NEW x \in Sessions, NEW c \in Cases, OpenCase(x, c) PROVE ShownOK(s)'
  <2>1. Stored(c)
    BY <1>1, <1>5, ListedIsStored DEF OpenCase, TypeOK
  <2>2. early' = early /\ (shown'[s] = shown[s] \/ shown'[s] = Fetch(c))
    BY <1>1, <1>5 DEF OpenCase, TypeOK
  <2> QED
    BY <1>2, <2>1, <2>2, FetchIsOK
<1>6. ASSUME NEW x \in Sessions, NewInvestigation(x) PROVE ShownOK(s)'
  BY <1>1, <1>2, <1>6 DEF NewInvestigation, TypeOK
<1>7. ASSUME NEW x \in Sessions, NEW c \in Cases, DeleteCase(x, c) PROVE ShownOK(s)'
  BY <1>1, <1>2, <1>7 DEF DeleteCase, TypeOK
<1>8. ASSUME NEW x \in Sessions,
             \/ ApplyRequestedView(x)
             \/ \E c \in Cases : RunDetection(x, c)
             \/ \E v \in Views : Navigate(x, v)
             \/ \E action \in { "approve", "override", "close" } : Decide(x, action)
      PROVE  ShownOK(s)'
  BY <1>2, <1>8 DEF ApplyRequestedView, RunDetection, Navigate, Decide
<1>9. CASE Restart \/ UNCHANGED vars
  BY <1>2, <1>9 DEF Restart, vars
<1> QED
  BY <1>3, <1>4, <1>5, <1>6, <1>7, <1>8, <1>9 DEF Next, SessionStep

\* No page presents a case as a verdict that lost a hop, as long as it fetched
\* the trace and the case was not decided before its run was done: whatever is
\* evicted, deleted, decided or timed out between the fetch and the look.
THEOREM LossesAreShown == Spec => []LossIsShown
<1>1. Init => ShownInv
  BY DEF Init, ShownInv, ShownOK
<1>2. ShownInv => LossIsShown
  <2> SUFFICES ASSUME ShownInv, NEW s \in Sessions, shown[s] # Nothing,
                      shown[s].trace # Nothing, shown[s].case \notin early,
                      NEW hop \in shown[s].task.lost
               PROVE  Panel(shown[s]) = "withheld" /\ Node(shown[s], hop) = "error"
    BY DEF LossIsShown
  <2>1. hop \in FailedSpans(shown[s]) /\ shown[s].task.state # "INPUT_REQUIRED"
    BY DEF ShownInv, ShownOK, FailedSpans
  <2> QED
    BY <2>1 DEF Panel, Headline, Node
<1> QED
  BY <1>1, <1>2, InvAlways, ShownStep, PTL DEF Spec

-----------------------------------------------------------------------------
(* Whoever entered the ring later than a context was put since it did.     *)

AgeInv ==
  /\ \A c \in Cases : Ring!Holds(ring, c) => since[c] # Nothing
  /\ \A i, j \in DOMAIN ring.order : i < j => ring.order[j] \in since[ring.order[i]]
  /\ \A c \in Cases : since[c] # Nothing => IsFiniteSet(since[c])
  /\ RingForgetsOldest

\* As many others behind the first of a sequence without repetitions.
LEMMA BehindTheFirst ==
  ASSUME NEW n \in Nat, NEW q, \A i, j \in 1 .. n + 1 : q[i] = q[j] => i = j,
         NEW S, IsFiniteSet(S), \A j \in 2 .. n + 1 : q[j] \in S
  PROVE  Cardinality(S) >= n
<1> DEFINE f == [i \in 1 .. n |-> q[i + 1]]
<1>1. \A i \in 1 .. n : i + 1 \in 2 .. n + 1 /\ i + 1 \in 1 .. n + 1
  OBVIOUS
<1>2. f \in [1 .. n -> S]
  BY <1>1
<1>3. ASSUME NEW i \in 1 .. n, NEW j \in 1 .. n, f[i] = f[j] PROVE i = j
  <2>1. i + 1 = j + 1
    BY <1>1, <1>3
  <2> QED
    BY <2>1
<1> HIDE DEF f
<1>4. f \in Injection(1 .. n, S)
  BY <1>2, <1>3, Fun_IsInj
<1>5. Cardinality(1 .. n) <= Cardinality(S)
  BY <1>4, FS_Injection
<1>6. Cardinality(1 .. n) = n
  <2>1. 0 \in Nat /\ 1 \in Int /\ n >= 0 /\ n \in Int
    OBVIOUS
  <2> QED
    BY <2>1, FS_Interval
<1>7. Cardinality(S) \in Nat
  BY FS_CardinalityType
<1> QED
  BY <1>5, <1>6, <1>7

LEMMA PutKeepsAge ==
  ASSUME TypeOK, AgeInv, NEW c \in Cases, NEW trace \in Ring!Trace, PutTrace(c, trace)
  PROVE  AgeInv'
<1> DEFINE e == Ring!Entered(ring, c)
<1>1. Ring!RingOK(ring) /\ ring' = Ring!Put(ring, c, trace) /\ MaxTraces \in Nat
  BY ConsoleAssumption DEF TypeOK, PutTrace
<1>2. /\ e \in Seq(Cases) /\ Ring!IsInjective(e)
      /\ \A i \in DOMAIN ring.order : e[i] = ring.order[i]
      /\ \A i \in DOMAIN e : i \in DOMAIN ring.order \/ (i = Len(e) /\ e[i] = c)
      /\ Ring!Holds(ring, c) => e = ring.order
  BY <1>1, EnteredFacts
<1>3. /\ Ring!Holds(ring', c)
      /\ \A x : x # c /\ Ring!Holds(ring', x) => Ring!Holds(ring, x)
      /\ \A x : x # c /\ Ring!Holds(ring, x) /\ ~Ring!Holds(ring', x) =>
           Len(e) = MaxTraces + 1 /\ x = e[1] /\ ~Ring!Holds(ring, c)
  BY <1>1, PutFacts
<1>4. PICK over \in { 0, 1 } :
        /\ DOMAIN ring'.order = 1 .. Len(e) - over
        /\ \A i \in DOMAIN ring'.order : ring'.order[i] = e[i + over]
  BY <1>1, PutFacts
<1> HIDE DEF e
<1>5. \A x \in Cases :
        since'[x] = IF x = c THEN IF Ring!Holds(ring, c) THEN since[c] ELSE {}
                    ELSE IF since[x] = Nothing THEN Nothing ELSE since[x] \cup { c }
  BY DEF PutTrace
<1>6. \A x \in Cases : since[x] # Nothing => since[x] \in SUBSET Cases
  BY DEF TypeOK
<1>7. /\ {} # Nothing
      /\ \A x \in Cases : since[x] # Nothing => since[x] \cup { c } # Nothing
  BY <1>6, DistinctAssumption
<1>8. \A x \in Cases : Ring!Holds(ring, x) => since[x] # Nothing
  BY DEF AgeInv
<1>9. ASSUME NEW x \in Cases, Ring!Holds(ring', x) PROVE since'[x] # Nothing
  BY <1>3, <1>5, <1>7, <1>8, <1>9
<1>10. ASSUME NEW x \in Cases, Ring!Holds(ring, x) PROVE since[x] \subseteq since'[x]
  BY <1>5, <1>8, <1>10
<1>11. ASSUME NEW i \in DOMAIN e, NEW j \in DOMAIN e, i < j PROVE e[j] \in since'[e[i]]
  <2>1. /\ e[i] \in Cases /\ DOMAIN e = 1 .. Len(e) /\ Len(e) \in Nat
    BY <1>2
  <2>2. i \in DOMAIN ring.order
    BY <1>2, <1>11, <2>1
  <2>3. Ring!Holds(ring, e[i])
    BY <1>1, <1>2, <2>2 DEF Ring!Holds, Ring!RingOK, Ring!ToSet
  <2>4. CASE j \in DOMAIN ring.order
    <3>1. ring.order[j] \in since[ring.order[i]]
      BY <1>11, <2>2, <2>4 DEF AgeInv
    <3> QED
      BY <1>2, <1>10, <2>1, <2>2, <2>3, <2>4, <3>1
  <2>5. CASE j = Len(e) /\ e[j] = c /\ j \notin DOMAIN ring.order
    <3>1. e[i] # c
      BY <1>2, <1>11, <2>1, <2>5 DEF Ring!IsInjective
    <3> QED
      BY <1>5, <1>8, <2>1, <2>3, <2>5, <3>1
  <2> QED
    BY <1>2, <2>4, <2>5
<1>12. ASSUME NEW x \in Cases, since'[x] # Nothing PROVE IsFiniteSet(since'[x])
  <2>1. since[x] # Nothing => IsFiniteSet(since[x])
    BY DEF AgeInv
  <2>2. CASE x = c
    <3>1. IsFiniteSet({})
      BY FS_EmptySet
    <3> QED
      BY <1>5, <1>12, <2>1, <2>2, <3>1
  <2>3. CASE x # c
    <3>1. since[x] # Nothing /\ since'[x] = since[x] \cup { c }
      BY <1>5, <1>12, <2>3
    <3> QED
      BY <2>1, <3>1, FS_AddElement
  <2> QED
    BY <2>2, <2>3
<1>13. ASSUME NEW x \in Cases, since'[x] # Nothing, ~Ring!Holds(ring', x)
       PROVE  Cardinality(since'[x]) >= MaxTraces
  <2>1. /\ x # c /\ since[x] # Nothing /\ since'[x] = since[x] \cup { c }
        /\ IsFiniteSet(since'[x])
    BY <1>3, <1>5, <1>12, <1>13
  <2>2. CASE Ring!Holds(ring, x)
    <3>1. Len(e) = MaxTraces + 1 /\ x = e[1] /\ DOMAIN e = 1 .. MaxTraces + 1
      BY <1>2, <1>3, <1>13, <2>1, <2>2
    <3>2. \A i, j \in 1 .. MaxTraces + 1 : e[i] = e[j] => i = j
      BY <1>2, <3>1 DEF Ring!IsInjective
    <3>3. \A j \in 2 .. MaxTraces + 1 : e[j] \in since'[x]
      <4> SUFFICES ASSUME NEW j \in 2 .. MaxTraces + 1 PROVE e[j] \in since'[x]
        OBVIOUS
      <4>1. 1 \in DOMAIN e /\ j \in DOMAIN e /\ 1 < j
        BY <1>1, <3>1
      <4> QED
        BY <1>11, <3>1, <4>1
    <3> HIDE DEF e
    <3> QED
      BY <1>1, <2>1, <3>2, <3>3, BehindTheFirst
  <2>3. CASE ~Ring!Holds(ring, x)
    <3>1. Cardinality(since[x]) >= MaxTraces
      BY <2>1, <2>3 DEF AgeInv, RingForgetsOldest
    <3>2. since[x] \in SUBSET since'[x]
      BY <2>1
    <3>3. IsFiniteSet(since[x]) /\ Cardinality(since[x]) <= Cardinality(since'[x])
      BY <2>1, <3>2, FS_Subset
    <3>4. Cardinality(since[x]) \in Nat /\ Cardinality(since'[x]) \in Nat
      BY <2>1, <3>3, FS_CardinalityType
    <3> QED
      BY <1>1, <3>1, <3>3, <3>4
  <2> QED
    BY <2>2, <2>3
<1>14. ASSUME NEW i \in DOMAIN ring'.order, NEW j \in DOMAIN ring'.order, i < j
       PROVE  ring'.order[j] \in since'[ring'.order[i]]
  <2>1. /\ i + over \in DOMAIN e /\ j + over \in DOMAIN e /\ i + over < j + over
    <3>1. DOMAIN e = 1 .. Len(e) /\ Len(e) \in Nat
      BY <1>2
    <3>2. CASE over = 0
      BY <1>4, <1>14, <3>1, <3>2
    <3>3. CASE over = 1
      BY <1>4, <1>14, <3>1, <3>3
    <3> QED
      BY <1>4, <3>2, <3>3
  <2> QED
    BY <1>4, <1>11, <2>1
<1> QED
  BY <1>9, <1>12, <1>13, <1>14 DEF AgeInv, RingForgetsOldest

LEMMA AgeStep == Inv /\ AgeInv /\ [Next]_vars => AgeInv'
<1> SUFFICES ASSUME Inv, AgeInv, [Next]_vars PROVE AgeInv'
  OBVIOUS
<1> USE DEF server, browser
<1>1. TypeOK
  BY DEF Inv
<1>2. ASSUME UNCHANGED since, ring'.order = ring.order, \A c \in Cases : Ring!Holds(ring', c) <=> Ring!Holds(ring, c)
      PROVE  AgeInv'
  BY <1>2 DEF AgeInv, RingForgetsOldest
<1>3. ASSUME UNCHANGED << since, ring >> PROVE AgeInv'
  BY <1>2, <1>3
<1>4. ASSUME NEW c \in Cases, FileRun(c) PROVE AgeInv'
  BY <1>1, <1>4, PutKeepsAge DEF FileRun, TypeOK
<1>5. ASSUME NEW c \in Cases, FileResume(c) PROVE AgeInv'
  BY <1>1, <1>5, PutKeepsAge DEF FileResume, TypeOK, Resume
<1>6. ASSUME NEW c \in Cases, Report(c) \/ TimeOutResume(c) PROVE AgeInv'
  <2>1. since' = since /\ \E trace : ring' = ring \/ ring' = [ring EXCEPT !.traces[c] = trace]
    BY <1>6 DEF Report, TimeOutResume
  <2>2. PICK trace : ring' = ring \/ ring' = [ring EXCEPT !.traces[c] = trace]
    BY <2>1
  <2>3. CASE ring' = ring
    BY <1>3, <2>1, <2>3
  <2>4. CASE ring' = [ring EXCEPT !.traces[c] = trace]
    <3>1. ring'.order = ring.order /\ DOMAIN ring'.traces = DOMAIN ring.traces
      BY <1>1, <2>4 DEF TypeOK, Ring!RingOK
    <3> QED
      BY <1>2, <2>1, <3>1 DEF Ring!Holds
  <2> QED
    BY <2>2, <2>3, <2>4
<1>7. ASSUME NEW c \in Cases, EndRun(c) PROVE AgeInv'
  BY <1>3, <1>7, SMTT(60) DEF EndRun
<1>8. ASSUME NEW s \in Sessions, SessionStep(s) PROVE AgeInv'
  BY <1>3, <1>8 DEF SessionStep, RunDetection, OpenCase, DeleteCase, Answer, ApplyRequestedView,
                    NewInvestigation, Navigate, Decide
<1>9. CASE Restart
  <2>1. /\ \A c \in Cases : ~Ring!Holds(ring', c) /\ since'[c] = Nothing
        /\ DOMAIN ring'.order = {}
    BY <1>9 DEF Restart, Ring!EmptyRing, Ring!Holds
  <2> QED
    BY <2>1 DEF AgeInv, RingForgetsOldest
<1>10. CASE UNCHANGED vars
  BY <1>3, <1>10 DEF vars
<1> QED
  BY <1>4, <1>5, <1>6, <1>7, <1>8, <1>9, <1>10 DEF Next, CaseStep

\* A trace is forgotten only for as many newer ones as the ring has places, for
\* rings of any size.
THEOREM RingsForgetTheOldest == Spec => []RingForgetsOldest
<1>1. Init => AgeInv
  <2> SUFFICES ASSUME Init PROVE AgeInv
    OBVIOUS
  <2>1. /\ \A c \in Cases : ~Ring!Holds(ring, c) /\ since[c] = Nothing
        /\ DOMAIN ring.order = {}
    BY DEF Init, Ring!EmptyRing, Ring!Holds
  <2> QED
    BY <2>1 DEF AgeInv, RingForgetsOldest
<1>2. AgeInv => RingForgetsOldest
  BY DEF AgeInv
<1> QED
  BY <1>1, <1>2, InvAlways, AgeStep, PTL DEF Spec
================================================================================
