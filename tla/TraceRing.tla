------------------------------- MODULE TraceRing -------------------------------
(***************************************************************************)
(* TraceStore (app/observability/trace.py): the traces of the most recent  *)
(* investigations, by context, in memory only.  The ring is the record     *)
(* [order, traces] of its two fields: the contexts by first insertion, and *)
(* the trace each of them has.  A trace is what the console reads of it:   *)
(* the hops it has a span for and those whose span carries an error.       *)
(***************************************************************************)
EXTENDS Naturals, Sequences, FiniteSets, SequencesExt

CONSTANTS
  Contexts,   \* the contexts there may be
  MaxTraces   \* max_traces, 200 in the code

\* The hops to the specialists and to Risk, told apart from the last one only.
Hop == { "findings", "reporting" }

\* InvestigationTrace and its Spans.
Trace == [spans : SUBSET Hop, errors : SUBSET Hop]
NoSpans == [spans |-> {}, errors |-> {}]

\* trace.span(): a hop is recorded when its block is left, however it is left.
WithSpan(trace, hop, ok) ==
  [spans  |-> trace.spans \cup { hop },
   errors |-> IF ok THEN trace.errors ELSE trace.errors \cup { hop }]

EmptyRing == [order |-> << >>, traces |-> << >>]

Holds(ring, context) == context \in DOMAIN ring.traces

\* A put that enters a context it already has a second time.
MutEntered(ring, context) == Append(ring.order, context)

\* The order after entering a context, before anything is evicted.
Entered(ring, context) ==
  IF Holds(ring, context) THEN ring.order ELSE Append(ring.order, context)

\* put: enter the context, keep the trace, drop the oldest beyond the bound.
Put(ring, context, trace) ==
  LET entered == Entered(ring, context)
      over    == IF Len(entered) > MaxTraces THEN Len(entered) - MaxTraces ELSE 0
      dropped == ToSet(SubSeq(entered, 1, over))
      kept    == (DOMAIN ring.traces \cup { context }) \ dropped
  IN [order  |-> SubSeq(entered, over + 1, Len(entered)),
      traces |-> [c \in kept |-> IF c = context THEN trace ELSE ring.traces[c]]]

\* get, with NoSpans standing for a missing trace's empty span list.
SpansOf(ring, context) == IF Holds(ring, context) THEN ring.traces[context] ELSE NoSpans

RingOK(ring) ==
  /\ ring.order \in Seq(Contexts)
  /\ Len(ring.order) <= MaxTraces
  /\ IsInjective(ring.order)
  /\ DOMAIN ring.traces = ToSet(ring.order)
  /\ \A c \in DOMAIN ring.traces : ring.traces[c] \in Trace
=============================================================================
