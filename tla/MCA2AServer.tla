---------------------------- MODULE MCA2AServer ----------------------------
(* Instances of A2AServer for TLC.                                         *)
EXTENDS A2AServer, TLC

\* What the executors of this repository publish: a specialist
\* (agents/base.py), an orchestrator that pauses for review, and one that
\* refuses a delegation beyond the depth limit (agents/orchestrator.py).
Specialist == << "WORKING", "ARTIFACT", "COMPLETED" >>
PausesForReview == << "WORKING", "ARTIFACT", "INPUT_REQUIRED" >>
RefusesDepth == << "REJECTED" >>

MCScripts == { Specialist, PausesForReview, RefusesDepth }

\* The same without the artifacts, which no liveness property looks at.
MCShortScripts ==
  { << "WORKING", "COMPLETED" >>, << "WORKING", "INPUT_REQUIRED" >>, RefusesDepth }

MCSymmetry == Permutations(Tasks)
=============================================================================
