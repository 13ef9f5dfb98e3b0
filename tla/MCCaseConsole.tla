----------------------------- MODULE MCCaseConsole -----------------------------
(* Instances of CaseConsole for TLC.                                       *)
EXTENDS CaseConsole, TLC

MCSymmetry == Permutations(Cases) \cup Permutations(Sessions)
=============================================================================
