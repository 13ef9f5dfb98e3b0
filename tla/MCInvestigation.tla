--------------------------- MODULE MCInvestigation ---------------------------
(* Instances of Investigation for TLC.                                     *)
EXTENDS Investigation, TLC

\* One specialist that can alarm is enough for the gate and for degraded
\* runs; two make the order of the pipeline and the step limit visible.
OneSpecialist  == << "sanctions" >>
TwoSpecialists == << "kyc", "sanctions" >>

ReviewOn == [review |-> TRUE, iterations |-> 6]
Defaults == { ReviewOn }
Varied   == { ReviewOn, [ReviewOn EXCEPT !.review = FALSE],
              [ReviewOn EXCEPT !.iterations = 0] }

MCSymmetry == Permutations(Decisions)
=============================================================================
