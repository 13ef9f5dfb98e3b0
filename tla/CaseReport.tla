------------------------------- MODULE CaseReport -------------------------------
(***************************************************************************)
(* What the investigation report tells its reader (app/agents/reporting.py) *)
(* by what each section claims and not by how it words it.  An empty record *)
(* is a specialist that was lost.                                           *)
(***************************************************************************)
EXTENDS RiskModel, Sequences

Undecided == [action |-> "none", band |-> "none"]
NotAvailable == [status |-> "not_available"]

\* Mutant of Classification, which reads the band off the score.
ClassificationByScore(risk) ==
  [band |-> BandFor(risk.score), score |-> risk.score, byAnalyst |-> FALSE]

\* The headline: a band that is not the score's is said to be an analyst's.
Classification(risk) ==
  [band |-> risk.band, score |-> risk.score, byAnalyst |-> risk.band # BandFor(risk.score)]

\* The label of the confidence; a rating that was lost has none.
ConfidenceOf(risk) == IF risk.lost THEN "n/a" ELSE ConfidenceLabel(risk.confidence)

SectionKyc(k) ==
  IF k.lost THEN NotAvailable
  ELSE [status |-> "assessed", verified |-> k.verified, pep |-> k.isPep \/ k.declaredPep]

SectionAml(a) ==
  IF a.lost THEN NotAvailable
  ELSE IF ~a.ledger THEN [status |-> "not_assessed", attested |-> a.attested]
  ELSE [status   |-> "assessed",
        detected |-> { c \in { "structuring", "rapid", "velocity", "overExpected", "crypto" } : a[c] }
                       \cup (IF a.cashRatio >= 300 THEN { "cash" } ELSE {}),
        sar      |-> a.sarCandidate]

SectionFraud(f) ==
  IF f.lost THEN NotAvailable
  ELSE IF ~f.assessed THEN [status |-> "not_assessed"]
  ELSE [status |-> "assessed", alert |-> f.alert]

SectionSanctions(s) ==
  IF s.lost THEN NotAvailable
  ELSE [status |-> "assessed", tier |-> s.tier, beneficiary |-> s.counterpartyHit,
        blocked |-> s.blockedExposure]

SectionRisk(risk) ==
  [final |-> Classification(risk), excluded |-> risk.unassessed, confidence |-> ConfidenceOf(risk)]

\* The coverage table.  An empty record counts as performed in it.
SectionEvidence(a, f, risk) ==
  [aml |-> a.ledger, fraud |-> f.assessed, screening |-> TRUE, record |-> TRUE,
   attested |-> a.attested, provisional |-> risk.unassessed # {}]

SectionDecision(risk, human) ==
  IF human = Undecided THEN [recorded |-> FALSE]
  ELSE [recorded |-> TRUE, action |-> human.action, band |-> human.band, final |-> risk.decision]

\* The data part of the artifact, which the console reads.
Summary(risk, human) ==
  [score |-> risk.score, band |-> risk.band, decision |-> risk.decision, sar |-> risk.sar,
   actions |-> risk.actions, reviewed |-> human # Undecided]

NoReport == [filed |-> FALSE]
Render(found, risk, human) ==
  [filed     |-> TRUE,
   headline  |-> Classification(risk),
   sar       |-> risk.sar,
   decision  |-> risk.decision,
   advice    |-> risk.actions,
   kyc       |-> SectionKyc(found.kyc),
   aml       |-> SectionAml(found.aml),
   fraud     |-> SectionFraud(found.fraud),
   sanctions |-> SectionSanctions(found.sanctions),
   risk      |-> SectionRisk(risk),
   evidence  |-> SectionEvidence(found.aml, found.fraud, risk),
   review    |-> SectionDecision(risk, human),
   summary   |-> Summary(risk, human)]
==============================================================================
