------------------------------- MODULE RiskModel -------------------------------
(***************************************************************************)
(* The risk rating (app/agents/risk.py): five dimensions, a blend over the *)
(* ones that could be assessed, the escalation floors, the confidence and  *)
(* the decision.  It is a function of the specialists' findings, which are *)
(* records here; a specialist that was lost left an empty one, and every   *)
(* default below is the one risk.py reads an empty record with.            *)
(*                                                                         *)
(* The numbers are whole: a rounded ratio x/n is RoundDiv, a share of a    *)
(* volume is in thousandths (the code rounds it to three places), and the  *)
(* points of an indicator are in hundredths.                               *)
(***************************************************************************)
EXTENDS Integers, Sequences, FiniteSetsExt

Band == { "LOW", "MEDIUM", "HIGH", "CRITICAL" }

\* RISK_BANDS and band_for.
BandFor(score) ==
  CASE score >= 75 -> "CRITICAL"
    [] score \in 50 .. 74 -> "HIGH"
    [] score \in 25 .. 49 -> "MEDIUM"
    [] OTHER -> "LOW"

\* round(n / d), halves to the even neighbour, for n >= 0 and d > 0.
RoundDiv(n, d) ==
  LET q == n \div d
      r == n % d
  IN  IF 2 * r > d \/ (2 * r = d /\ q % 2 = 1) THEN q + 1 ELSE q

Clamped(v, lo, hi) == IF v < lo THEN lo ELSE IF v > hi THEN hi ELSE v

\* top * _ramp(v, lo, hi), in hundredths of a point.
Share(top, v, lo, hi) == RoundDiv(100 * top * (Clamped(v, lo, hi) - lo), hi - lo)

\* _combine: the noisy-OR of the points, none of which counts for more than 99.
Damped(points, i, left) == RoundDiv(left * (10000 - Clamped(points[i], 0, 9900)), 10000)
Remaining(points) == FoldSet(LAMBDA i, left : Damped(points, i, left), 100000, DOMAIN points)
Combine(points) == RoundDiv(100000 - Remaining(points), 1000)

BandCeiling(floor) ==
  CASE floor < 25 -> 24 [] floor \in 25 .. 49 -> 49 [] floor \in 50 .. 74 -> 74 [] OTHER -> 100

\* Mutant of ApplyFloor, which leaves the floor's band.
ApplyFloorToTheTop(n, d, floor) ==
  Max({ RoundDiv(n, d), RoundDiv(100 * floor * d + (100 - floor) * n, 100 * d) })

\* _apply_floor: the blend n / d raised to the floor, and spread over the room
\* between the floor and the top of its band.
ApplyFloor(n, d, floor) ==
  Max({ RoundDiv(n, d),
        RoundDiv(100 * floor * d + (BandCeiling(floor) - floor) * n, 100 * d) })

------------------------------------------------------------------------------
(* The dimensions.                                                         *)

Dims == { "sanctions", "transaction", "fraud", "geographic", "customer" }

DIMENSION_WEIGHTS ==
  [sanctions |-> 25, transaction |-> 22, fraud |-> 20, geographic |-> 18, customer |-> 15]

\* What an analyst may attest, and what it weighs.
ATTESTED_INDICATORS ==
  [structuring |-> 30, rapid_movement |-> 22, offshore_shell |-> 18,
   high_risk_jurisdiction |-> 15, crypto_exposure |-> 14, large_vs_income |-> 14]

Assessed(score) == [score |-> Clamped(score, 0, 100), assessed |-> TRUE]
NotAssessed == [score |-> 0, assessed |-> FALSE]

SanctionsDim(s) ==
  LET own == CASE s.tier = "STRONG" -> 100 [] s.tier = "POSSIBLE" -> 55 [] OTHER -> 0
      paid == IF s.counterpartyHit THEN 100 ELSE 0
      blocked == IF s.blockedExposure THEN 60 ELSE 0
  IN  Assessed(Max({ own, paid, blocked }))

\* Every indicator that fired: what it is worth for firing at all, and more for
\* how hard it fired.
LedgerPoints(a) ==
  LET If(fired, points) == IF fired THEN points ELSE 0
  IN  [structuring |->
         If(a.structuring, 2200 + Share(13, a.nearCount, 3, 9) + Share(8, a.proximity, 0, 1000)),
       rapid |->
         If(a.rapid, 1400 + Share(11, a.symmetry, 0, 1000) + Share(8, a.passShare, 100, 600)),
       velocity |-> If(a.velocity, 800 + Share(14, a.burst, 8, 25)),
       cash     |-> If(a.cashRatio >= 300, 1000 + Share(25, a.cashRatio, 300, 1000)),
       crypto   |-> If(a.crypto, 600 + Share(16, a.cryptoShare, 0, 500)),
       parties  |-> If(a.riskyParties, 900 + Share(18, a.partyShare, 50, 600)),
       volume   |-> If(a.overExpected, 700 + Share(15, a.overRatio, 300, 1200))]

TransactionDim(a) ==
  IF a.ledger THEN Assessed(Combine(LedgerPoints(a)))
  ELSE IF a.attested = {} THEN NotAssessed
  ELSE Assessed(Combine([i \in a.attested |-> 100 * ATTESTED_INDICATORS[i]]))

FraudDim(f) == IF f.assessed THEN Assessed(f.score) ELSE NotAssessed

\* The worst jurisdiction leads and the others still count.
GeographicDim(residence, k, a) ==
  LET parties == IF a.countryRisk >= 70
                 THEN RoundDiv(a.countryRisk
                                 * (45 * 450 + 55 * (Clamped(a.countryShare, 50, 500) - 50)),
                               45000)
                 ELSE a.countryRisk
      primary == Max({ residence, k.nationalityRisk, k.taxRisk, parties })
      rest == residence + k.nationalityRisk + k.taxRisk + parties - primary
  IN  Assessed(RoundDiv(1000 * primary + (100 - primary) * rest, 1000))

CustomerDim(k) ==
  LET pep == IF k.isPep THEN 5000 + Share(15, k.pepMatch, 88, 100)
             ELSE IF k.declaredPep THEN 4500 ELSE 0
      industry == IF k.industryRisk >= 40 THEN 800 + Share(24, k.industryRisk, 40, 85) ELSE 0
  IN  Assessed(Combine(
        [pep      |-> pep,
         industry |-> industry,
         remote   |-> IF k.remote THEN 1200 ELSE 0,
         income   |-> IF k.incomeMismatch THEN 2000 ELSE 0,
         identity |-> IF k.quality < 75 THEN 50 * (100 - k.quality) ELSE 0]))

------------------------------------------------------------------------------
(* The rating.                                                             *)

Dimensions(residence, k, a, s, f) ==
  [sanctions   |-> SanctionsDim(s),
   transaction |-> TransactionDim(a),
   fraud       |-> FraudDim(f),
   geographic  |-> GeographicDim(residence, k, a),
   customer    |-> CustomerDim(k)]

\* The blend is Blended \div WeightSum, over the dimensions that were assessed.
Counted(dims) == { d \in Dims : dims[d].assessed }
Weighted(dims, Value(_)) ==
  LET Of(d) == IF dims[d].assessed THEN DIMENSION_WEIGHTS[d] * Value(d) ELSE 0
  IN  Of("sanctions") + Of("transaction") + Of("fraud") + Of("geographic") + Of("customer")
WeightSum(dims) == Weighted(dims, LAMBDA d : 1)
Blended(dims) == Weighted(dims, LAMBDA d : dims[d].score)

\* Evidence that calls for a filing whatever the blend says.
WarrantsFiling(a, f) == a.sarCandidate \/ f.alert

\* Mutant of EscalationFloors, where evidence for a filing raises nothing.
EscalationFloorsWithoutFiling(k, a, s, f) ==
  LET layered == \/ a.structuring /\ a.rapid
                 \/ { "structuring", "rapid_movement" } \subseteq a.attested
  IN  UNION { IF s.tier = "STRONG" \/ s.counterpartyHit THEN { 90 } ELSE {},
              IF s.blockedExposure \/ layered \/ f.score >= 70 THEN { 60 } ELSE {},
              IF k.isPep \/ k.declaredPep THEN { 30 } ELSE {} }

\* The floors that apply, of which only the highest is used.
EscalationFloors(k, a, s, f) ==
  LET layered == \/ a.structuring /\ a.rapid
                 \/ { "structuring", "rapid_movement" } \subseteq a.attested
  IN  UNION { IF s.tier = "STRONG" \/ s.counterpartyHit THEN { 90 } ELSE {},
              IF s.blockedExposure \/ layered \/ f.score >= 70 THEN { 60 } ELSE {},
              IF k.isPep \/ k.declaredPep THEN { 30 } ELSE {},
              IF WarrantsFiling(a, f) THEN { 25 } ELSE {} }

Overall(dims, floors) ==
  Clamped(IF floors = {} THEN RoundDiv(Blended(dims), WeightSum(dims))
          ELSE ApplyFloor(Blended(dims), WeightSum(dims), Max(floors)), 0, 100)

\* _confidence: what the rating rests on, and the ceilings for thin evidence.
\* An empty KYC record counts as half complete.
MinPatternRows == 5

\* Mutant of Confidence, where weighing the missing evidence is thought enough.
ConfidenceWithoutCeiling(k, a, s, dims) ==
  LET quality == IF k.lost THEN 50 ELSE k.quality
      evidence == Min({ 100, 8 * a.count })
      value == RoundDiv(35 * quality + 30 * WeightSum(dims) + 35 * evidence, 100)
  IN  Clamped(IF s.tier = "POSSIBLE" THEN value - 10 ELSE value, 0, 100)

Confidence(k, a, s, dims) ==
  LET quality == IF k.lost THEN 50 ELSE k.quality
      evidence == Min({ 100, 8 * a.count })
      ceiling == IF ~a.ledger THEN 40 ELSE IF a.count < MinPatternRows THEN 49 ELSE 100
      value == Min({ ceiling,
                     RoundDiv(35 * quality + 30 * WeightSum(dims) + 35 * evidence, 100) })
  IN  Clamped(IF s.tier = "POSSIBLE" THEN value - 10 ELSE value, 0, 100)

ConfidenceLabel(value) ==
  IF value >= 75 THEN "HIGH" ELSE IF value >= 50 THEN "MEDIUM" ELSE "LOW"

DecisionFor(band) ==
  CASE band = "CRITICAL" -> "decline_and_file"
    [] band = "HIGH"     -> "enhanced_diligence"
    [] band = "MEDIUM"   -> "standard_diligence"
    [] band = "LOW"      -> "approve"

When(holds, action) == IF holds THEN << action >> ELSE << >>

BaseActions(band) ==
  CASE band = "CRITICAL" -> << "freeze", "file_sar", "escalate", "do_not_tip_off" >>
    [] band = "HIGH"     -> << "enhanced_diligence", "source_of_funds", "sign_off", "watch" >>
    [] band = "MEDIUM"   -> << "standard_diligence", "review_yearly", "watch_patterns" >>
    [] band = "LOW"      -> << "standard_monitoring", "review_routinely" >>

\* _actions: what comes before the ones of the band, and what after them.
Actions(band, k, a, s, f) ==
  When(s.tier = "STRONG", "block_transactions")
    \o When(~a.ledger, "obtain_ledger")
    \o When(~a.ledger /\ a.attested # {}, "corroborate")
    \o BaseActions(band)
    \o When(s.tier = "POSSIBLE", "review_match")
    \o When(k.isPep, "declare_pep")
    \o When(a.structuring, "review_cash")
    \o When(a.rapid, "review_layering")
    \o When(f.alert, "open_fraud_case")
    \o When(~k.verified, "verify_again")

\* RiskExecutor.analyze.
Assess(residence, k, a, s, f) ==
  LET dims == Dimensions(residence, k, a, s, f)
      score == Overall(dims, EscalationFloors(k, a, s, f))
      band == BandFor(score)
  IN  [lost       |-> FALSE,
       score      |-> score,
       band       |-> band,
       sar        |-> band \in { "HIGH", "CRITICAL" } \/ WarrantsFiling(a, f),
       decision   |-> DecisionFor(band),
       actions    |-> Actions(band, k, a, s, f),
       unassessed |-> Dims \ Counted(dims),
       confidence |-> Confidence(k, a, s, dims)]

\* What is read where Risk left nothing.
NoRating == [lost |-> TRUE, score |-> 0, band |-> "LOW", sar |-> FALSE,
             decision |-> "none", actions |-> << >>, unassessed |-> {}, confidence |-> 0]
==============================================================================
