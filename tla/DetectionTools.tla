---------------------------- MODULE DetectionTools ----------------------------
(***************************************************************************)
(* What the four specialists find in a profile (app/tools/finance.py over  *)
(* the tables of app/tools/datasets.py, and the agents that call it).      *)
(*                                                                         *)
(* A name is the sequence of its tokens, a country a member of Countries,  *)
(* a date the number of its day, an amount a whole number of dollars.  The *)
(* transactions of a profile are a bag: a function from the different rows *)
(* to how often each is in the ledger, because no finding depends on their *)
(* order.  The likeness of two tokens is given, in thousandths.            *)
(***************************************************************************)
EXTENDS RiskModel

CONSTANTS
  Likeness,              \* _jaro_winkler of two tokens, in thousandths
  SanctionedNames,       \* SANCTIONS_ENTRIES
  PepNames,              \* PEP_LIST
  HighRiskParties,       \* HIGH_RISK_COUNTERPARTIES
  BlockedCountries,      \* BLOCKED_JURISDICTIONS
  HighRiskCountries,     \* HIGH_RISK_COUNTRIES
  MediumRiskCountries,   \* MEDIUM_RISK_COUNTRIES
  IndustryRisk           \* INDUSTRY_RISK

\* The tokens the names are made of.
Tokens == { pair[1] : pair \in DOMAIN Likeness }
ASSUME LikenessAssumption == Likeness \in [Tokens \X Tokens -> 0 .. 1000]
ASSUME ListsAssumption ==
  /\ SanctionedNames \subseteq Seq(Tokens) /\ IsFiniteSet(SanctionedNames)
  /\ PepNames \subseteq Seq(Tokens) /\ IsFiniteSet(PepNames)
ASSUME IndustryAssumption == IndustryRisk \in [DOMAIN IndustryRisk -> 0 .. 100]

Nobody == << >>          \* a name without a token
Nowhere == ""            \* a country that is not given
NoIndustry == ""         \* an industry that is not given
Undated == 0             \* a date that does not parse

ASSUME CountriesAssumption == Nowhere \notin BlockedCountries

LikenessOf(x, y) == Likeness[<< x, y >>]

\* name_match_score, 0 to 100: every token of the shorter name counts with its
\* best counterpart, and the mean is damped by how much of the longer is left.
NameMatch(a, b) ==
  LET short == IF Len(a) <= Len(b) THEN a ELSE b
      long == IF Len(a) <= Len(b) THEN b ELSE a
      best == [i \in DOMAIN short |-> Max({ LikenessOf(short[i], long[j]) : j \in DOMAIN long })]
      total == SumFunction(best)
  IN  IF Nobody \in { a, b } THEN 0
      ELSE IF a = b THEN 100
      ELSE RoundDiv(total * (6 * Len(long) + 4 * Len(short)), 100 * Len(short) * Len(long))

BestMatch(name, entries) == Max({ 0 } \cup { NameMatch(name, e) : e \in entries })

CountryRisk(c) ==
  IF c = Nowhere THEN 20
  ELSE IF c \in BlockedCountries THEN 100
  ELSE IF c \in HighRiskCountries THEN 70
  ELSE IF c \in MediumRiskCountries THEN 40 ELSE 10

IndustryScore(industry) ==
  IF industry = NoIndustry THEN 0
  ELSE IF industry \in DOMAIN IndustryRisk THEN IndustryRisk[industry] ELSE 20

------------------------------------------------------------------------------
(* KYC: verify_identity and screen_pep.                                    *)

\* data_quality_score.  The schema lets no profile in without a full name.
IdentityQuality(p) ==
  LET bad == { field \in { "born", "numbered", "unexpired" } : ~p.identity[field] }
  IN  100 - 25 * Cardinality(bad) - (IF p.sourced THEN 0 ELSE 10)

VerifyIdentity(p) ==
  [quality         |-> IdentityQuality(p),
   verified        |-> \A field \in DOMAIN p.identity : p.identity[field],
   declaredPep     |-> p.declaredPep,
   nationalityRisk |-> IF p.nationality = Nowhere THEN 0 ELSE CountryRisk(p.nationality),
   taxRisk         |-> IF p.tax = Nowhere THEN 0 ELSE CountryRisk(p.tax),
   industryRisk    |-> IndustryScore(p.industry),
   remote          |-> p.remote,
   incomeMismatch  |-> p.income > 0 /\ 12 * p.expected > 3 * p.income]

ScreenPep(name) ==
  [isPep |-> BestMatch(name, PepNames) >= 88, pepMatch |-> BestMatch(name, PepNames)]

KycFindings(p) ==
  LET identity == VerifyIdentity(p)
      pep == ScreenPep(p.name)
  IN  [lost            |-> FALSE,
       quality         |-> identity.quality,
       verified        |-> identity.verified,
       isPep           |-> pep.isPep,
       pepMatch        |-> pep.pepMatch,
       declaredPep     |-> identity.declaredPep,
       nationalityRisk |-> identity.nationalityRisk,
       taxRisk         |-> identity.taxRisk,
       industryRisk    |-> identity.industryRisk,
       remote          |-> identity.remote,
       incomeMismatch  |-> identity.incomeMismatch]

------------------------------------------------------------------------------
(* Sums and windows over a ledger.                                         *)

NoRows == << >>
Rows(ledger) == DOMAIN ledger
RowCount(ledger, rows) == SumFunctionOnSet(ledger, rows)
Volume(ledger, rows) == SumFunctionOnSet([r \in rows |-> ledger[r] * r.amount], rows)
Thousandths(part, whole) == IF whole = 0 THEN 0 ELSE RoundDiv(1000 * part, whole)

In(ledger) == { r \in Rows(ledger) : r.direction = "in" }
Out(ledger) == { r \in Rows(ledger) : r.direction = "out" }
Cash(ledger) == { r \in Rows(ledger) : r.channel = "cash" }
Crypto(ledger) == { r \in Rows(ledger) : r.channel = "crypto" }
FromHighRisk(ledger) ==
  { r \in Rows(ledger) : r.country # Nowhere /\ CountryRisk(r.country) >= 70 }

\* _velocity_7d: the busiest seven days and the days from first to last, both
\* zero as long as fewer than three rows carry a date.
Dated(ledger) == { r \in Rows(ledger) : r.day # Undated }
EnoughDates(ledger) == RowCount(ledger, Dated(ledger)) >= 3
WeekFrom(ledger, day) == { r \in Rows(ledger) : r.day \in day .. day + 7 }
BusiestWeek(ledger) ==
  IF ~EnoughDates(ledger) THEN 0
  ELSE Max({ RowCount(ledger, WeekFrom(ledger, first.day)) : first \in Dated(ledger) })
SpanDays(ledger) ==
  LET days == { r.day : r \in Dated(ledger) }
  IN  IF EnoughDates(ledger) THEN Max(days) - Min(days) ELSE 0

------------------------------------------------------------------------------
(* AML: analyze_transactions.                                              *)

StructuringThreshold == 10000
\* Mutant of NearThreshold, without the lower limit.
NearThresholdUnbounded(ledger) == { r \in Rows(ledger) : r.amount < StructuringThreshold }

NearThreshold(ledger) ==
  { r \in Rows(ledger) :
      100 * r.amount >= 85 * StructuringThreshold /\ r.amount < StructuringThreshold }

\* How close under the limit the near ones are: 0 at 85 % of it, 1000 at it.
Proximity(ledger) ==
  LET n == RowCount(ledger, NearThreshold(ledger))
      volume == Volume(ledger, NearThreshold(ledger))
  IN  IF n = 0 THEN 0
      ELSE RoundDiv(1000 * (20 * volume - 17 * n * StructuringThreshold),
                    3 * n * StructuringThreshold)

\* What went in and out with one party.  Rows that name none are one flow, but
\* no row is a pass-through row of it.
OfParties(ledger, parties) == { r \in Rows(ledger) : r.party \in parties }
Received(ledger, party) == Volume(ledger, In(ledger) \cap OfParties(ledger, { party }))
Sent(ledger, party) == Volume(ledger, Out(ledger) \cap OfParties(ledger, { party }))
Less(ledger, party) == Min({ Received(ledger, party), Sent(ledger, party) })
More(ledger, party) == Max({ Received(ledger, party), Sent(ledger, party) })
PassThrough(ledger) ==
  { party \in { r.party : r \in Rows(ledger) } :
      /\ Less(ledger, party) > 0
      /\ 10 * Less(ledger, party) >= 6 * More(ledger, party)
      /\ More(ledger, party) >= 2000 }
Symmetry(ledger) ==
  Max({ 0 } \cup { Thousandths(Less(ledger, party), More(ledger, party)) :
                     party \in PassThrough(ledger) })

\* The part of the money of some rows that is cash.
CashShare(ledger, rows) ==
  Thousandths(Volume(ledger, Cash(ledger) \cap rows), Volume(ledger, rows))

\* Mutant of CashRatio, against everything that moved.
CashRatioOfAll(ledger) == CashShare(ledger, Rows(ledger))

\* Cash is measured against the side it moves on.
CashRatio(ledger) == Max({ CashShare(ledger, In(ledger)), CashShare(ledger, Out(ledger)) })

\* Inflow against what was expected over the months the ledger covers, in
\* hundredths; a ledger of less than thirty days counts for a month.
Months(ledger) == Max({ 30, SpanDays(ledger) })
OverRatio(ledger, expected) ==
  IF expected = 0 THEN 0
  ELSE RoundDiv(3000 * Volume(ledger, In(ledger)), expected * Months(ledger))

NoLedger(attested) ==
  [lost |-> FALSE, ledger |-> FALSE, attested |-> attested, count |-> 0,
   structuring |-> FALSE, nearCount |-> 0, proximity |-> 0,
   rapid |-> FALSE, symmetry |-> 0, passShare |-> 0, velocity |-> FALSE, burst |-> 0,
   cashRatio |-> 0, crypto |-> FALSE, cryptoShare |-> 0,
   riskyParties |-> FALSE, partyShare |-> 0, countryRisk |-> 0, countryShare |-> 0,
   overExpected |-> FALSE, overRatio |-> 0, sarCandidate |-> FALSE]

AnalyzeLedger(ledger, expected, attested) ==
  LET ShareOf(rows) == Thousandths(Volume(ledger, rows), Volume(ledger, Rows(ledger)))
      near == RowCount(ledger, NearThreshold(ledger))
      passing == PassThrough(ledger)
      risky == OfParties(ledger, HighRiskParties)
      cash == CashRatio(ledger)
      over == /\ expected > 0
              /\ 30 * Volume(ledger, In(ledger)) > 3 * expected * Months(ledger)
      hasCrypto == Volume(ledger, Crypto(ledger)) > 0
      hasRisky == risky # {}
      signals == << near >= 3, passing # {}, cash >= 300, hasCrypto, hasRisky, over,
                    BusiestWeek(ledger) >= 8 >>
  IN  [lost         |-> FALSE,
       ledger       |-> TRUE,
       attested     |-> attested,
       count        |-> RowCount(ledger, Rows(ledger)),
       structuring  |-> near >= 3,
       nearCount    |-> near,
       proximity    |-> Proximity(ledger),
       rapid        |-> passing # {},
       symmetry     |-> Symmetry(ledger),
       passShare    |-> ShareOf(OfParties(ledger, passing \ { Nobody })),
       velocity     |-> BusiestWeek(ledger) >= 8,
       burst        |-> BusiestWeek(ledger),
       cashRatio    |-> cash,
       crypto       |-> hasCrypto,
       cryptoShare  |-> ShareOf(Crypto(ledger)),
       riskyParties |-> hasRisky,
       partyShare   |-> ShareOf(risky),
       countryRisk  |-> Max({ 0 } \cup { CountryRisk(r.country) : r \in FromHighRisk(ledger) }),
       countryShare |-> ShareOf(FromHighRisk(ledger)),
       overExpected |-> over,
       overRatio    |-> OverRatio(ledger, expected),
       sarCandidate |-> Cardinality({ i \in DOMAIN signals : signals[i] }) >= 2]

\* Nothing is invented where there is no ledger.
AnalyzeTransactions(p, ledger) ==
  IF ledger = NoRows THEN NoLedger(p.attested)
  ELSE AnalyzeLedger(ledger, p.expected, p.attested)

------------------------------------------------------------------------------
(* Fraud: detect_fraud.                                                    *)

\* round(base + top1 * ramp1 + top2 * ramp2), a ramp being << value, lo, hi >>.
Weight(base, top1, ramp1, top2, ramp2) ==
  LET N(ramp) == Clamped(ramp[1], ramp[2], ramp[3]) - ramp[2]
      D(ramp) == ramp[3] - ramp[2]
  IN  RoundDiv(base * D(ramp1) * D(ramp2) + top1 * N(ramp1) * D(ramp2)
                 + top2 * N(ramp2) * D(ramp1),
               D(ramp1) * D(ramp2))
Flat == << 0, 0, 1 >>

\* What each of the eight typologies weighs, 0 for the ones that are not there.
Typologies(ledger, age) ==
  LET If(found, weight) == IF found THEN weight ELSE 0
      moved == Volume(ledger, In(ledger))
      count == RowCount(ledger, Rows(ledger))
      small == RowCount(ledger, { r \in Rows(ledger) : r.channel = "card" /\ r.amount < 100 })
      SeenOnce(party) == RowCount(ledger, OfParties(ledger, { party })) = 1
      firstTime == { r \in Out(ledger) : r.amount >= 5000 /\ SeenOnce(r.party) }
      payees == { r.party : r \in Out(ledger) } \ { Nobody }
      drained == << 10 * Volume(ledger, Out(ledger)), 8 * moved, 10 * moved >>
      countries == { r.country : r \in Rows(ledger) } \ { Nowhere }
      round == RowCount(ledger, { r \in Rows(ledger) : r.amount >= 1000 /\ r.amount % 1000 = 0 })
      largest == Max({ r.amount : r \in Rows(ledger) })
      week == BusiestWeek(ledger)
  IN  << If(age \in 1 .. 29 /\ count >= 10,
            Weight(20, 15, << count, 10, 40 >>, 5, << 30 - age, 0, 25 >>)),
         If(small >= 3, Weight(15, 15, << small, 3, 15 >>, 0, Flat)),
         If(firstTime # {},
            Weight(15, 10, << Cardinality(firstTime), 1, 5 >>,
                   8, << Max({ 0 } \cup { r.amount : r \in firstTime }), 5000, 50000 >>)),
         If(/\ Cardinality(payees) >= 4
            /\ moved > 0
            /\ drained[1] >= drained[2],
            Weight(15, 12, << Cardinality(payees), 4, 15 >>, 6, drained)),
         If(Cardinality(countries) >= 3,
            Weight(10, 12, << Cardinality(countries), 3, 10 >>, 0, Flat)),
         If(round >= 3, Weight(6, 10, << round, 3, 12 >>, 0, Flat)),
         If(age \in 1 .. 13 /\ largest >= 10000,
            Weight(12, 14, << largest, 10000, 100000 >>, 0, Flat)),
         If(week >= 6, Weight(12, 16, << week, 6, 25 >>, 0, Flat)) >>

DetectFraud(p, ledger) ==
  LET found == Typologies(ledger, p.age)
      score == Min({ 100, SumFunction(found) })
  IN  IF ledger = NoRows
      THEN [lost |-> FALSE, assessed |-> FALSE, score |-> 0, alert |-> FALSE]
      ELSE [lost |-> FALSE, assessed |-> TRUE, score |-> score, alert |-> score >= 50]

------------------------------------------------------------------------------
(* Sanctions: the agent hands over the parties of the rows that name one,  *)
(* and screen_sanctions looks at their names and at their countries.       *)

ScreenSanctions(name, country, counterparties) ==
  LET own == BestMatch(name, SanctionedNames)
  IN  [lost            |-> FALSE,
       tier            |-> CASE own >= 85 -> "STRONG" [] own \in 70 .. 84 -> "POSSIBLE"
                             [] OTHER -> "NONE",
       counterpartyHit |-> \E party \in counterparties :
                             BestMatch(party.name, SanctionedNames) >= 85,
       blockedExposure |-> \/ CountryRisk(country) = 100
                           \/ \E party \in counterparties : CountryRisk(party.country) = 100]

SanctionsFindings(p, ledger) ==
  ScreenSanctions(p.name, p.country,
    { [name |-> r.party, country |-> r.country] : r \in { q \in Rows(ledger) : q.party # Nobody } })

------------------------------------------------------------------------------
(* What is read where a specialist left nothing: the default of every key. *)

NoKyc == [lost |-> TRUE, quality |-> 100, verified |-> TRUE, isPep |-> FALSE, pepMatch |-> 100,
          declaredPep |-> FALSE, nationalityRisk |-> 0, taxRisk |-> 0, industryRisk |-> 0,
          remote |-> FALSE, incomeMismatch |-> FALSE]
NoAml == [NoLedger({}) EXCEPT !.lost = TRUE, !.ledger = TRUE]
NoFraud == [lost |-> TRUE, assessed |-> TRUE, score |-> 0, alert |-> FALSE]
NoSanctions == [lost |-> TRUE, tier |-> "NONE", counterpartyHit |-> FALSE,
                blockedExposure |-> FALSE]
==============================================================================
