------------------------------- MODULE Screening -------------------------------
(***************************************************************************)
(* One case from the intake form to the filed report, by what is known of  *)
(* it: the rows typed into the ledger grid or posted to the API, what each *)
(* specialist finds in them (DetectionTools), the rating (RiskModel), the  *)
(* review gate and the analyst's decision (app/agents/orchestrator.py) and *)
(* the report (CaseReport).  The hops come one after the other, each       *)
(* answered or lost; how they interleave with other calls is in the module *)
(* Investigation.                                                          *)
(***************************************************************************)
EXTENDS DetectionTools, CaseReport, SequencesExt

CONSTANTS
  Profiles,   \* the customers
  Cells,      \* what a row of the grid may hold, by the name of the row
  Ledgers,    \* the ledgers to start from: how often each row is in it
  MaxTyped,   \* how many rows are typed on top of those
  MaxLost     \* how many hops may fail in one case

ASSUME BoundsAssumption == MaxTyped \in Nat /\ MaxLost \in Nat
ASSUME CellsAssumption ==
  /\ IsFiniteSet(DOMAIN Cells)
  /\ \A id \in DOMAIN Cells :
       Cells[id] \in [day : Nat, amount : Int, direction : STRING, party : Seq(Tokens),
                     channel : STRING, country : STRING]
ASSUME ProfilesAssumption ==
  Profiles \subseteq
    [name : Seq(Tokens), country : STRING, nationality : STRING, tax : STRING,
     identity : [{ "born", "numbered", "unexpired" } -> BOOLEAN], sourced : BOOLEAN,
     industry : STRING, remote : BOOLEAN, income : Nat, expected : Nat,
     declaredPep : BOOLEAN, age : Nat, attested : SUBSET DOMAIN ATTESTED_INDICATORS]
ASSUME LedgersAssumption == Ledgers \subseteq [DOMAIN Cells -> Nat]

VARIABLES
  profile,    \* the customer
  origin,     \* where the case comes from: the console's form or the API
  grid,       \* the rows as they were typed, by name
  typed,      \* how many of them were added
  stage,      \* the next hop, or where the case stands
  ledger,     \* the transactions of the accepted profile
  findings,   \* the artifacts of the specialists
  rating,     \* the risk_assessment artifact
  lost,       \* the hops that failed
  decision,   \* what the analyst decided, if one did
  report      \* the investigation_report artifact, if there is one

vars == << profile, origin, grid, typed, stage, ledger, findings, rating, lost, decision,
           report >>

Specialists == << "kyc", "aml", "sanctions", "fraud" >>
Over == { "rejected", "completed", "failed" }

NoFindings == [kyc |-> NoKyc, aml |-> NoAml, sanctions |-> NoSanctions, fraud |-> NoFraud]
\* override_band is any text, or none.
Decisions ==
  { [action |-> a, band |-> "none"] : a \in { "approve", "close" } }
    \cup { [action |-> "override", band |-> b] : b \in Band \cup { "none", "other" } }

Init ==
  /\ profile \in Profiles
  /\ origin \in { "form", "api" }
  /\ grid \in Ledgers
  /\ typed = 0
  /\ stage = "intake"
  /\ ledger = NoRows
  /\ findings = NoFindings
  /\ rating = NoRating
  /\ lost = {}
  /\ decision = Undecided
  /\ report = NoReport

------------------------------------------------------------------------------
(* Intake.                                                                 *)

Blank == "blank"
NoAmount == -1
Directions == { "in", "out" }
Channels == { "wire", "cash", "card", "crypto", "transfer", "cheque" }

\* clean_ledger: a row without an amount is none, and a cell the API would not
\* take falls back.
IsMovement(row) == row.amount > 0
\* Mutant of CleanRow, which keeps what was typed into the direction.
CleanRowAsTyped(row) == [row EXCEPT !.channel = IF @ \in Channels THEN @ ELSE "wire"]

CleanRow(row) ==
  [row EXCEPT !.direction = IF @ \in Directions THEN @ ELSE "in",
              !.channel = IF @ \in Channels THEN @ ELSE "wire"]

\* The rows that are posted: the API's callers post what they have.
Posted == { id \in DOMAIN grid : grid[id] > 0 /\ (origin = "form" => IsMovement(Cells[id])) }
RowOf(id) == IF origin = "form" THEN CleanRow(Cells[id]) ELSE Cells[id]

\* Transaction: a blank cell is dropped and takes its default, and there is none
\* for the amount.
Valid(row) ==
  /\ row.amount >= 0
  /\ row.direction \in Directions \cup { Blank }
  /\ row.channel \in Channels \cup { Blank }
WithDefaults(row) ==
  [row EXCEPT !.direction = IF @ = Blank THEN "in" ELSE @,
              !.channel = IF @ = Blank THEN "wire" ELSE @]

Acceptable == \A id \in Posted : Valid(RowOf(id))
Transactions ==
  [row \in { WithDefaults(RowOf(id)) : id \in Posted } |->
     SumFunctionOnSet(grid, { id \in Posted : WithDefaults(RowOf(id)) = row })]

AddRow(id) ==
  /\ stage = "intake" /\ typed < MaxTyped
  /\ grid' = [grid EXCEPT ![id] = @ + 1]
  /\ typed' = typed + 1
  /\ UNCHANGED << profile, origin, stage, ledger, findings, rating, lost, decision, report >>

\* POST /api/investigations: the whole profile is refused for one row.
Submit ==
  /\ stage = "intake"
  /\ IF Acceptable
     THEN stage' = "kyc" /\ ledger' = Transactions
     ELSE stage' = "rejected" /\ UNCHANGED ledger
  /\ UNCHANGED << profile, origin, grid, typed, findings, rating, lost, decision, report >>

------------------------------------------------------------------------------
(* The pipeline.                                                           *)

FindingsOf(role) ==
  CASE role = "kyc"       -> KycFindings(profile)
    [] role = "aml"       -> AnalyzeTransactions(profile, ledger)
    [] role = "sanctions" -> SanctionsFindings(profile, ledger)
    [] role = "fraud"     -> DetectFraud(profile, ledger)

NextHop(role) ==
  CASE role = "kyc" -> "aml" [] role = "aml" -> "sanctions" [] role = "sanctions" -> "fraud"
    [] role = "fraud" -> "risk"

\* A hop that is lost leaves an empty record, and the pipeline goes on.
Delegate(role) ==
  /\ stage = role
  /\ stage' = NextHop(role)
  /\ \/ findings' = [findings EXCEPT ![role] = FindingsOf(role)] /\ UNCHANGED lost
     \/ /\ Cardinality(lost) < MaxLost
        /\ lost' = lost \cup { role }
        /\ UNCHANGED findings
  /\ UNCHANGED << profile, origin, grid, typed, ledger, rating, decision, report >>

AssessRisk ==
  /\ stage = "risk"
  /\ stage' = "gate"
  /\ \/ /\ rating' = Assess(CountryRisk(profile.country), findings.kyc, findings.aml,
                            findings.sanctions, findings.fraud)
        /\ UNCHANGED lost
     \/ /\ Cardinality(lost) < MaxLost
        /\ lost' = lost \cup { "risk" }
        /\ UNCHANGED rating
  /\ UNCHANGED << profile, origin, grid, typed, ledger, findings, decision, report >>

RequiresReview ==
  \/ rating.band \in { "HIGH", "CRITICAL" } \/ rating.sar
  \/ findings.sanctions.tier = "STRONG" \/ findings.sanctions.counterpartyHit

Pause ==
  /\ stage = "gate" /\ lost = {} /\ RequiresReview
  /\ stage' = "paused"
  /\ UNCHANGED << profile, origin, grid, typed, ledger, findings, rating, lost, decision,
                  report >>

\* The rating Reporting is given: the artifact's, or the analyst's over it.  The
\* decision keeps what it was for a band that is none of the four.
RatingAfter(human) ==
  CASE human.action = "override" /\ human.band # "none" ->
         [rating EXCEPT !.band = human.band,
                        !.decision = IF human.band \in Band THEN DecisionFor(human.band) ELSE @,
                        !.sar = human.band \in { "HIGH", "CRITICAL" }]
    [] human.action = "close" ->
         [rating EXCEPT !.band = "LOW", !.decision = "no_action", !.sar = FALSE]
    [] OTHER -> rating

\* The run's own report, which ends it, with or without what was lost.
FileReport ==
  /\ stage = "gate" /\ ~(lost = {} /\ RequiresReview)
  /\ \/ /\ report' = Render(findings, rating, Undecided)
        /\ stage' = IF lost = {} THEN "completed" ELSE "failed"
        /\ UNCHANGED lost
     \/ /\ Cardinality(lost) < MaxLost
        /\ lost' = lost \cup { "reporting" }
        /\ stage' = "failed"
        /\ UNCHANGED report
  /\ UNCHANGED << profile, origin, grid, typed, ledger, findings, rating, decision >>

\* _resume: the report of a decided case; the run completes without it, too.
Decide(human) ==
  /\ stage = "paused"
  /\ decision' = human
  /\ stage' = "completed"
  /\ \/ report' = Render(findings, RatingAfter(human), human) /\ UNCHANGED lost
     \/ /\ Cardinality(lost) < MaxLost
        /\ lost' = lost \cup { "reporting" }
        /\ UNCHANGED report
  /\ UNCHANGED << profile, origin, grid, typed, ledger, findings, rating >>

Next ==
  \/ \E id \in DOMAIN Cells : AddRow(id)
  \/ Submit
  \/ \E role \in DOMAIN NoFindings : Delegate(role)
  \/ AssessRisk
  \/ Pause
  \/ FileReport
  \/ \E human \in Decisions : Decide(human)

Spec == Init /\ [][Next]_vars

------------------------------------------------------------------------------
(* Properties.                                                             *)

Rated == ~rating.lost

\* Every finding, rating and report is made of the values its readers take:
\* scores and confidences of 0 to 100, the bands and the decisions of the model.
TypeOK ==
  /\ stage \in ToSet(Specialists) \cup Over \cup { "intake", "risk", "gate", "paused" }
  /\ ledger # NoRows => \A row \in Rows(ledger) : ledger[row] > 0 /\ row.amount \in Nat
  /\ lost \subseteq ToSet(Specialists) \cup { "risk", "reporting" }
  /\ Cardinality(lost) <= MaxLost
  /\ rating.score \in 0 .. 100 /\ rating.confidence \in 0 .. 100
  /\ rating.band \in Band
  /\ findings.fraud.score \in 0 .. 100 /\ findings.kyc.quality \in 0 .. 100
  /\ findings.aml.proximity \in 0 .. 1000 /\ findings.aml.cashRatio \in 0 .. 1000
  /\ decision \in Decisions \cup { Undecided }

Listed(names) == \E name \in names : BestMatch(name, SanctionedNames) >= 85

\* A single strong signal is not diluted (risk.py: "a strong sanctions hit alone
\* forces CRITICAL; a blocked-country or a PEP can't score LOW"), whatever else
\* was found or lost, as long as the specialist that sees it answered; and a
\* floor lifts no case above the band of the floor or of its own blend.
EscalationHolds ==
  Rated =>
    LET k == findings.kyc
        a == findings.aml
        s == findings.sanctions
        f == findings.fraud
        dims == Dimensions(CountryRisk(profile.country), k, a, s, f)
        floors == EscalationFloors(k, a, s, f)
        blend == RoundDiv(Blended(dims), WeightSum(dims))
        parties == { row.party : row \in Rows(ledger) }
    IN  /\ "sanctions" \notin lost /\ Listed({ profile.name } \cup parties)
             => rating.band = "CRITICAL"
        /\ "sanctions" \notin lost /\ profile.country \in BlockedCountries
             => rating.band \in { "HIGH", "CRITICAL" }
        /\ "kyc" \notin lost /\ profile.declaredPep => rating.band # "LOW"
        /\ rating.band = BandFor(Max({ blend } \cup floors))

\* No step of the pipeline or of an analyst makes a case that recommends a
\* filing and reads LOW (tests/test_agents.py: a report that says both
\* "contradicts itself"), nor a report of one.
FilingIsNeverLow ==
  /\ rating.sar => rating.band # "LOW"
  /\ report.filed /\ report.sar => report.headline.band # "LOW"

\* A rating is as reliable as its transactions are many: without a ledger, with
\* fewer rows than a pattern takes or with AML lost its confidence is LOW.
ThinEvidenceIsLowConfidence ==
  Rated /\ ConfidenceLabel(rating.confidence) # "LOW" =>
    "aml" \notin lost /\ RowCount(ledger, Rows(ledger)) >= MinPatternRows

\* Nothing typed into the grid makes the API refuse the case (intake.py,
\* clean_ledger: "rows the API will accept").
GridIsAccepted == origin = "form" => stage # "rejected"

\* A filed report never contradicts the assessment it is filed with: its score
\* is the model's, its band and its filing are the model's but for an analyst's
\* decision, which it then says; the headline is the one the console reads; the
\* sections of exactly the lost specialists are missing; what its coverage table
\* says was performed is in a section, if nothing was lost; and a confirmed
\* match is in it and leads what it recommends (reporting.py, _classification,
\* _section_evidence and _summary; risk.py, _actions).
ReportAgrees ==
  report.filed =>
    LET told == report.headline
    IN  /\ told.score = rating.score
        /\ told.band # rating.band \/ report.sar # rating.sar
             => report.review.recorded /\ report.review.action \in { "override", "close" }
        /\ told.byAnalyst <=> told.band # rating.band
        /\ told.band = report.summary.band /\ report.sar = report.summary.sar
        /\ \A role \in DOMAIN findings : report[role] = NotAvailable <=> role \in lost
        /\ lost = {} => /\ report.evidence.aml <=> report.aml.status = "assessed"
                        /\ report.evidence.fraud <=> report.fraud.status = "assessed"
                        /\ report.evidence.provisional <=> ~report.evidence.fraud
        /\ findings.sanctions.tier = "STRONG" /\ ~rating.lost =>
             report.sanctions.tier = "STRONG" /\ Head(report.advice) = "block_transactions"

\* Whatever is added on one side of the ledger, the cash on the other weighs
\* what it did (tests/test_agents.py: cash intensity cannot be diluted by
\* unrelated outflow).
CashIsNotDiluted ==
  [][\A id \in DOMAIN grid : grid'[id] # grid[id] /\ Acceptable' =>
       \A Side \in Directions \ { WithDefaults(RowOf(id)).direction } :
         LET on == { r \in Rows(Transactions) : r.direction = Side }
         IN  CashRatio(Transactions') >= CashShare(Transactions, on)]_vars

\* Exposure to a blocked jurisdiction, of residence or in the ledger, is never
\* rated LOW by a run that lost nothing (risk.py: "a blocked-country or a PEP
\* can't score LOW").
BlockedExposureIsNeverLow ==
  Rated /\ lost = {} /\ (\E row \in Rows(ledger) : row.country \in BlockedCountries)
    => rating.band # "LOW"
==============================================================================
