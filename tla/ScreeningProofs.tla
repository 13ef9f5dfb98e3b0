---------------------------- MODULE ScreeningProofs ----------------------------
(***************************************************************************)
(* What a case guarantees for every customer, grid, ledger, list of names  *)
(* and table of risks, and however many of its hops are lost.              *)
(*                                                                         *)
(* The invariant is what the records are made of: a specialist that        *)
(* answered found what its tool finds in the profile, one that was lost    *)
(* left nothing, the rating is the one of those findings, and a report is  *)
(* made of both as the analyst's decision left them (CaseInv).  What the   *)
(* rating promises is then a fact about the tools, which are sums, counts  *)
(* and maxima over finite sets of rows, and about RiskModel.               *)
(***************************************************************************)
EXTENDS Screening, RiskModelProofs

------------------------------------------------------------------------------
(* The grid.                                                               *)

\* The grid counts the rows of Cells, and a case of the form is not refused.
GridInv ==
  /\ grid \in [DOMAIN Cells -> Nat]
  /\ GridIsAccepted

\* A cleaned row with an amount is one the schema takes.
LEMMA CleanRowsAreValid ==
  ASSUME NEW id \in DOMAIN Cells, Cells[id].amount > 0
  PROVE  Valid(CleanRow(Cells[id]))
<1> DEFINE row == Cells[id]
           clean == CleanRow(row)
<1>1. row \in [day : Nat, amount : Int, direction : STRING, party : Seq(Tokens),
               channel : STRING, country : STRING]
  BY CellsAssumption
<1>2. row.amount \in Int /\ row.amount > 0
  BY <1>1
<1> HIDE DEF row
<1>3. /\ clean.amount = row.amount
      /\ clean.direction = IF row.direction \in Directions THEN row.direction ELSE "in"
      /\ clean.channel = IF row.channel \in Channels THEN row.channel ELSE "wire"
  BY <1>1 DEF CleanRow
<1>4. clean.amount >= 0
  BY <1>2, <1>3
<1>5. clean.direction \in Directions /\ clean.channel \in Channels
  BY <1>3 DEF Directions, Channels
<1> HIDE DEF clean
<1>6. Valid(clean)
  BY <1>4, <1>5 DEF Valid
<1> QED
  BY <1>6 DEF clean, row

LEMMA FormIsAcceptable ==
  ASSUME GridInv, origin = "form"
  PROVE  Acceptable
<1>1. SUFFICES ASSUME NEW id \in Posted PROVE Valid(RowOf(id))
  BY DEF Acceptable
<1>2. id \in DOMAIN Cells /\ Cells[id].amount > 0
  BY <1>1 DEF Posted, IsMovement, GridInv
<1> QED
  BY <1>2, CleanRowsAreValid DEF RowOf

\* Nothing that is typed into the console's grid makes the API refuse the case
\* (intake.py, clean_ledger: "rows the API will accept"), for every grid.
THEOREM TypedGridsAreAccepted == Spec => []GridIsAccepted
<1>1. Init => GridInv
  BY LedgersAssumption DEF Init, GridInv, GridIsAccepted
<1>2. GridInv /\ [Next]_vars => GridInv'
  <2> SUFFICES ASSUME GridInv, [Next]_vars PROVE GridInv'
    OBVIOUS
  <2>1. ASSUME NEW id \in DOMAIN Cells, AddRow(id) PROVE GridInv'
    BY <2>1 DEF AddRow, GridInv, GridIsAccepted
  <2>2. CASE Submit
    <3>1. CASE Acceptable
      BY <2>2, <3>1 DEF Submit, GridInv, GridIsAccepted
    <3>2. CASE ~Acceptable
      <4>1. origin # "form"
        BY <3>2, FormIsAcceptable
      <4> QED
        BY <2>2, <4>1 DEF Submit, GridInv, GridIsAccepted
    <3> QED
      BY <3>1, <3>2
  <2>3. ASSUME NEW role \in DOMAIN NoFindings, Delegate(role) PROVE GridInv'
    <3>1. role \in { "kyc", "aml", "sanctions", "fraud" }
      BY <2>3 DEF NoFindings
    <3>2. NextHop(role) # "rejected"
      BY <3>1 DEF NextHop
    <3> QED
      BY <2>3, <3>2 DEF Delegate, GridInv, GridIsAccepted
  <2>4. CASE AssessRisk
    BY <2>4 DEF AssessRisk, GridInv, GridIsAccepted
  <2>5. CASE Pause
    BY <2>5 DEF Pause, GridInv, GridIsAccepted
  <2>6. CASE FileReport
    BY <2>6 DEF FileReport, GridInv, GridIsAccepted
  <2>7. ASSUME NEW human \in Decisions, Decide(human) PROVE GridInv'
    BY <2>7 DEF Decide, GridInv, GridIsAccepted
  <2>8. CASE UNCHANGED vars
    BY <2>8 DEF vars, GridInv, GridIsAccepted
  <2> QED
    BY <2>1, <2>2, <2>3, <2>4, <2>5, <2>6, <2>7, <2>8 DEF Next
<1>3. GridInv => GridIsAccepted
  BY DEF GridInv
<1> QED
  BY <1>1, <1>2, <1>3, PTL DEF Spec

------------------------------------------------------------------------------
(* What the tools find is typed.                                           *)

\* The ledger of an accepted profile.
LedgerTypes(moves) ==
  /\ moves = [row \in Rows(moves) |-> moves[row]]
  /\ IsFiniteSet(Rows(moves))
  /\ \A row \in Rows(moves) :
       /\ moves[row] \in Nat /\ moves[row] > 0
       /\ row.day \in Nat /\ row.amount \in Nat

\* What the rows of a ledger are worth.
Worth(moves) == [row \in Rows(moves) |-> moves[row] * row.amount]

LEMMA WorthIsNatural ==
  ASSUME NEW moves, LedgerTypes(moves), NEW row \in Rows(moves)
  PROVE  Worth(moves)[row] = moves[row] * row.amount /\ Worth(moves)[row] \in Nat
<1>1. moves[row] \in Nat /\ row.amount \in Nat
  BY DEF LedgerTypes
<1> DEFINE n == moves[row]
           m == row.amount
<1> HIDE DEF n, m
<1>2. n * m \in Nat
  BY <1>1 DEF n, m
<1> QED
  BY <1>2 DEF Worth, n, m

LEMMA VolumeIsWorth ==
  ASSUME NEW moves, LedgerTypes(moves), NEW rows \in SUBSET Rows(moves)
  PROVE  Volume(moves, rows) = SumFunctionOnSet(Worth(moves), rows)
<1> DEFINE f == [r \in rows |-> moves[r] * r.amount]
<1>1. \A r \in rows : f[r] \in Int /\ Worth(moves)[r] = f[r]
  BY WorthIsNatural
<1>2. IsFiniteSet(rows)
  BY FS_Subset DEF LedgerTypes
<1>3. Volume(moves, rows) = SumFunctionOnSet(f, rows)
  BY DEF Volume
<1> HIDE DEF f
<1> QED
  BY <1>1, <1>2, <1>3, SumsAgree

\* Counts and volumes are naturals, and those of some rows are no more than those
\* of more of them.
LEMMA CountsAreNaturals ==
  ASSUME NEW moves, LedgerTypes(moves), NEW rows \in SUBSET Rows(moves)
  PROVE  /\ RowCount(moves, rows) \in Nat
         /\ rows = {} => RowCount(moves, rows) = 0
<1>1. IsFiniteSet(rows) /\ \A r \in rows : moves[r] \in Nat
  BY FS_Subset DEF LedgerTypes
<1>2. rows = {} => SumFunctionOnSet(moves, rows) = 0
  BY <1>1, SumSplits
<1> QED
  BY <1>1, <1>2, SumOfNaturals DEF RowCount

LEMMA VolumesAreNaturals ==
  ASSUME NEW moves, LedgerTypes(moves), NEW rows \in SUBSET Rows(moves)
  PROVE  /\ Volume(moves, rows) \in Nat
         /\ \A part \in SUBSET rows :
              Volume(moves, part) \in Nat /\ Volume(moves, part) <= Volume(moves, rows)
<1>1. IsFiniteSet(rows) /\ \A r \in rows : Worth(moves)[r] \in Nat
  BY WorthIsNatural, FS_Subset DEF LedgerTypes
<1>2. Volume(moves, rows) = SumFunctionOnSet(Worth(moves), rows)
  BY VolumeIsWorth
<1>3. ASSUME NEW part \in SUBSET rows
      PROVE  Volume(moves, part) \in Nat /\ Volume(moves, part) <= Volume(moves, rows)
  <2>1. part \in SUBSET Rows(moves) /\ IsFiniteSet(part)
    BY <1>1, FS_Subset
  <2>2. Volume(moves, part) = SumFunctionOnSet(Worth(moves), part)
    BY <2>1, VolumeIsWorth
  <2>3. SumFunctionOnSet(Worth(moves), part) \in Nat
    BY <1>1, <2>1, SumOfNaturals
  <2>4. SumFunctionOnSet(Worth(moves), part) <= SumFunctionOnSet(Worth(moves), rows)
    BY <1>1, SumOfNaturals
  <2> QED
    BY <1>2, <2>2, <2>3, <2>4
<1> QED
  BY <1>1, <1>2, <1>3, SumOfNaturals

\* A share, in thousandths.
PerMille == 0 .. 1000
LEMMA PerMilleIsWhole == PerMille \subseteq Int /\ 0 \in PerMille
  BY DEF PerMille

LEMMA ThousandthsAreWhole ==
  ASSUME NEW part \in Nat, NEW whole \in Nat
  PROVE  Thousandths(part, whole) \in Int
<1>1. CASE whole = 0
  BY <1>1 DEF Thousandths
<1>2. CASE whole # 0
  <2>1. whole > 0 /\ 1000 * part \in Nat
    BY <1>2
  <2>2. RoundDiv(1000 * part, whole) \in Int
    BY <2>1, RoundDivIsWhole
  <2> QED
    BY <1>2, <2>2 DEF Thousandths
<1> QED
  BY <1>1, <1>2

LEMMA ThousandthsAreBounded ==
  ASSUME NEW part \in Nat, NEW whole \in Nat, part <= whole
  PROVE  Thousandths(part, whole) \in PerMille
<1>1. CASE whole = 0
  BY <1>1 DEF Thousandths, PerMille
<1>2. CASE whole # 0
  <2> DEFINE n == 1000 * part
             k == 1000
  <2>1. n \in Nat /\ k \in Nat /\ n <= k * whole /\ whole > 0
    BY <1>2
  <2> HIDE DEF n, k
  <2>2. RoundDiv(n, whole) \in 0 .. k
    BY <2>1, RoundDivIsBounded
  <2> QED
    BY <1>2, <2>2 DEF n, k, Thousandths, PerMille
<1> QED
  BY <1>1, <1>2

LEMMA CashShareIsBounded ==
  ASSUME NEW moves, LedgerTypes(moves), NEW rows \in SUBSET Rows(moves)
  PROVE  CashShare(moves, rows) \in PerMille
<1>1. Cash(moves) \cap rows \in SUBSET rows
  OBVIOUS
<1>2. /\ Volume(moves, rows) \in Nat /\ Volume(moves, Cash(moves) \cap rows) \in Nat
      /\ Volume(moves, Cash(moves) \cap rows) <= Volume(moves, rows)
  BY <1>1, VolumesAreNaturals
<1> DEFINE part == Volume(moves, Cash(moves) \cap rows)
           whole == Volume(moves, rows)
<1> HIDE DEF part, whole
<1>3. part \in Nat /\ whole \in Nat /\ part <= whole
  BY <1>2 DEF part, whole
<1>4. Thousandths(part, whole) \in PerMille
  BY <1>3, ThousandthsAreBounded
<1> QED
  BY <1>4 DEF CashShare, part, whole

LEMMA CashRatioIsBounded ==
  ASSUME NEW moves, LedgerTypes(moves)
  PROVE  /\ CashRatio(moves) \in PerMille
         /\ CashRatio(moves) >= CashShare(moves, In(moves))
         /\ CashRatio(moves) >= CashShare(moves, Out(moves))
<1>1. In(moves) \in SUBSET Rows(moves) /\ Out(moves) \in SUBSET Rows(moves)
  BY DEF In, Out
<1>2. CashShare(moves, In(moves)) \in PerMille /\ CashShare(moves, Out(moves)) \in PerMille
  BY <1>1, CashShareIsBounded
<1> DEFINE a == CashShare(moves, In(moves))
           b == CashShare(moves, Out(moves))
<1>3. CashRatio(moves) = Max({ a, b })
  BY DEF CashRatio
<1> HIDE DEF a, b
<1>4. a \in 0 .. 1000 /\ b \in 0 .. 1000
  BY <1>2 DEF a, b, PerMille
<1>5. a \in Int /\ b \in Int
  BY <1>4
<1>6. Max({ a, b }) = IF a >= b THEN a ELSE b
  BY <1>5, MaxOfTwo
<1>7. CashRatio(moves) = IF a >= b THEN a ELSE b
  BY <1>3, <1>6
<1>8. CashRatio(moves) \in 0 .. 1000 /\ CashRatio(moves) >= a /\ CashRatio(moves) >= b
  BY <1>4, <1>7
<1> QED
  BY <1>8 DEF a, b, PerMille

\* The mean of what is near the limit is between 85 % of it and it.
LEMMA ProximityIsBounded ==
  ASSUME NEW moves, LedgerTypes(moves)
  PROVE  Proximity(moves) \in PerMille
<1> DEFINE rows == NearThreshold(moves)
           n == RowCount(moves, rows)
           v == Volume(moves, rows)
<1>1. rows \in SUBSET Rows(moves) /\ \A r \in rows : r.amount >= 8500 /\ r.amount < 10000
  BY DEF NearThreshold, StructuringThreshold, LedgerTypes
<1>2. IsFiniteSet(rows)
  BY <1>1, FS_Subset DEF LedgerTypes
<1> HIDE DEF rows
<1>3. ASSUME NEW r \in rows
      PROVE  /\ moves[r] \in Int /\ Worth(moves)[r] \in Int
             /\ 8500 * moves[r] <= 1 * Worth(moves)[r]
             /\ 1 * Worth(moves)[r] <= 10000 * moves[r]
  <2>1. Worth(moves)[r] = moves[r] * r.amount /\ Worth(moves)[r] \in Nat
    BY <1>1, WorthIsNatural
  <2>2. moves[r] \in Nat /\ r.amount \in Nat /\ r.amount >= 8500 /\ r.amount <= 10000
    BY <1>1 DEF LedgerTypes
  <2> DEFINE k == moves[r]
             m == r.amount
  <2> HIDE DEF k, m
  <2>3. k \in Nat /\ m \in Nat /\ m >= 8500 /\ m <= 10000
    BY <2>2 DEF k, m
  <2>4. 8500 * k <= k * m /\ k * m <= 10000 * k
    BY <2>3
  <2> QED
    BY <2>1, <2>2, <2>4 DEF k, m
<1>4. 8500 * SumFunctionOnSet(moves, rows) <= 1 * SumFunctionOnSet(Worth(moves), rows)
  BY <1>2, <1>3, SumsCompare
<1>5. 1 * SumFunctionOnSet(Worth(moves), rows) <= 10000 * SumFunctionOnSet(moves, rows)
  BY <1>2, <1>3, SumsCompare
<1>6. n \in Nat /\ v \in Nat
  BY <1>1, CountsAreNaturals, VolumesAreNaturals
<1>7. 8500 * n <= v /\ v <= 10000 * n
  <2>1. n = SumFunctionOnSet(moves, rows) /\ v = SumFunctionOnSet(Worth(moves), rows)
    BY <1>1, VolumeIsWorth DEF RowCount
  <2> HIDE DEF n, v
  <2> QED
    BY <1>4, <1>5, <1>6, <2>1
<1>8. Proximity(moves)
        = IF n = 0 THEN 0
          ELSE RoundDiv(1000 * (20 * v - 17 * n * StructuringThreshold),
                        3 * n * StructuringThreshold)
  BY DEF Proximity, rows
<1> HIDE DEF n, v
<1>9. CASE n = 0
  BY <1>8, <1>9 DEF PerMille
<1>10. CASE n # 0
  <2> DEFINE a == 1000 * (20 * v - 17 * n * StructuringThreshold)
             d == 3 * n * StructuringThreshold
             k == 1000
  <2>1. d \in Nat /\ d > 0 /\ a \in Nat /\ k \in Nat /\ a <= k * d
    BY <1>6, <1>7, <1>10 DEF StructuringThreshold
  <2> HIDE DEF a, d, k
  <2>2. RoundDiv(a, d) \in 0 .. k
    BY <2>1, RoundDivIsBounded
  <2> QED
    BY <1>8, <1>10, <2>2 DEF a, d, k, PerMille
<1> QED
  BY <1>9, <1>10

LEMMA CountryRiskIsWhole ==
  ASSUME NEW c
  PROVE  CountryRisk(c) \in { 10, 20, 40, 70, 100 }
  BY DEF CountryRisk

\* The days of a ledger with enough dates are some, and finitely many.
LEMMA DaysAreFinite ==
  ASSUME NEW moves, LedgerTypes(moves), EnoughDates(moves)
  PROVE  /\ Dated(moves) \in SUBSET Rows(moves) /\ Dated(moves) # {}
         /\ IsFiniteSet(Dated(moves))
         /\ IsFiniteSet({ r.day : r \in Dated(moves) })
         /\ { r.day : r \in Dated(moves) } \in SUBSET Int
         /\ { r.day : r \in Dated(moves) } # {}
<1> DEFINE S == Dated(moves)
<1>1. S \in SUBSET Rows(moves)
  BY DEF Dated
<1>2. S # {}
  <2>1. RowCount(moves, S) >= 3
    BY DEF EnoughDates
  <2>2. S = {} => RowCount(moves, S) = 0
    BY <1>1, CountsAreNaturals
  <2> QED
    BY <2>1, <2>2
<1>3. IsFiniteSet(S) /\ \A r \in S : r.day \in Int
  BY <1>1, FS_Subset DEF LedgerTypes
<1> HIDE DEF S
<1> DEFINE f == [r \in S |-> r.day]
<1>4. { f[r] : r \in S } = { r.day : r \in S }
  OBVIOUS
<1> HIDE DEF f
<1>5. IsFiniteSet({ f[r] : r \in S })
  BY <1>3, FiniteRange
<1>6. { r.day : r \in S } \in SUBSET Int /\ { r.day : r \in S } # {}
  BY <1>2, <1>3
<1> QED
  BY <1>1, <1>2, <1>3, <1>4, <1>5, <1>6 DEF S

LEMMA SpanIsWhole ==
  ASSUME NEW moves, LedgerTypes(moves)
  PROVE  SpanDays(moves) \in Int
<1> DEFINE days == { r.day : r \in Dated(moves) }
<1>1. CASE ~EnoughDates(moves)
  BY <1>1 DEF SpanDays
<1>2. CASE EnoughDates(moves)
  <2>1. IsFiniteSet(days) /\ days \in SUBSET Int /\ days # {}
    BY <1>2, DaysAreFinite
  <2>2. SpanDays(moves) = Max(days) - Min(days)
    BY <1>2 DEF SpanDays
  <2> HIDE DEF days
  <2>3. Max(days) \in Int /\ Min(days) \in Int
    BY <2>1, MaxExists, MinExists
  <2> QED
    BY <2>2, <2>3
<1> QED
  BY <1>1, <1>2

LEMMA BurstIsWhole ==
  ASSUME NEW moves, LedgerTypes(moves)
  PROVE  BusiestWeek(moves) \in Int
<1> DEFINE S == Dated(moves)
           f == [first \in S |-> RowCount(moves, WeekFrom(moves, first.day))]
           counts == { f[first] : first \in S }
<1>1. CASE ~EnoughDates(moves)
  BY <1>1 DEF BusiestWeek
<1>2. CASE EnoughDates(moves)
  <2>1. IsFiniteSet(S) /\ S # {}
    BY <1>2, DaysAreFinite
  <2>2. \A first \in S : f[first] \in Int
    <3> TAKE first \in S
    <3>1. WeekFrom(moves, first.day) \in SUBSET Rows(moves)
      BY DEF WeekFrom
    <3>2. RowCount(moves, WeekFrom(moves, first.day)) \in Nat
      BY <3>1, CountsAreNaturals
    <3> QED
      BY <3>2
  <2>3. BusiestWeek(moves) = Max(counts)
    <3>1. counts = { RowCount(moves, WeekFrom(moves, first.day)) : first \in S }
      OBVIOUS
    <3> QED
      BY <1>2, <3>1 DEF BusiestWeek
  <2> HIDE DEF S, f
  <2>4. counts \in SUBSET Int /\ counts # {}
    BY <2>1, <2>2
  <2>5. IsFiniteSet(counts)
    BY <2>1, FiniteRange
  <2> HIDE DEF counts
  <2> QED
    BY <2>3, <2>4, <2>5, MaxExists
<1> QED
  BY <1>1, <1>2

LEMMA FlowsAreNaturals ==
  ASSUME NEW moves, LedgerTypes(moves), NEW party
  PROVE  /\ Less(moves, party) \in Nat /\ More(moves, party) \in Nat
         /\ Less(moves, party) <= More(moves, party)
<1> DEFINE a == Received(moves, party)
           b == Sent(moves, party)
<1>1. a \in Nat /\ b \in Nat
  <2>1. /\ In(moves) \cap OfParties(moves, { party }) \in SUBSET Rows(moves)
        /\ Out(moves) \cap OfParties(moves, { party }) \in SUBSET Rows(moves)
    BY DEF In, Out
  <2> QED
    BY <2>1, VolumesAreNaturals DEF Received, Sent
<1>2. Less(moves, party) = Min({ a, b }) /\ More(moves, party) = Max({ a, b })
  BY DEF Less, More
<1> HIDE DEF a, b
<1>3. a \in Int /\ b \in Int
  BY <1>1
<1>4. Min({ a, b }) = IF a <= b THEN a ELSE b
  BY <1>3, MinOfTwo
<1>5. Max({ a, b }) = IF a >= b THEN a ELSE b
  BY <1>3, MaxOfTwo
<1> QED
  BY <1>1, <1>2, <1>4, <1>5

LEMMA SymmetryIsWhole ==
  ASSUME NEW moves, LedgerTypes(moves)
  PROVE  Symmetry(moves) \in Int
<1> DEFINE S == Rows(moves)
           named == [r \in S |-> r.party]
           P == PassThrough(moves)
           f == [party \in P |-> Thousandths(Less(moves, party), More(moves, party))]
           shares == { f[party] : party \in P }
<1>1. IsFiniteSet(P)
  <2>1. { named[r] : r \in S } = { r.party : r \in S }
    OBVIOUS
  <2>2. IsFiniteSet(S)
    BY DEF LedgerTypes
  <2>3. P \in SUBSET { named[r] : r \in S }
    BY <2>1 DEF PassThrough
  <2> HIDE DEF S, named, P
  <2>4. IsFiniteSet({ named[r] : r \in S })
    BY <2>2, FiniteRange
  <2> QED
    BY <2>3, <2>4, FS_Subset
<1>2. ASSUME NEW party \in P PROVE f[party] \in Int
  <2> DEFINE a == Less(moves, party)
             b == More(moves, party)
  <2>1. f[party] = Thousandths(a, b) /\ a \in Nat /\ b \in Nat
    BY FlowsAreNaturals
  <2> HIDE DEF f, a, b
  <2> QED
    BY <2>1, ThousandthsAreWhole
<1>3. Symmetry(moves) = Max({ 0 } \cup shares)
  <2>1. shares = { Thousandths(Less(moves, party), More(moves, party)) : party \in P }
    OBVIOUS
  <2> QED
    BY <2>1 DEF Symmetry
<1> HIDE DEF f, P
<1>4. shares \in SUBSET Int
  BY <1>2
<1>5. IsFiniteSet(shares)
  BY <1>1, FiniteRange
<1> HIDE DEF shares
<1> QED
  BY <1>3, <1>4, <1>5, MaxWithZero

LEMMA OverRatioIsWhole ==
  ASSUME NEW moves, LedgerTypes(moves), NEW expected \in Nat
  PROVE  OverRatio(moves, expected) \in Int
<1> DEFINE n == 3000 * Volume(moves, In(moves))
           m == Months(moves)
           d == expected * m
<1>1. n \in Int
  <2>1. In(moves) \in SUBSET Rows(moves)
    BY DEF In
  <2>2. Volume(moves, In(moves)) \in Nat
    BY <2>1, VolumesAreNaturals
  <2> QED
    BY <2>2
<1>2. m \in Nat /\ m > 0
  <2> DEFINE least == 30
             span == SpanDays(moves)
  <2>1. least \in Int /\ span \in Int /\ least > 0
    BY SpanIsWhole
  <2>2. m = Max({ least, span })
    BY DEF Months
  <2> HIDE DEF m, least, span
  <2>3. Max({ least, span }) = IF least >= span THEN least ELSE span
    BY <2>1, MaxOfTwo
  <2> QED
    BY <2>1, <2>2, <2>3
<1>3. CASE expected = 0
  BY <1>3 DEF OverRatio
<1>4. CASE expected # 0
  <2>1. OverRatio(moves, expected) = RoundDiv(n, d)
    BY <1>4 DEF OverRatio
  <2> HIDE DEF m, n
  <2>2. d \in Nat /\ d > 0
    BY <1>2, <1>4
  <2> HIDE DEF d
  <2>3. RoundDiv(n, d) \in Int
    BY <1>1, <2>2, RoundDivIsWhole
  <2> QED
    BY <2>1, <2>3
<1> QED
  BY <1>3, <1>4

LEMMA PartyRiskIsWhole ==
  ASSUME NEW moves, LedgerTypes(moves)
  PROVE  Max({ 0 } \cup { CountryRisk(r.country) : r \in FromHighRisk(moves) }) \in Int
<1> DEFINE S == FromHighRisk(moves)
           f == [r \in S |-> CountryRisk(r.country)]
           risks == { f[r] : r \in S }
<1>1. IsFiniteSet(S)
  <2>1. S \in SUBSET Rows(moves)
    BY DEF FromHighRisk
  <2> QED
    BY <2>1, FS_Subset DEF LedgerTypes
<1>2. ASSUME NEW r \in S PROVE f[r] \in Int
  <2>1. f[r] = CountryRisk(r.country)
    OBVIOUS
  <2>2. CountryRisk(r.country) \in { 10, 20, 40, 70, 100 }
    BY CountryRiskIsWhole
  <2> QED
    BY <2>1, <2>2
<1>3. risks = { CountryRisk(r.country) : r \in S }
  OBVIOUS
<1> HIDE DEF S, f
<1>4. risks \in SUBSET Int
  BY <1>2
<1>5. IsFiniteSet(risks)
  BY <1>1, FiniteRange
<1> HIDE DEF risks
<1>6. Max({ 0 } \cup risks) \in Int
  BY <1>4, <1>5, MaxWithZero
<1> QED
  BY <1>3, <1>6 DEF S

\* What AML finds is typed, and the fields its thresholds read are shares.
LEMMA ShareOfMovesIsWhole ==
  ASSUME NEW moves, LedgerTypes(moves), NEW rows \in SUBSET Rows(moves)
  PROVE  Thousandths(Volume(moves, rows), Volume(moves, Rows(moves))) \in Int
<1> DEFINE a == Volume(moves, rows)
           b == Volume(moves, Rows(moves))
<1>1. a \in Nat /\ b \in Nat
  BY VolumesAreNaturals
<1> HIDE DEF a, b
<1>2. Thousandths(a, b) \in Int
  BY <1>1, ThousandthsAreWhole
<1> QED
  BY <1>2 DEF a, b

LEMMA LedgerFindingsAreTyped ==
  ASSUME NEW moves, LedgerTypes(moves), NEW expected \in Nat,
         NEW attested \in SUBSET DOMAIN ATTESTED_INDICATORS
  PROVE  /\ AmlTypes(AnalyzeLedger(moves, expected, attested))
         /\ AnalyzeLedger(moves, expected, attested).proximity \in PerMille
         /\ AnalyzeLedger(moves, expected, attested).cashRatio \in PerMille
         /\ AnalyzeLedger(moves, expected, attested).ledger
         /\ AnalyzeLedger(moves, expected, attested).count = RowCount(moves, Rows(moves))
<1> DEFINE a == AnalyzeLedger(moves, expected, attested)
           Shares(rows) == Thousandths(Volume(moves, rows), Volume(moves, Rows(moves)))
           passing == OfParties(moves, PassThrough(moves) \ { Nobody })
           risky == OfParties(moves, HighRiskParties)
<1>1. a.ledger \in BOOLEAN
  BY SMTT(60) DEF AnalyzeLedger
<1>2. /\ a.ledger = TRUE /\ a.attested = attested
      /\ a.count = RowCount(moves, Rows(moves))
      /\ a.nearCount = RowCount(moves, NearThreshold(moves))
      /\ a.proximity = Proximity(moves) /\ a.symmetry = Symmetry(moves)
      /\ a.burst = BusiestWeek(moves) /\ a.cashRatio = CashRatio(moves)
      /\ a.overRatio = OverRatio(moves, expected)
  BY DEF AnalyzeLedger
<1>3. /\ a.passShare = Shares(passing) /\ a.cryptoShare = Shares(Crypto(moves))
      /\ a.partyShare = Shares(risky) /\ a.countryShare = Shares(FromHighRisk(moves))
  BY DEF AnalyzeLedger
<1>4. a.countryRisk = Max({ 0 } \cup { CountryRisk(r.country) : r \in FromHighRisk(moves) })
  BY DEF AnalyzeLedger
<1>5. /\ passing \in SUBSET Rows(moves) /\ risky \in SUBSET Rows(moves)
      /\ Crypto(moves) \in SUBSET Rows(moves) /\ FromHighRisk(moves) \in SUBSET Rows(moves)
      /\ NearThreshold(moves) \in SUBSET Rows(moves)
  BY DEF OfParties, Crypto, FromHighRisk, NearThreshold
<1> HIDE DEF a, passing, risky
<1>6. /\ a.passShare \in Int /\ a.cryptoShare \in Int /\ a.partyShare \in Int
      /\ a.countryShare \in Int
  BY <1>3, <1>5, ShareOfMovesIsWhole
<1>7. a.count \in Nat /\ a.nearCount \in Nat
  BY <1>2, <1>5, CountsAreNaturals
<1>8. a.countryRisk \in Int
  BY <1>4, PartyRiskIsWhole
<1>9. a.proximity \in PerMille /\ a.cashRatio \in PerMille
  BY <1>2, ProximityIsBounded, CashRatioIsBounded
<1>10. a.symmetry \in Int /\ a.burst \in Int /\ a.overRatio \in Int
  BY <1>2, SymmetryIsWhole, BurstIsWhole, OverRatioIsWhole
<1>11. a.proximity \in Int /\ a.cashRatio \in Int
  BY <1>9, PerMilleIsWhole
<1>12. a.nearCount \in Int /\ a.attested \subseteq DOMAIN ATTESTED_INDICATORS
  BY <1>2, <1>7
<1>13. AmlTypes(a)
  BY <1>1, <1>6, <1>7, <1>8, <1>10, <1>11, <1>12 DEF AmlTypes
<1> QED
  BY <1>2, <1>9, <1>13 DEF a

\* Without a ledger, and where AML left nothing.
LEMMA NoLedgerIsTyped ==
  ASSUME NEW attested \in SUBSET DOMAIN ATTESTED_INDICATORS
  PROVE  /\ AmlTypes(NoLedger(attested))
         /\ NoLedger(attested).proximity \in PerMille /\ NoLedger(attested).cashRatio \in PerMille
         /\ NoLedger(attested).count = 0 /\ ~NoLedger(attested).ledger
  BY DEF NoLedger, AmlTypes, PerMille

LEMMA NoAmlIsTyped ==
  /\ AmlTypes(NoAml) /\ NoAml.proximity \in PerMille /\ NoAml.cashRatio \in PerMille
  /\ NoAml.count = 0 /\ ~NoAml.sarCandidate
  /\ ~NoAml.structuring /\ NoAml.attested = {} /\ NoAml.lost
<1> DEFINE n == NoLedger({})
<1>1. /\ NoAml.lost = TRUE /\ NoAml.ledger = TRUE
      /\ NoAml.attested = {} /\ NoAml.count = 0 /\ NoAml.nearCount = 0
      /\ NoAml.proximity = 0 /\ NoAml.symmetry = 0
      /\ NoAml.passShare = 0 /\ NoAml.burst = 0
  BY DEF NoAml, NoLedger
<1>2. /\ NoAml.cashRatio = 0 /\ NoAml.cryptoShare = 0
      /\ NoAml.partyShare = 0 /\ NoAml.countryRisk = 0
      /\ NoAml.countryShare = 0 /\ NoAml.overRatio = 0
      /\ NoAml.sarCandidate = FALSE /\ NoAml.structuring = FALSE
  BY DEF NoAml, NoLedger
<1>3. NoAml.ledger \in BOOLEAN
  BY DEF NoAml, NoLedger
<1>4. /\ NoAml.count \in Nat /\ NoAml.nearCount \in Int /\ NoAml.proximity \in Int
      /\ NoAml.symmetry \in Int /\ NoAml.passShare \in Int /\ NoAml.burst \in Int
  BY <1>1
<1>5. /\ NoAml.cashRatio \in Int /\ NoAml.cryptoShare \in Int /\ NoAml.partyShare \in Int
      /\ NoAml.countryRisk \in Int /\ NoAml.countryShare \in Int /\ NoAml.overRatio \in Int
  BY <1>2
<1>6. AmlTypes(NoAml)
  BY <1>1, <1>3, <1>4, <1>5 DEF AmlTypes
<1> QED
  BY <1>1, <1>2, <1>6, PerMilleIsWhole

LEMMA LikenessIsWhole ==
  ASSUME NEW x \in Tokens, NEW y \in Tokens
  PROVE  LikenessOf(x, y) \in Int
<1>1. << x, y >> \in Tokens \X Tokens
  OBVIOUS
<1> DEFINE D == Tokens \X Tokens
           R == 0 .. 1000
<1>2. R \subseteq Int
  OBVIOUS
<1>3. Likeness \in [D -> R]
  BY LikenessAssumption
<1>4. << x, y >> \in D
  BY <1>1
<1> HIDE DEF D, R
<1>5. Likeness[<< x, y >>] \in R
  BY <1>3, <1>4
<1> QED
  BY <1>2, <1>5 DEF LikenessOf

\* The match of two names is a number, and a name without a token matches none.
LEMMA NameMatchIsWhole ==
  ASSUME NEW a \in Seq(Tokens), NEW b \in Seq(Tokens)
  PROVE  NameMatch(a, b) \in Int
<1> DEFINE short == IF Len(a) <= Len(b) THEN a ELSE b
           long == IF Len(a) <= Len(b) THEN b ELSE a
           best == [i \in DOMAIN short |->
                      Max({ LikenessOf(short[i], long[j]) : j \in DOMAIN long })]
           total == SumFunction(best)
           n == total * (6 * Len(long) + 4 * Len(short))
           d == 100 * Len(short) * Len(long)
<1>1. CASE Nobody \in { a, b }
  BY <1>1 DEF NameMatch
<1>2. CASE Nobody \notin { a, b } /\ a = b
  BY <1>2 DEF NameMatch
<1>3. CASE Nobody \notin { a, b } /\ a # b
  <2>1. NameMatch(a, b) = RoundDiv(n, d)
    BY <1>3 DEF NameMatch
  <2>2. short \in Seq(Tokens) /\ long \in Seq(Tokens) /\ short # << >> /\ long # << >>
    BY <1>3 DEF Nobody
  <2> HIDE DEF short, long
  <2>3. /\ DOMAIN short = 1 .. Len(short) /\ Len(short) \in Nat /\ Len(short) > 0
        /\ DOMAIN long = 1 .. Len(long) /\ Len(long) \in Nat /\ Len(long) > 0
    BY <2>2
  <2>4. IsFiniteSet(DOMAIN short) /\ IsFiniteSet(DOMAIN long) /\ DOMAIN long # {}
    <3>1. 1 \in Int /\ Len(short) \in Int /\ Len(long) \in Int /\ 1 \in 1 .. Len(long)
      BY <2>3
    <3>2. IsFiniteSet(1 .. Len(short)) /\ IsFiniteSet(1 .. Len(long))
      BY <3>1, FS_Interval
    <3> QED
      BY <2>3, <3>1, <3>2
  <2>5. ASSUME NEW i \in DOMAIN short PROVE best[i] \in Int
    <3> DEFINE f == [j \in DOMAIN long |-> LikenessOf(short[i], long[j])]
               scores == { f[j] : j \in DOMAIN long }
    <3>1. ASSUME NEW j \in DOMAIN long PROVE f[j] \in Int
      <4>1. short[i] \in Tokens /\ long[j] \in Tokens
        BY <2>2, <2>3
      <4>2. LikenessOf(short[i], long[j]) \in Int
        BY <4>1, LikenessIsWhole
      <4> QED
        BY <4>2
    <3>2. scores = { LikenessOf(short[i], long[j]) : j \in DOMAIN long }
      OBVIOUS
    <3>3. best[i] = Max({ LikenessOf(short[i], long[j]) : j \in DOMAIN long })
      OBVIOUS
    <3>4. best[i] = Max(scores)
      BY <3>2, <3>3
    <3> HIDE DEF f, best
    <3>5. scores \in SUBSET Int /\ scores # {}
      BY <2>4, <3>1
    <3>6. IsFiniteSet(scores)
      BY <2>4, FiniteRange
    <3> HIDE DEF scores
    <3> QED
      BY <3>4, <3>5, <3>6, MaxExists
  <2>6. total \in Int
    <3>1. DOMAIN best = DOMAIN short
      OBVIOUS
    <3>2. total = SumFunctionOnSet(best, DOMAIN short)
      BY <3>1 DEF SumFunction
    <3> HIDE DEF best, total
    <3> QED
      BY <2>4, <2>5, <3>2, SumIsWhole
  <2> HIDE DEF total
  <2>7. n \in Int
    <3> DEFINE w == 6 * Len(long) + 4 * Len(short)
    <3>1. w \in Int
      BY <2>3
    <3> HIDE DEF w
    <3>2. total * w \in Int
      BY <2>6, <3>1
    <3> QED
      BY <3>2 DEF w
  <2>8. d \in Nat /\ d > 0
    <3> DEFINE p == Len(short)
               q == Len(long)
    <3> HIDE DEF p, q
    <3>1. p \in Nat /\ p > 0 /\ q \in Nat /\ q > 0
      BY <2>3 DEF p, q
    <3>2. 100 * p \in Nat /\ 100 * p > 0
      BY <3>1
    <3> DEFINE r == 100 * p
    <3> HIDE DEF r
    <3>3. r \in Nat /\ r > 0
      BY <3>2 DEF r
    <3>4. r * q \in Nat /\ r * q > 0
      BY <3>1, <3>3
    <3> QED
      BY <3>4 DEF p, q, r
  <2> HIDE DEF n, d
  <2>9. RoundDiv(n, d) \in Int
    BY <2>7, <2>8, RoundDivIsWhole
  <2> QED
    BY <2>1, <2>9
<1> QED
  BY <1>1, <1>2, <1>3

LEMMA BestMatchIsWhole ==
  ASSUME NEW name \in Seq(Tokens), NEW entries \in SUBSET Seq(Tokens), IsFiniteSet(entries)
  PROVE  BestMatch(name, entries) \in Int
<1> DEFINE f == [e \in entries |-> NameMatch(name, e)]
           scores == { f[e] : e \in entries }
<1>1. ASSUME NEW e \in entries PROVE f[e] \in Int
  BY NameMatchIsWhole
<1>2. scores = { NameMatch(name, e) : e \in entries }
  OBVIOUS
<1>3. BestMatch(name, entries) = Max({ 0 } \cup scores)
  BY <1>2 DEF BestMatch
<1> HIDE DEF f
<1>4. scores \in SUBSET Int /\ IsFiniteSet(scores)
  BY <1>1, FiniteRange
<1> HIDE DEF scores
<1> QED
  BY <1>3, <1>4, MaxWithZero

LEMMA NobodyMatchesNone ==
  ASSUME NEW entries
  PROVE  BestMatch(Nobody, entries) = 0
<1> DEFINE S == { 0 } \cup { NameMatch(Nobody, e) : e \in entries }
<1>1. ASSUME NEW e PROVE NameMatch(Nobody, e) = 0
  BY DEF NameMatch
<1>2. S = { 0 }
  BY <1>1
<1>3. BestMatch(Nobody, entries) = Max(S)
  BY DEF BestMatch
<1> HIDE DEF S
<1>4. S \in SUBSET Int /\ S # {}
  BY <1>2
<1>5. IsFiniteSet(S)
  BY <1>2, FS_Singleton
<1>6. Max(S) \in S
  BY <1>4, <1>5, MaxExists
<1> QED
  BY <1>2, <1>3, <1>6

\* What KYC finds is typed.
LEMMA QualityIsBounded ==
  ASSUME NEW p
  PROVE  IdentityQuality(p) \in 0 .. 100 /\ IdentityQuality(p) \in Int
<1> DEFINE fields == { "born", "numbered", "unexpired" }
           bad == { field \in fields : ~p.identity[field] }
           n == Cardinality(bad)
<1>1. IsFiniteSet(fields) /\ Cardinality(fields) <= 3
  <2> DEFINE one == { "born" }
             two == one \cup { "numbered" }
             three == two \cup { "unexpired" }
  <2>1. IsFiniteSet(one) /\ Cardinality(one) = 1
    BY FS_Singleton
  <2> HIDE DEF one
  <2>2. IsFiniteSet(two) /\ Cardinality(two) <= 2
    BY <2>1, FS_AddElement
  <2>3. Cardinality(two) \in Nat
    BY <2>2, FS_CardinalityType
  <2> HIDE DEF two
  <2>4. IsFiniteSet(three) /\ Cardinality(three) <= 3
    BY <2>2, <2>3, FS_AddElement
  <2>5. three = fields
    BY DEF one, two
  <2> QED
    BY <2>4, <2>5
<1>2. bad \in SUBSET fields
  OBVIOUS
<1> HIDE DEF fields, bad
<1>3. IsFiniteSet(bad) /\ Cardinality(bad) <= Cardinality(fields)
  BY <1>1, <1>2, FS_Subset
<1>4. Cardinality(fields) \in Nat /\ Cardinality(bad) \in Nat
  BY <1>1, <1>3, FS_CardinalityType
<1>5. n \in 0 .. 3
  BY <1>1, <1>3, <1>4
<1>6. IdentityQuality(p) = 100 - 25 * n - (IF p.sourced THEN 0 ELSE 10)
  BY DEF IdentityQuality, fields, bad
<1> HIDE DEF n
<1> QED
  BY <1>5, <1>6

LEMMA IndustryIsScored ==
  ASSUME NEW industry
  PROVE  IndustryScore(industry) \in Int
<1>1. ASSUME industry \in DOMAIN IndustryRisk PROVE IndustryRisk[industry] \in 0 .. 100
  BY <1>1, IndustryAssumption
<1>2. ASSUME industry \in DOMAIN IndustryRisk PROVE IndustryRisk[industry] \in Int
  BY <1>1, <1>2
<1>3. CASE industry = NoIndustry
  BY <1>3 DEF IndustryScore
<1>4. CASE industry # NoIndustry /\ industry \in DOMAIN IndustryRisk
  BY <1>2, <1>4 DEF IndustryScore
<1>5. CASE industry # NoIndustry /\ industry \notin DOMAIN IndustryRisk
  BY <1>5 DEF IndustryScore
<1> QED
  BY <1>3, <1>4, <1>5

LEMMA KycFindingsAreTyped ==
  ASSUME NEW p, p.name \in Seq(Tokens)
  PROVE  /\ KycTypes(KycFindings(p))
         /\ KycFindings(p).quality \in 0 .. 100
         /\ KycFindings(p).declaredPep = p.declaredPep
<1> DEFINE k == KycFindings(p)
           v == VerifyIdentity(p)
           s == ScreenPep(p.name)
<1>1. /\ k.quality = v.quality /\ k.nationalityRisk = v.nationalityRisk /\ k.taxRisk = v.taxRisk
      /\ k.industryRisk = v.industryRisk /\ k.declaredPep = v.declaredPep
      /\ k.pepMatch = s.pepMatch
  BY DEF KycFindings
<1>2. /\ v.quality = IdentityQuality(p) /\ v.industryRisk = IndustryScore(p.industry)
      /\ v.declaredPep = p.declaredPep
      /\ v.nationalityRisk = IF p.nationality = Nowhere THEN 0 ELSE CountryRisk(p.nationality)
      /\ v.taxRisk = IF p.tax = Nowhere THEN 0 ELSE CountryRisk(p.tax)
  BY DEF VerifyIdentity
<1>3. s.pepMatch = BestMatch(p.name, PepNames)
  BY DEF ScreenPep
<1> HIDE DEF k, v, s
<1>4. k.quality \in 0 .. 100 /\ k.quality \in Int /\ k.industryRisk \in Int
  BY <1>1, <1>2, QualityIsBounded, IndustryIsScored
<1>5. k.nationalityRisk \in Int /\ k.taxRisk \in Int
  <2>1. CountryRisk(p.nationality) \in Int /\ CountryRisk(p.tax) \in Int
    BY CountryRiskIsWhole
  <2> QED
    BY <1>1, <1>2, <2>1
<1>6. k.pepMatch \in Int
  <2>1. PepNames \in SUBSET Seq(Tokens) /\ IsFiniteSet(PepNames)
    BY ListsAssumption
  <2> QED
    BY <1>1, <1>3, <2>1, BestMatchIsWhole
<1>7. KycTypes(k)
  BY <1>4, <1>5, <1>6 DEF KycTypes
<1> QED
  BY <1>1, <1>2, <1>4, <1>7 DEF k

LEMMA NoKycIsTyped == KycTypes(NoKyc) /\ NoKyc.quality \in 0 .. 100
  BY DEF NoKyc, KycTypes

\* What a typology weighs is a natural number.
LEMMA RoundDivIsNatural ==
  ASSUME NEW n \in Nat, NEW d \in Nat, d > 0
  PROVE  RoundDiv(n, d) \in Nat
<1>1. n <= n * d
  <2>1. CASE d = 1
    BY <2>1
  <2>2. CASE d # 1
    <3> DEFINE e == d - 1
    <3>1. e \in Nat /\ d = e + 1
      BY <2>2
    <3> HIDE DEF e
    <3>2. n * d = n * e + n /\ n * e \in Nat
      BY <3>1
    <3> QED
      BY <3>2
  <2> QED
    BY <2>1, <2>2
<1>2. RoundDiv(n, d) \in 0 .. n
  BY <1>1, RoundDivIsBounded
<1> QED
  BY <1>2

IsRamp(ramp) == ramp[1] \in Int /\ ramp[2] \in Int /\ ramp[3] \in Int /\ ramp[2] < ramp[3]

LEMMA WeightIsNatural ==
  ASSUME NEW base \in Nat, NEW top1 \in Nat, NEW ramp1, IsRamp(ramp1),
         NEW top2 \in Nat, NEW ramp2, IsRamp(ramp2)
  PROVE  Weight(base, top1, ramp1, top2, ramp2) \in Nat
<1> DEFINE m == Clamped(ramp1[1], ramp1[2], ramp1[3]) - ramp1[2]
           n == Clamped(ramp2[1], ramp2[2], ramp2[3]) - ramp2[2]
           c == ramp1[3] - ramp1[2]
           d == ramp2[3] - ramp2[2]
<1>1. m \in Nat /\ n \in Nat
  BY DEF Clamped, IsRamp
<1>2. c \in Nat /\ d \in Nat /\ c > 0 /\ d > 0
  BY DEF IsRamp
<1>3. Weight(base, top1, ramp1, top2, ramp2)
        = RoundDiv(base * c * d + top1 * m * d + top2 * n * c, c * d)
  BY DEF Weight
<1> HIDE DEF m, n, c, d
<1> DEFINE x == base * c
           y == top1 * m
           z == top2 * n
<1>4. x \in Nat /\ y \in Nat /\ z \in Nat
  BY <1>1, <1>2
<1> HIDE DEF x, y, z
<1>5. x * d \in Nat /\ y * d \in Nat /\ z * c \in Nat
  BY <1>2, <1>4
<1>6. c * d \in Nat /\ c * d > 0
  BY <1>2
<1> DEFINE whole == x * d + y * d + z * c
           part == c * d
<1>7. whole \in Nat /\ part \in Nat /\ part > 0
  BY <1>5, <1>6
<1> HIDE DEF whole, part
<1>8. RoundDiv(whole, part) \in Nat
  BY <1>7, RoundDivIsNatural
<1> QED
  BY <1>3, <1>8 DEF whole, part, x, y, z

LEMMA TypologiesAreTyped ==
  ASSUME NEW moves, LedgerTypes(moves), moves # NoRows, NEW age \in Nat
  PROVE  /\ DOMAIN Typologies(moves, age) = 1 .. 8
         /\ \A i \in 1 .. 8 : Typologies(moves, age)[i] \in Nat
<1> DEFINE t == Typologies(moves, age)
           If(found, weight) == IF found THEN weight ELSE 0
           moved == Volume(moves, In(moves))
           spent == Volume(moves, Out(moves))
           count == RowCount(moves, Rows(moves))
           cards == { r \in Rows(moves) : r.channel = "card" /\ r.amount < 100 }
           small == RowCount(moves, cards)
           SeenOnce(party) == RowCount(moves, OfParties(moves, { party })) = 1
           firstTime == { r \in Out(moves) : r.amount >= 5000 /\ SeenOnce(r.party) }
           most == Max({ 0 } \cup { r.amount : r \in firstTime })
           payees == { r.party : r \in Out(moves) } \ { Nobody }
           drained == << 10 * spent, 8 * moved, 10 * moved >>
           countries == { r.country : r \in Rows(moves) } \ { Nowhere }
           even == { r \in Rows(moves) : r.amount >= 1000 /\ r.amount % 1000 = 0 }
           round == RowCount(moves, even)
           largest == Max({ r.amount : r \in Rows(moves) })
           week == BusiestWeek(moves)
<1>1. t[1] = If(age \in 1 .. 29 /\ count >= 10,
                Weight(20, 15, << count, 10, 40 >>, 5, << 30 - age, 0, 25 >>))
  BY DEF Typologies
<1>2. t[2] = If(small >= 3, Weight(15, 15, << small, 3, 15 >>, 0, Flat))
  BY DEF Typologies
<1>3. t[3] = If(firstTime # {},
                Weight(15, 10, << Cardinality(firstTime), 1, 5 >>, 8, << most, 5000, 50000 >>))
  BY DEF Typologies
<1>4. t[4] = If(Cardinality(payees) >= 4 /\ moved > 0 /\ drained[1] >= drained[2],
                Weight(15, 12, << Cardinality(payees), 4, 15 >>, 6, drained))
  BY DEF Typologies
<1>5. t[5] = If(Cardinality(countries) >= 3,
                Weight(10, 12, << Cardinality(countries), 3, 10 >>, 0, Flat))
  BY DEF Typologies
<1>6. t[6] = If(round >= 3, Weight(6, 10, << round, 3, 12 >>, 0, Flat))
  BY DEF Typologies
<1>7. t[7] = If(age \in 1 .. 13 /\ largest >= 10000,
                Weight(12, 14, << largest, 10000, 100000 >>, 0, Flat))
  BY DEF Typologies
<1>8. t[8] = If(week >= 6, Weight(12, 16, << week, 6, 25 >>, 0, Flat))
  BY DEF Typologies
<1>9. DOMAIN t = 1 .. 8
  BY DEF Typologies
<1>10. /\ moved \in Nat /\ spent \in Nat /\ count \in Nat /\ small \in Nat /\ round \in Nat
       /\ week \in Int
  <2>1. /\ In(moves) \in SUBSET Rows(moves) /\ Out(moves) \in SUBSET Rows(moves)
        /\ cards \in SUBSET Rows(moves) /\ even \in SUBSET Rows(moves)
    BY DEF In, Out
  <2> HIDE DEF cards, even
  <2> QED
    BY <2>1, CountsAreNaturals, VolumesAreNaturals, BurstIsWhole
<1>11. IsFiniteSet(Out(moves)) /\ IsFiniteSet(firstTime) /\ IsFiniteSet(Rows(moves))
  <2>1. Out(moves) \in SUBSET Rows(moves) /\ IsFiniteSet(Rows(moves))
    BY DEF Out, LedgerTypes
  <2>2. firstTime \in SUBSET Out(moves)
    OBVIOUS
  <2> HIDE DEF firstTime
  <2> QED
    BY <2>1, <2>2, FS_Subset
<1>12. Cardinality(firstTime) \in Int
  BY <1>11, FS_CardinalityType
<1>13. Cardinality(payees) \in Int
  <2> DEFINE f == [r \in Out(moves) |-> r.party]
             parties == { f[r] : r \in Out(moves) }
  <2>1. payees \in SUBSET parties
    OBVIOUS
  <2> HIDE DEF f
  <2>2. IsFiniteSet(parties)
    BY <1>11, FiniteRange
  <2> HIDE DEF parties, payees
  <2>3. IsFiniteSet(payees)
    BY <2>1, <2>2, FS_Subset
  <2> QED
    BY <2>3, FS_CardinalityType
<1>14. Cardinality(countries) \in Int
  <2> DEFINE f == [r \in Rows(moves) |-> r.country]
             places == { f[r] : r \in Rows(moves) }
  <2>1. countries \in SUBSET places
    OBVIOUS
  <2> HIDE DEF f
  <2>2. IsFiniteSet(places)
    BY <1>11, FiniteRange
  <2> HIDE DEF places, countries
  <2>3. IsFiniteSet(countries)
    BY <2>1, <2>2, FS_Subset
  <2> QED
    BY <2>3, FS_CardinalityType
<1>15. most \in Int
  <2> DEFINE f == [r \in firstTime |-> r.amount]
             amounts == { f[r] : r \in firstTime }
  <2>1. \A r \in firstTime : r.amount \in Int
    BY DEF Out, LedgerTypes
  <2> HIDE DEF firstTime
  <2>2. amounts = { r.amount : r \in firstTime } /\ amounts \in SUBSET Int
    BY <2>1
  <2>3. most = Max({ 0 } \cup amounts)
    BY <2>2
  <2> HIDE DEF f, most
  <2>4. IsFiniteSet(amounts)
    BY <1>11, FiniteRange
  <2> HIDE DEF amounts
  <2> QED
    BY <2>2, <2>3, <2>4, MaxWithZero
<1>16. largest \in Int
  <2> DEFINE S == Rows(moves)
             f == [r \in S |-> r.amount]
             amounts == { f[r] : r \in S }
  <2>1. S # {}
    <3> SUFFICES ASSUME S = {} PROVE FALSE
      OBVIOUS
    <3>1. moves = [r \in {} |-> moves[r]]
      BY DEF LedgerTypes
    <3> QED
      BY <3>1 DEF NoRows
  <2>2. \A r \in S : r.amount \in Int
    BY DEF LedgerTypes
  <2>3. largest = Max({ r.amount : r \in S })
    OBVIOUS
  <2> HIDE DEF S, largest
  <2>4. amounts = { r.amount : r \in S } /\ amounts \in SUBSET Int /\ amounts # {}
    BY <2>1, <2>2
  <2>5. IsFiniteSet(S)
    BY <1>11 DEF S
  <2> HIDE DEF f
  <2>6. IsFiniteSet(amounts)
    BY <2>5, FiniteRange
  <2>7. largest = Max(amounts)
    BY <2>3, <2>4
  <2> HIDE DEF amounts
  <2> QED
    BY <2>4, <2>6, <2>7, MaxExists
<1>17. drained[1] \in Int /\ drained[2] \in Int /\ drained[3] \in Int
       /\ (moved > 0 => drained[2] < drained[3])
  <2> HIDE DEF moved, spent
  <2> QED
    BY <1>10
<1> DEFINE parties == Cardinality(payees)
           first == Cardinality(firstTime)
           places == Cardinality(countries)
<1>18. parties \in Int /\ first \in Int /\ places \in Int
  BY <1>12, <1>13, <1>14
<1> HIDE DEF t, moved, spent, count, cards, small, firstTime, most, payees, drained, countries,
             even, round, largest, week, parties, first, places
<1>19. IsRamp(Flat)
  BY DEF IsRamp, Flat
<1>20. t[1] \in Nat
  <2> DEFINE ramp == << count, 10, 40 >>
             more == << 30 - age, 0, 25 >>
  <2>1. IsRamp(ramp) /\ IsRamp(more)
    BY <1>10 DEF IsRamp
  <2> HIDE DEF ramp, more
  <2>2. Weight(20, 15, ramp, 5, more) \in Nat
    BY <2>1, WeightIsNatural
  <2> QED
    BY <1>1, <2>2 DEF ramp, more
<1>21. t[2] \in Nat
  <2> DEFINE ramp == << small, 3, 15 >>
  <2>1. IsRamp(ramp)
    BY <1>10 DEF IsRamp
  <2> HIDE DEF ramp
  <2>2. Weight(15, 15, ramp, 0, Flat) \in Nat
    BY <1>19, <2>1, WeightIsNatural
  <2> QED
    BY <1>2, <2>2 DEF ramp
<1>22. t[3] \in Nat
  <2> DEFINE ramp == << first, 1, 5 >>
             more == << most, 5000, 50000 >>
  <2>1. IsRamp(ramp) /\ IsRamp(more)
    BY <1>15, <1>18 DEF IsRamp
  <2> HIDE DEF ramp, more
  <2>2. Weight(15, 10, ramp, 8, more) \in Nat
    BY <2>1, WeightIsNatural
  <2> QED
    BY <1>3, <2>2 DEF ramp, more, first
<1>23. t[4] \in Nat
  <2> DEFINE ramp == << parties, 4, 15 >>
  <2>1. IsRamp(ramp)
    BY <1>18 DEF IsRamp
  <2>2. moved > 0 => IsRamp(drained)
    BY <1>17 DEF IsRamp
  <2> HIDE DEF ramp
  <2>3. moved > 0 => Weight(15, 12, ramp, 6, drained) \in Nat
    BY <2>1, <2>2, WeightIsNatural
  <2> QED
    BY <1>4, <2>3 DEF ramp, parties
<1>24. t[5] \in Nat
  <2> DEFINE ramp == << places, 3, 10 >>
  <2>1. IsRamp(ramp)
    BY <1>18 DEF IsRamp
  <2> HIDE DEF ramp
  <2>2. Weight(10, 12, ramp, 0, Flat) \in Nat
    BY <1>19, <2>1, WeightIsNatural
  <2> QED
    BY <1>5, <2>2 DEF ramp, places
<1>25. t[6] \in Nat
  <2> DEFINE ramp == << round, 3, 12 >>
  <2>1. IsRamp(ramp)
    BY <1>10 DEF IsRamp
  <2> HIDE DEF ramp
  <2>2. Weight(6, 10, ramp, 0, Flat) \in Nat
    BY <1>19, <2>1, WeightIsNatural
  <2> QED
    BY <1>6, <2>2 DEF ramp
<1>26. t[7] \in Nat
  <2> DEFINE ramp == << largest, 10000, 100000 >>
  <2>1. IsRamp(ramp)
    BY <1>16 DEF IsRamp
  <2> HIDE DEF ramp
  <2>2. Weight(12, 14, ramp, 0, Flat) \in Nat
    BY <1>19, <2>1, WeightIsNatural
  <2> QED
    BY <1>7, <2>2 DEF ramp
<1>27. t[8] \in Nat
  <2> DEFINE ramp == << week, 6, 25 >>
  <2>1. IsRamp(ramp)
    BY <1>10 DEF IsRamp
  <2> HIDE DEF ramp
  <2>2. Weight(12, 16, ramp, 0, Flat) \in Nat
    BY <1>19, <2>1, WeightIsNatural
  <2> QED
    BY <1>8, <2>2 DEF ramp
<1>28. \A i \in 1 .. 8 : t[i] \in Nat
  <2>1. \A i \in 1 .. 8 : i = 1 \/ i = 2 \/ i = 3 \/ i = 4 \/ i = 5 \/ i = 6 \/ i = 7 \/ i = 8
    OBVIOUS
  <2> QED
    BY <1>20, <1>21, <1>22, <1>23, <1>24, <1>25, <1>26, <1>27, <2>1
<1> QED
  BY <1>9, <1>28 DEF t

\* What Fraud finds is typed, and an alert is a score.
LEMMA FraudFindingsAreTyped ==
  ASSUME NEW moves, LedgerTypes(moves), NEW p, p.age \in Nat
  PROVE  /\ FraudTypes(DetectFraud(p, moves))
         /\ DetectFraud(p, moves).score \in 0 .. 100
<1> DEFINE d == DetectFraud(p, moves)
           t == Typologies(moves, p.age)
           total == SumFunction(t)
<1>1. CASE moves = NoRows
  <2>1. d.score = 0 /\ d.assessed \in BOOLEAN
    BY <1>1 DEF DetectFraud
  <2> HIDE DEF d
  <2> QED
    BY <2>1 DEF FraudTypes, d
<1>2. CASE moves # NoRows
  <2>1. DOMAIN t = 1 .. 8 /\ \A i \in 1 .. 8 : t[i] \in Nat
    BY <1>2, TypologiesAreTyped
  <2>2. total = SumFunctionOnSet(t, DOMAIN t)
    BY DEF SumFunction
  <2> DEFINE top == 100
  <2>3. d.score = Min({ top, total }) /\ d.assessed \in BOOLEAN
    BY <1>2 DEF DetectFraud
  <2> HIDE DEF t, total, d
  <2>4. IsFiniteSet(1 .. 8)
    <3>1. 1 \in Int /\ 8 \in Int
      OBVIOUS
    <3> QED
      BY <3>1, FS_Interval
  <2>5. total \in Nat
    BY <2>1, <2>2, <2>4, SumOfNaturals
  <2>6. top \in Int /\ total \in Int
    BY <2>5
  <2> HIDE DEF top
  <2>7. Min({ top, total }) = IF top <= total THEN top ELSE total
    BY <2>6, MinOfTwo
  <2>8. d.score = IF top <= total THEN top ELSE total
    BY <2>3, <2>7
  <2>9. d.score \in 0 .. 100 /\ d.score \in Int
    BY <2>5, <2>8 DEF top
  <2> QED
    BY <2>3, <2>9 DEF FraudTypes, d
<1> QED
  BY <1>1, <1>2

LEMMA NoFraudIsTyped == FraudTypes(NoFraud) /\ NoFraud.score \in 0 .. 100
  BY DEF NoFraud, FraudTypes

------------------------------------------------------------------------------
(* What a case is made of, whatever hops were lost.                        *)

Roles == { "kyc", "aml", "sanctions", "fraud" }

\* The stages a case is in before a role has had its turn.
Before ==
  [kyc       |-> { "intake", "rejected", "kyc" },
   aml       |-> { "intake", "rejected", "kyc", "aml" },
   sanctions |-> { "intake", "rejected", "kyc", "aml", "sanctions" },
   fraud     |-> { "intake", "rejected", "kyc", "aml", "sanctions", "fraud" },
   risk      |-> { "intake", "rejected", "kyc", "aml", "sanctions", "fraud", "risk" }]
Answered(role) == stage \notin Before[role] /\ role \notin lost

\* The hops come in their order, and only a hop that had its turn is lost.
StagesAre ==
  /\ stage \in Roles \cup Over \cup { "intake", "risk", "gate", "paused" }
  /\ lost \subseteq Roles \cup { "risk", "reporting" }
  /\ IsFiniteSet(lost) /\ Cardinality(lost) <= MaxLost
  /\ \A role \in Roles \cup { "risk" } : stage \in Before[role] => role \notin lost
  /\ decision \in Decisions \cup { Undecided }
  /\ decision # Undecided => stage = "completed"

\* A specialist that answered found what it finds in this profile, one that did
\* not left nothing; the rating is the one of those findings; and a report tells
\* both as the analyst's decision left them.
FindingsAre ==
  findings =
    [kyc       |-> IF Answered("kyc") THEN KycFindings(profile) ELSE NoKyc,
     aml       |-> IF Answered("aml") THEN AnalyzeTransactions(profile, ledger) ELSE NoAml,
     sanctions |-> IF Answered("sanctions") THEN SanctionsFindings(profile, ledger)
                   ELSE NoSanctions,
     fraud     |-> IF Answered("fraud") THEN DetectFraud(profile, ledger) ELSE NoFraud]
RatingIs ==
  rating = IF Answered("risk")
           THEN Assess(CountryRisk(profile.country), findings.kyc, findings.aml,
                       findings.sanctions, findings.fraud)
           ELSE NoRating
ReportIs ==
  \/ report = NoReport
  \/ /\ stage \in { "completed", "failed" }
     /\ report = Render(findings, RatingAfter(decision), decision)

InputsAre == profile \in Profiles /\ grid \in [DOMAIN Cells -> Nat] /\ LedgerTypes(ledger)
CaseInv == InputsAre /\ StagesAre /\ FindingsAre /\ RatingIs /\ ReportIs

\* What the grid posts, by where the case comes from and what was typed.
RowIn(from, id) == IF from = "form" THEN CleanRow(Cells[id]) ELSE Cells[id]
Entry(from, id) == WithDefaults(RowIn(from, id))
Kept(from, typing) ==
  { id \in DOMAIN typing : typing[id] > 0 /\ (from = "form" => IsMovement(Cells[id])) }
SameEntry(from, typing, row) == { id \in Kept(from, typing) : Entry(from, id) = row }
Gathered(from, typing) ==
  [row \in { Entry(from, id) : id \in Kept(from, typing) } |->
     SumFunctionOnSet(typing, SameEntry(from, typing, row))]
Taken(from, typing) == \A id \in Kept(from, typing) : Valid(RowIn(from, id))

LEMMA TransactionsAreGathered ==
  /\ Transactions = Gathered(origin, grid) /\ Transactions' = Gathered(origin', grid')
  /\ Acceptable = Taken(origin, grid) /\ Acceptable' = Taken(origin', grid')
<1>1. Transactions = Gathered(origin, grid)
  BY DEF Transactions, Gathered, SameEntry, Entry, RowIn, Kept, Posted, RowOf
<1>2. Transactions' = Gathered(origin', grid')
  BY DEF Transactions, Gathered, SameEntry, Entry, RowIn, Kept, Posted, RowOf
<1>3. Acceptable = Taken(origin, grid)
  BY DEF Acceptable, Taken, RowIn, Kept, Posted, RowOf
<1>4. Acceptable' = Taken(origin', grid')
  BY DEF Acceptable, Taken, RowIn, Kept, Posted, RowOf
<1> QED
  BY <1>1, <1>2, <1>3, <1>4

\* Neither the cleaning nor the defaults touch a row's day or its amount.
LEMMA EntriesAreRows ==
  ASSUME NEW from, NEW id \in DOMAIN Cells
  PROVE  /\ Entry(from, id).day = Cells[id].day /\ Entry(from, id).amount = Cells[id].amount
         /\ RowIn(from, id).amount = Cells[id].amount
         /\ Cells[id].day \in Nat /\ Cells[id].amount \in Int
<1> DEFINE row == Cells[id]
           kept == RowIn(from, id)
           entry == Entry(from, id)
<1>1. row \in [day : Nat, amount : Int, direction : STRING, party : Seq(Tokens),
               channel : STRING, country : STRING]
  BY CellsAssumption
<1> HIDE DEF row
<1>2. CleanRow(row).day = row.day /\ CleanRow(row).amount = row.amount
      /\ DOMAIN CleanRow(row) = DOMAIN row
  BY <1>1 DEF CleanRow
<1>3. kept.day = row.day /\ kept.amount = row.amount /\ DOMAIN kept = DOMAIN row
  BY <1>2 DEF RowIn, row
<1>4. DOMAIN row = { "day", "amount", "direction", "party", "channel", "country" }
  BY <1>1
<1> HIDE DEF kept
<1>5. WithDefaults(kept).day = kept.day /\ WithDefaults(kept).amount = kept.amount
  BY <1>3, <1>4 DEF WithDefaults
<1>6. entry = WithDefaults(kept)
  BY DEF Entry, kept
<1>7. row.day \in Nat /\ row.amount \in Int
  BY <1>1
<1> QED
  BY <1>3, <1>5, <1>6, <1>7 DEF row, kept

\* An accepted ledger holds every row some times, with a day and an amount.
LEMMA TransactionsAreTyped ==
  ASSUME NEW from, NEW typing \in [DOMAIN Cells -> Nat], Taken(from, typing)
  PROVE  LedgerTypes(Gathered(from, typing))
<1> DEFINE moves == Gathered(from, typing)
           kept == Kept(from, typing)
           entries == { Entry(from, id) : id \in kept }
<1>1. kept \in SUBSET DOMAIN Cells /\ IsFiniteSet(kept)
  <2>1. kept \in SUBSET DOMAIN Cells
    BY DEF Kept
  <2> HIDE DEF kept
  <2> QED
    BY <2>1, FS_Subset, CellsAssumption
<1>2. IsFiniteSet(entries)
  <2> DEFINE f == [id \in kept |-> Entry(from, id)]
             image == { f[id] : id \in kept }
  <2>1. image = entries
    OBVIOUS
  <2> HIDE DEF f, kept
  <2>2. IsFiniteSet(image)
    BY <1>1, FiniteRange
  <2> QED
    BY <2>1, <2>2
<1>3. DOMAIN moves = entries
  BY DEF Gathered
<1>4. moves = [row \in Rows(moves) |-> moves[row]]
  BY <1>3 DEF Rows, Gathered
<1>5. ASSUME NEW row \in entries
      PROVE  /\ moves[row] \in Nat /\ moves[row] > 0
             /\ row.day \in Nat /\ row.amount \in Nat
  <2> DEFINE same == SameEntry(from, typing, row)
  <2>1. PICK id \in kept : row = Entry(from, id)
    OBVIOUS
  <2>2. id \in same /\ same \in SUBSET kept
    BY <2>1 DEF SameEntry
  <2>3. moves[row] = SumFunctionOnSet(typing, same)
    BY DEF Gathered
  <2>4. typing[id] > 0 /\ Valid(RowIn(from, id))
    BY DEF Kept, Taken
  <2> HIDE DEF same, kept, moves
  <2>5. IsFiniteSet(same) /\ \A x \in same : typing[x] \in Nat
    BY <1>1, <2>2, FS_Subset
  <2>6. /\ SumFunctionOnSet(typing, same) \in Nat
        /\ \A x \in same : typing[x] <= SumFunctionOnSet(typing, same)
    BY <2>5, SumOfNaturals
  <2>7. moves[row] \in Nat /\ moves[row] > 0
    BY <2>2, <2>3, <2>4, <2>5, <2>6
  <2>8. row.day \in Nat /\ row.amount \in Int /\ row.amount = RowIn(from, id).amount
    BY <1>1, <2>1, EntriesAreRows
  <2>9. RowIn(from, id).amount >= 0
    BY <2>4 DEF Valid
  <2> QED
    BY <2>7, <2>8, <2>9
<1> HIDE DEF moves, entries
<1>6. Rows(moves) = entries
  BY <1>3 DEF Rows
<1>7. LedgerTypes(moves)
  BY <1>2, <1>4, <1>5, <1>6 DEF LedgerTypes
<1> QED
  BY <1>7 DEF moves

\* What an action that calls nobody leaves as it was.
LEMMA NobodyAnswers ==
  ASSUME CaseInv, UNCHANGED << profile, ledger, findings, rating, lost >>,
         \A role \in Roles \cup { "risk" } : stage' \in Before[role] <=> stage \in Before[role]
  PROVE  FindingsAre' /\ RatingIs'
<1>1. \A role \in Roles \cup { "risk" } : Answered(role)' <=> Answered(role)
  BY DEF Answered
<1>2. /\ Answered("kyc")' <=> Answered("kyc")
      /\ Answered("aml")' <=> Answered("aml")
      /\ Answered("sanctions")' <=> Answered("sanctions")
      /\ Answered("fraud")' <=> Answered("fraud")
      /\ Answered("risk")' <=> Answered("risk")
  BY <1>1 DEF Roles
<1>3. FindingsAre'
  BY <1>2 DEF CaseInv, FindingsAre
<1>4. RatingIs'
  BY <1>2 DEF CaseInv, RatingIs
<1> QED
  BY <1>3, <1>4

LEMMA LosesOne ==
  ASSUME StagesAre, NEW hop, Cardinality(lost) < MaxLost
  PROVE  IsFiniteSet(lost \cup { hop }) /\ Cardinality(lost \cup { hop }) <= MaxLost
<1>1. IsFiniteSet(lost)
  BY DEF StagesAre
<1>2. Cardinality(lost) \in Nat /\ MaxLost \in Nat
  BY <1>1, FS_CardinalityType, BoundsAssumption
<1>3. /\ IsFiniteSet(lost \cup { hop })
      /\ Cardinality(lost \cup { hop })
           = IF hop \in lost THEN Cardinality(lost) ELSE Cardinality(lost) + 1
  BY <1>1, FS_AddElement
<1> QED
  BY <1>2, <1>3

LEMMA CaseInit == Init => CaseInv
<1> SUFFICES ASSUME Init PROVE CaseInv
  OBVIOUS
<1>1. LedgerTypes(NoRows)
  <2>1. Rows(NoRows) = {}
    BY DEF Rows, NoRows
  <2>2. NoRows = [row \in {} |-> NoRows[row]]
    BY DEF NoRows
  <2>3. IsFiniteSet({})
    BY FS_EmptySet
  <2> QED
    BY <2>1, <2>2, <2>3 DEF LedgerTypes
<1>2. InputsAre
  BY <1>1, LedgersAssumption DEF Init, InputsAre
<1>3. StagesAre
  <2>1. IsFiniteSet({}) /\ Cardinality({}) = 0
    BY FS_EmptySet
  <2> QED
    BY <2>1, BoundsAssumption DEF Init, StagesAre
<1>4. \A role \in Roles \cup { "risk" } : ~Answered(role)
  BY DEF Init, Answered, Before, Roles
<1>5. ~Answered("kyc") /\ ~Answered("aml") /\ ~Answered("sanctions") /\ ~Answered("fraud")
      /\ ~Answered("risk")
  BY <1>4 DEF Roles
<1>6. FindingsAre
  BY <1>5 DEF Init, FindingsAre, NoFindings
<1>7. RatingIs
  BY <1>5 DEF Init, RatingIs
<1>8. ReportIs
  BY DEF Init, ReportIs
<1> QED
  BY <1>2, <1>3, <1>6, <1>7, <1>8 DEF CaseInv

LEMMA AddRowKeeps ==
  ASSUME CaseInv, NEW id \in DOMAIN Cells, AddRow(id)
  PROVE  CaseInv'
<1>1. InputsAre'
  BY DEF AddRow, CaseInv, InputsAre
<1>2. StagesAre'
  BY DEF AddRow, CaseInv, StagesAre
<1>3. FindingsAre' /\ RatingIs'
  BY NobodyAnswers DEF AddRow
<1>4. ReportIs'
  BY DEF AddRow, CaseInv, ReportIs
<1> QED
  BY <1>1, <1>2, <1>3, <1>4 DEF CaseInv

LEMMA SubmitKeeps ==
  ASSUME CaseInv, Submit
  PROVE  CaseInv'
<1>1. LedgerTypes(ledger')
  <2>1. CASE Acceptable
    <3>1. LedgerTypes(Gathered(origin, grid))
      BY <2>1, TransactionsAreGathered, TransactionsAreTyped DEF CaseInv, InputsAre
    <3> QED
      BY <2>1, <3>1, TransactionsAreGathered DEF Submit
  <2>2. CASE ~Acceptable
    BY <2>2 DEF Submit, CaseInv, InputsAre
  <2> QED
    BY <2>1, <2>2
<1>2. InputsAre'
  BY <1>1 DEF Submit, CaseInv, InputsAre
<1>3. stage' \in { "kyc", "rejected" } /\ stage = "intake"
  BY DEF Submit
<1>4. StagesAre'
  <2>1. \A role \in Roles \cup { "risk" } : role \notin lost
    BY <1>3 DEF CaseInv, StagesAre, Before, Roles
  <2> QED
    BY <1>3, <2>1 DEF Submit, CaseInv, StagesAre, Roles, Over
<1>5. /\ ~Answered("kyc") /\ ~Answered("aml") /\ ~Answered("sanctions") /\ ~Answered("fraud")
      /\ ~Answered("risk")
  BY <1>3 DEF Answered, Before
<1>6. /\ ~Answered("kyc")' /\ ~Answered("aml")' /\ ~Answered("sanctions")' /\ ~Answered("fraud")'
      /\ ~Answered("risk")'
  BY <1>3 DEF Answered, Before
<1>7. FindingsAre' /\ RatingIs'
  BY <1>5, <1>6 DEF Submit, CaseInv, FindingsAre, RatingIs
<1>8. ReportIs'
  BY <1>3 DEF Submit, CaseInv, ReportIs
<1> QED
  BY <1>2, <1>4, <1>7, <1>8 DEF CaseInv

LEMMA DelegateKeeps ==
  ASSUME CaseInv, NEW role \in Roles, Delegate(role)
  PROVE  CaseInv'
<1>1. InputsAre'
  BY DEF Delegate, CaseInv, InputsAre
<1>2. stage = role /\ stage' = NextHop(role)
  BY DEF Delegate
<1>3. stage' \in { "aml", "sanctions", "fraud", "risk" }
  BY <1>2 DEF NextHop, Roles
<1>4. \A other \in Roles \cup { "risk" } :
        other # role => (stage' \in Before[other] <=> stage \in Before[other])
  BY <1>2 DEF NextHop, Roles, Before
<1>5. stage \in Before[role] /\ stage' \notin Before[role]
  BY <1>2 DEF NextHop, Roles, Before
<1>6. role \notin lost
  BY <1>5 DEF CaseInv, StagesAre
<1>7. \/ findings' = [findings EXCEPT ![role] = FindingsOf(role)] /\ lost' = lost
      \/ /\ lost' = lost \cup { role } /\ findings' = findings
         /\ Cardinality(lost) < MaxLost
  BY DEF Delegate
<1>8. StagesAre'
  <2>1. \A other \in Roles \cup { "risk" } : stage' \in Before[other] => other \notin lost'
    BY <1>4, <1>5, <1>7 DEF CaseInv, StagesAre
  <2>2. IsFiniteSet(lost') /\ Cardinality(lost') <= MaxLost
    BY <1>7, LosesOne DEF CaseInv, StagesAre
  <2>3. lost' \subseteq Roles \cup { "risk", "reporting" }
    BY <1>7 DEF CaseInv, StagesAre
  <2>4. decision' = Undecided /\ decision' \in Decisions \cup { Undecided }
    BY <1>2 DEF Delegate, CaseInv, StagesAre, Roles
  <2> QED
    BY <1>3, <2>1, <2>2, <2>3, <2>4 DEF StagesAre, Roles
<1>9. \A other \in Roles \cup { "risk" } : other # role => (Answered(other)' <=> Answered(other))
  BY <1>4, <1>7 DEF Answered
<1>10. ~Answered(role) /\ (Answered(role)' <=> role \notin lost')
  BY <1>5 DEF Answered
<1>11. /\ profile' = profile /\ ledger' = ledger /\ rating' = rating
       /\ ~Answered("risk") /\ ~Answered("risk")'
  <2>1. stage \in Before["risk"] /\ stage' \in Before["risk"]
    BY <1>2, <1>3 DEF Before, Roles
  <2> QED
    BY <2>1 DEF Delegate, Answered
<1>12. FindingsAre'
  <2> DEFINE kyc == IF Answered("kyc") THEN KycFindings(profile) ELSE NoKyc
             aml == IF Answered("aml") THEN AnalyzeTransactions(profile, ledger) ELSE NoAml
             sanctions == IF Answered("sanctions") THEN SanctionsFindings(profile, ledger)
                          ELSE NoSanctions
             fraud == IF Answered("fraud") THEN DetectFraud(profile, ledger) ELSE NoFraud
  <2>1. findings = [kyc |-> kyc, aml |-> aml, sanctions |-> sanctions, fraud |-> fraud]
    BY DEF CaseInv, FindingsAre
  <2>2. findings'
          = [kyc       |-> IF role = "kyc" /\ role \notin lost' THEN KycFindings(profile) ELSE kyc,
             aml       |-> IF role = "aml" /\ role \notin lost'
                           THEN AnalyzeTransactions(profile, ledger) ELSE aml,
             sanctions |-> IF role = "sanctions" /\ role \notin lost'
                           THEN SanctionsFindings(profile, ledger) ELSE sanctions,
             fraud     |-> IF role = "fraud" /\ role \notin lost'
                           THEN DetectFraud(profile, ledger) ELSE fraud]
    <3> HIDE DEF kyc, aml, sanctions, fraud
    <3>1. CASE findings' = findings /\ role \in lost'
      BY <2>1, <3>1
    <3>2. CASE findings' = [findings EXCEPT ![role] = FindingsOf(role)] /\ role \notin lost'
      <4>1. CASE role = "kyc"
        BY <2>1, <3>2, <4>1 DEF FindingsOf
      <4>2. CASE role = "aml"
        BY <2>1, <3>2, <4>2 DEF FindingsOf
      <4>3. CASE role = "sanctions"
        BY <2>1, <3>2, <4>3 DEF FindingsOf
      <4>4. CASE role = "fraud"
        BY <2>1, <3>2, <4>4 DEF FindingsOf
      <4> QED
        BY <4>1, <4>2, <4>3, <4>4 DEF Roles
    <3> QED
      BY <1>6, <1>7, <3>1, <3>2
  <2>3. /\ Answered("kyc")' <=> IF role = "kyc" THEN role \notin lost' ELSE Answered("kyc")
        /\ Answered("aml")' <=> IF role = "aml" THEN role \notin lost' ELSE Answered("aml")
        /\ Answered("sanctions")'
             <=> IF role = "sanctions" THEN role \notin lost' ELSE Answered("sanctions")
        /\ Answered("fraud")' <=> IF role = "fraud" THEN role \notin lost' ELSE Answered("fraud")
    BY <1>9, <1>10 DEF Roles
  <2>4. /\ role = "kyc" => ~Answered("kyc")
        /\ role = "aml" => ~Answered("aml")
        /\ role = "sanctions" => ~Answered("sanctions")
        /\ role = "fraud" => ~Answered("fraud")
    BY <1>10
  <2> QED
    BY <1>11, <2>2, <2>3, <2>4 DEF FindingsAre
<1>13. RatingIs'
  BY <1>11 DEF CaseInv, RatingIs
<1>14. ReportIs'
  <2>1. report = NoReport
    BY <1>2 DEF CaseInv, ReportIs, Roles
  <2> QED
    BY <2>1 DEF Delegate, ReportIs
<1> QED
  BY <1>1, <1>8, <1>12, <1>13, <1>14 DEF CaseInv

\* Once Risk has had its turn, so has every specialist.
LEMMA AfterRisk ==
  \A role \in Roles \cup { "risk" } :
    \A s : s \notin Before["risk"] => s \notin Before[role]
  BY DEF Roles, Before

LEMMA AssessRiskKeeps ==
  ASSUME CaseInv, AssessRisk
  PROVE  CaseInv'
<1>1. InputsAre'
  BY DEF AssessRisk, CaseInv, InputsAre
<1>2. stage = "risk" /\ stage' = "gate"
  BY DEF AssessRisk
<1>3. \/ /\ rating' = Assess(CountryRisk(profile.country), findings.kyc, findings.aml,
                              findings.sanctions, findings.fraud)
         /\ lost' = lost
      \/ /\ lost' = lost \cup { "risk" } /\ rating' = rating
         /\ Cardinality(lost) < MaxLost
  BY DEF AssessRisk
<1>4. /\ stage \in Before["risk"] /\ "risk" \notin lost
      /\ \A role \in Roles : stage \notin Before[role]
      /\ \A role \in Roles \cup { "risk" } : stage' \notin Before[role]
  BY <1>2 DEF CaseInv, StagesAre, Before, Roles
<1>5. StagesAre'
  <2>1. IsFiniteSet(lost') /\ Cardinality(lost') <= MaxLost
    BY <1>3, LosesOne DEF CaseInv, StagesAre
  <2>2. lost' \subseteq Roles \cup { "risk", "reporting" }
    BY <1>3 DEF CaseInv, StagesAre
  <2>3. decision' = Undecided /\ decision' \in Decisions \cup { Undecided }
    BY <1>2 DEF AssessRisk, CaseInv, StagesAre
  <2> QED
    BY <1>2, <1>4, <2>1, <2>2, <2>3 DEF StagesAre
<1>6. \A role \in Roles : Answered(role)' <=> Answered(role)
  BY <1>3, <1>4 DEF Answered, Roles
<1>7. FindingsAre'
  <2>1. /\ Answered("kyc")' <=> Answered("kyc")
        /\ Answered("aml")' <=> Answered("aml")
        /\ Answered("sanctions")' <=> Answered("sanctions")
        /\ Answered("fraud")' <=> Answered("fraud")
    BY <1>6 DEF Roles
  <2> QED
    BY <2>1 DEF AssessRisk, CaseInv, FindingsAre
<1>8. RatingIs'
  <2>1. ~Answered("risk") /\ (Answered("risk")' <=> "risk" \notin lost')
    BY <1>4 DEF Answered
  <2>2. rating = NoRating
    BY <2>1 DEF CaseInv, RatingIs
  <2>3. rating' = IF "risk" \notin lost'
                  THEN Assess(CountryRisk(profile.country), findings.kyc, findings.aml,
                              findings.sanctions, findings.fraud)
                  ELSE NoRating
    BY <1>3, <1>4, <2>2
  <2>4. profile' = profile /\ findings' = findings
    BY DEF AssessRisk
  <2> QED
    BY <2>1, <2>3, <2>4 DEF RatingIs
<1>9. ReportIs'
  <2>1. report = NoReport
    BY <1>2 DEF CaseInv, ReportIs
  <2> QED
    BY <2>1 DEF AssessRisk, ReportIs
<1> QED
  BY <1>1, <1>5, <1>7, <1>8, <1>9 DEF CaseInv

LEMMA PauseKeeps ==
  ASSUME CaseInv, Pause
  PROVE  CaseInv'
<1>1. InputsAre'
  BY DEF Pause, CaseInv, InputsAre
<1>2. stage = "gate" /\ stage' = "paused"
  BY DEF Pause
<1>3. \A role \in Roles \cup { "risk" } : stage' \notin Before[role] /\ stage \notin Before[role]
  BY <1>2 DEF Before, Roles
<1>4. StagesAre'
  BY <1>2, <1>3 DEF Pause, CaseInv, StagesAre
<1>5. FindingsAre' /\ RatingIs'
  BY <1>3, NobodyAnswers DEF Pause
<1>6. ReportIs'
  BY <1>2 DEF Pause, CaseInv, ReportIs
<1> QED
  BY <1>1, <1>4, <1>5, <1>6 DEF CaseInv

\* A report, or its loss, changes nothing of what was found.
LEMMA ReportingKeeps ==
  ASSUME CaseInv, stage \in { "gate", "paused" }, stage' \in { "completed", "failed" },
         lost' \in { lost, lost \cup { "reporting" } },
         UNCHANGED << profile, ledger, findings, rating >>
  PROVE  FindingsAre' /\ RatingIs'
<1>1. \A role \in Roles \cup { "risk" } : stage' \notin Before[role] /\ stage \notin Before[role]
  BY DEF Before, Roles
<1>2. \A role \in Roles \cup { "risk" } : role \in lost' <=> role \in lost
  BY DEF Roles
<1>3. \A role \in Roles \cup { "risk" } : Answered(role)' <=> Answered(role)
  BY <1>1, <1>2 DEF Answered
<1>4. /\ Answered("kyc")' <=> Answered("kyc")
      /\ Answered("aml")' <=> Answered("aml")
      /\ Answered("sanctions")' <=> Answered("sanctions")
      /\ Answered("fraud")' <=> Answered("fraud")
      /\ Answered("risk")' <=> Answered("risk")
  BY <1>3 DEF Roles
<1>5. FindingsAre'
  BY <1>4 DEF CaseInv, FindingsAre
<1>6. RatingIs'
  BY <1>4 DEF CaseInv, RatingIs
<1> QED
  BY <1>5, <1>6

LEMMA FileReportKeeps ==
  ASSUME CaseInv, FileReport
  PROVE  CaseInv'
<1>1. InputsAre'
  BY DEF FileReport, CaseInv, InputsAre
<1>2. stage = "gate" /\ decision' = decision /\ findings' = findings /\ rating' = rating
  BY DEF FileReport
<1>3. \/ report' = Render(findings, rating, Undecided) /\ lost' = lost
      \/ /\ lost' = lost \cup { "reporting" } /\ report' = report
         /\ Cardinality(lost) < MaxLost
  BY DEF FileReport
<1>4. stage' \in { "completed", "failed" }
  BY DEF FileReport
<1>5. decision = Undecided
  BY <1>2 DEF CaseInv, StagesAre
<1>6. StagesAre'
  <2>1. IsFiniteSet(lost') /\ Cardinality(lost') <= MaxLost
    BY <1>3, LosesOne DEF CaseInv, StagesAre
  <2>2. lost' \subseteq Roles \cup { "risk", "reporting" }
    BY <1>3 DEF CaseInv, StagesAre
  <2>3. \A role \in Roles \cup { "risk" } : stage' \notin Before[role]
    BY <1>4 DEF Before, Roles
  <2> QED
    BY <1>2, <1>4, <1>5, <2>1, <2>2, <2>3 DEF StagesAre, Over
<1>7. FindingsAre' /\ RatingIs'
  <2>1. lost' \in { lost, lost \cup { "reporting" } }
    BY <1>3
  <2> QED
    BY <1>2, <1>4, <2>1, ReportingKeeps DEF FileReport
<1>8. ReportIs'
  <2>1. report = NoReport
    BY <1>2 DEF CaseInv, ReportIs
  <2>2. RatingAfter(Undecided)' = rating
    BY <1>2 DEF RatingAfter, Undecided
  <2>3. decision' = Undecided
    BY <1>2, <1>5
  <2>4. RatingAfter(decision)' = rating
    BY <2>2, <2>3
  <2>5. CASE report' = report
    BY <2>1, <2>5 DEF ReportIs
  <2>6. CASE report' = Render(findings, rating, Undecided)
    <3>1. report' = Render(findings', RatingAfter(decision)', decision')
      BY <1>2, <2>3, <2>4, <2>6
    <3> QED
      BY <1>4, <3>1 DEF ReportIs
  <2> QED
    BY <1>3, <2>5, <2>6
<1> QED
  BY <1>1, <1>6, <1>7, <1>8 DEF CaseInv

LEMMA DecideKeeps ==
  ASSUME CaseInv, NEW human \in Decisions, Decide(human)
  PROVE  CaseInv'
<1>1. InputsAre'
  BY DEF Decide, CaseInv, InputsAre
<1>2. /\ stage = "paused" /\ stage' = "completed" /\ decision' = human
      /\ findings' = findings /\ rating' = rating
  BY DEF Decide
<1>3. \/ report' = Render(findings, RatingAfter(human), human) /\ lost' = lost
      \/ /\ lost' = lost \cup { "reporting" } /\ report' = report
         /\ Cardinality(lost) < MaxLost
  BY DEF Decide
<1>4. StagesAre'
  <2>1. IsFiniteSet(lost') /\ Cardinality(lost') <= MaxLost
    BY <1>3, LosesOne DEF CaseInv, StagesAre
  <2>2. lost' \subseteq Roles \cup { "risk", "reporting" }
    BY <1>3 DEF CaseInv, StagesAre
  <2>3. \A role \in Roles \cup { "risk" } : stage' \notin Before[role]
    BY <1>2 DEF Before, Roles
  <2> QED
    BY <1>2, <2>1, <2>2, <2>3 DEF StagesAre, Over
<1>5. FindingsAre' /\ RatingIs'
  <2>1. lost' \in { lost, lost \cup { "reporting" } } /\ stage' \in { "completed", "failed" }
    BY <1>2, <1>3
  <2> QED
    BY <1>2, <2>1, ReportingKeeps DEF Decide
<1>6. ReportIs'
  <2>1. report = NoReport
    BY <1>2 DEF CaseInv, ReportIs
  <2>2. RatingAfter(human)' = RatingAfter(human)
    BY <1>2 DEF RatingAfter
  <2>3. RatingAfter(decision)' = RatingAfter(human)'
    BY <1>2 DEF RatingAfter
  <2>4. CASE report' = report
    BY <2>1, <2>4 DEF ReportIs
  <2>5. CASE report' = Render(findings, RatingAfter(human), human)
    <3>1. report' = Render(findings', RatingAfter(decision)', decision')
      BY <1>2, <2>2, <2>3, <2>5
    <3> QED
      BY <1>2, <3>1 DEF ReportIs
  <2> QED
    BY <1>3, <2>4, <2>5
<1> QED
  BY <1>1, <1>4, <1>5, <1>6 DEF CaseInv

LEMMA CaseStep == CaseInv /\ [Next]_vars => CaseInv'
<1> SUFFICES ASSUME CaseInv, [Next]_vars PROVE CaseInv'
  OBVIOUS
<1>1. ASSUME NEW id \in DOMAIN Cells, AddRow(id) PROVE CaseInv'
  BY <1>1, AddRowKeeps
<1>2. CASE Submit
  BY <1>2, SubmitKeeps
<1>3. ASSUME NEW role \in DOMAIN NoFindings, Delegate(role) PROVE CaseInv'
  <2>1. role \in Roles
    BY <1>3 DEF NoFindings, Roles
  <2> QED
    BY <1>3, <2>1, DelegateKeeps
<1>4. CASE AssessRisk
  BY <1>4, AssessRiskKeeps
<1>5. CASE Pause
  BY <1>5, PauseKeeps
<1>6. CASE FileReport
  BY <1>6, FileReportKeeps
<1>7. ASSUME NEW human \in Decisions, Decide(human) PROVE CaseInv'
  BY <1>7, DecideKeeps
<1>8. CASE UNCHANGED vars
  <2>1. UNCHANGED << profile, grid, ledger, stage, lost, decision, findings, rating, report >>
    BY <1>8 DEF vars
  <2>2. FindingsAre' /\ RatingIs'
    BY <2>1, NobodyAnswers
  <2>3. InputsAre' /\ StagesAre'
    BY <2>1 DEF CaseInv, InputsAre, StagesAre
  <2>4. RatingAfter(decision)' = RatingAfter(decision)
    BY <2>1 DEF RatingAfter
  <2>5. ReportIs'
    BY <2>1, <2>4 DEF CaseInv, ReportIs
  <2> QED
    BY <2>2, <2>3, <2>5 DEF CaseInv
<1> QED
  BY <1>1, <1>2, <1>3, <1>4, <1>5, <1>6, <1>7, <1>8 DEF Next

LEMMA CaseAlways == Spec => []CaseInv
  BY CaseInit, CaseStep, PTL DEF Spec

------------------------------------------------------------------------------
(* What follows from it.                                                   *)

\* What every finding of a case is made of.
LEMMA CaseIsTyped ==
  ASSUME CaseInv
  PROVE  /\ KycTypes(findings.kyc) /\ findings.kyc.quality \in 0 .. 100
         /\ AmlTypes(findings.aml)
         /\ findings.aml.proximity \in PerMille /\ findings.aml.cashRatio \in PerMille
         /\ FraudTypes(findings.fraud) /\ findings.fraud.score \in 0 .. 100
         /\ profile.name \in Seq(Tokens)
<1>1. /\ profile.name \in Seq(Tokens) /\ profile.expected \in Nat /\ profile.age \in Nat
      /\ profile.attested \in SUBSET DOMAIN ATTESTED_INDICATORS
  BY ProfilesAssumption DEF CaseInv, InputsAre
<1>2. LedgerTypes(ledger)
  BY DEF CaseInv, InputsAre
<1>3. /\ findings.kyc = IF Answered("kyc") THEN KycFindings(profile) ELSE NoKyc
      /\ findings.aml = IF Answered("aml") THEN AnalyzeTransactions(profile, ledger) ELSE NoAml
      /\ findings.fraud = IF Answered("fraud") THEN DetectFraud(profile, ledger) ELSE NoFraud
  BY DEF CaseInv, FindingsAre
<1>4. KycTypes(findings.kyc) /\ findings.kyc.quality \in 0 .. 100
  BY <1>1, <1>3, KycFindingsAreTyped, NoKycIsTyped
<1>5. FraudTypes(findings.fraud) /\ findings.fraud.score \in 0 .. 100
  BY <1>1, <1>2, <1>3, FraudFindingsAreTyped, NoFraudIsTyped
<1>6. /\ AmlTypes(AnalyzeTransactions(profile, ledger))
      /\ AnalyzeTransactions(profile, ledger).proximity \in PerMille
      /\ AnalyzeTransactions(profile, ledger).cashRatio \in PerMille
  BY <1>1, <1>2, LedgerFindingsAreTyped, NoLedgerIsTyped DEF AnalyzeTransactions
<1>7. /\ AmlTypes(findings.aml) /\ findings.aml.proximity \in PerMille
      /\ findings.aml.cashRatio \in PerMille
  BY <1>3, <1>6, NoAmlIsTyped
<1> QED
  BY <1>1, <1>4, <1>5, <1>7

\* A rating is one of its findings, or none.
LEMMA RatingsAreAssessed ==
  ASSUME CaseInv, ~rating.lost
  PROVE  /\ \A role \in Roles : stage \notin Before[role]
         /\ rating = Assess(CountryRisk(profile.country), findings.kyc, findings.aml,
                            findings.sanctions, findings.fraud)
<1>1. NoRating.lost
  BY DEF NoRating
<1>2. Answered("risk")
  BY <1>1 DEF CaseInv, RatingIs
<1> QED
  BY <1>2, AfterRisk DEF Answered, CaseInv, RatingIs

LEMMA AssessIsTyped ==
  ASSUME NEW residence \in Int, NEW k, KycTypes(k), NEW a, AmlTypes(a), NEW s,
         NEW f, FraudTypes(f)
  PROVE  LET dims == Dimensions(residence, k, a, s, f)
             floors == EscalationFloors(k, a, s, f)
             rated == Assess(residence, k, a, s, f)
         IN  /\ dims \in RatedDims /\ floors \in SUBSET FloorScores
             /\ rated.score = Overall(dims, floors) /\ rated.score \in 0 .. 100
             /\ rated.band = BandFor(rated.score) /\ rated.band \in Band
             /\ rated.confidence = Confidence(k, a, s, dims) /\ rated.confidence \in 0 .. 100
             /\ rated.sar <=> rated.band \in { "HIGH", "CRITICAL" } \/ WarrantsFiling(a, f)
             /\ rated.unassessed = Dims \ Counted(dims)
             /\ rated.actions = Actions(rated.band, k, a, s, f)
<1> DEFINE dims == Dimensions(residence, k, a, s, f)
           floors == EscalationFloors(k, a, s, f)
           rated == Assess(residence, k, a, s, f)
<1>1. dims \in RatedDims
  BY DimensionsAreRated
<1>2. floors \in SUBSET FloorScores
  BY DEF EscalationFloors, FloorScores
<1>3. /\ rated.score = Overall(dims, floors) /\ rated.band = BandFor(rated.score)
      /\ rated.confidence = Confidence(k, a, s, dims)
      /\ rated.unassessed = Dims \ Counted(dims)
      /\ rated.actions = Actions(rated.band, k, a, s, f)
  BY DEF Assess
<1>4. rated.sar <=> rated.band \in { "HIGH", "CRITICAL" } \/ WarrantsFiling(a, f)
  BY DEF Assess
<1> HIDE DEF dims, floors, rated
<1>5. rated.score \in 0 .. 100 /\ rated.confidence \in 0 .. 100
  BY <1>1, <1>2, <1>3, OverallIsBounded, ConfidenceHasACeiling
<1>6. rated.band \in Band
  BY <1>3 DEF BandFor, Band
<1> QED
  BY <1>1, <1>2, <1>3, <1>4, <1>5, <1>6 DEF dims, floors, rated

LEMMA CountryRiskIsInt == \A c : CountryRisk(c) \in Int
<1>1. { 10, 20, 40, 70, 100 } \subseteq Int
  OBVIOUS
<1> QED
  BY <1>1, CountryRiskIsWhole, Zenon

\* TypeOK: every finding, rating and report is made of the values its readers
\* take, for every list, table of risks, customer and ledger, whatever was lost.
LEMMA CaseTypes == CaseInv => TypeOK
<1> SUFFICES ASSUME CaseInv PROVE TypeOK
  OBVIOUS
<1>1. ToSet(Specialists) = Roles
  BY DEF ToSet, Specialists, Roles
<1>2. ledger # NoRows => \A row \in Rows(ledger) : ledger[row] > 0 /\ row.amount \in Nat
  BY Zenon DEF CaseInv, InputsAre, LedgerTypes
<1>3. /\ findings.fraud.score \in 0 .. 100 /\ findings.kyc.quality \in 0 .. 100
      /\ findings.aml.proximity \in 0 .. 1000 /\ findings.aml.cashRatio \in 0 .. 1000
  BY CaseIsTyped, SMTT(60) DEF PerMille
<1>4. rating.score \in 0 .. 100 /\ rating.confidence \in 0 .. 100 /\ rating.band \in Band
  <2>1. CASE rating = NoRating
    BY <2>1 DEF NoRating, Band
  <2>2. CASE rating = Assess(CountryRisk(profile.country), findings.kyc, findings.aml,
                             findings.sanctions, findings.fraud)
    BY <2>2, CaseIsTyped, CountryRiskIsInt, AssessIsTyped
  <2> QED
    BY <2>1, <2>2 DEF CaseInv, RatingIs
<1> QED
  BY <1>1, <1>2, <1>3, <1>4 DEF CaseInv, StagesAre, TypeOK

\* Whatever was lost, the records of a case hold the values their readers take.
THEOREM CasesAreTyped == Spec => []TypeOK
  BY CaseAlways, CaseTypes, PTL

\* What is filed is the rating as the decision left it.
LEMMA FiledReport ==
  ASSUME CaseInv, report.filed
  PROVE  /\ report = Render(findings, RatingAfter(decision), decision)
         /\ stage \in { "completed", "failed" }
<1>1. ~NoReport.filed
  BY DEF NoReport
<1> QED
  BY <1>1 DEF CaseInv, ReportIs

\* What a decision changes of a rating, and what not.
LEMMA DecidedRating ==
  ASSUME NEW human, human \in Decisions \cup { Undecided }, CaseInv
  PROVE  LET after == RatingAfter(human)
         IN  /\ after.score = rating.score /\ after.actions = rating.actions
             /\ after.unassessed = rating.unassessed
             /\ \/ after = rating
                \/ /\ human.action = "override"
                   /\ after.sar <=> after.band \in { "HIGH", "CRITICAL" }
                \/ human.action = "close" /\ after.band = "LOW" /\ ~after.sar
<1> DEFINE Fields == { "lost", "score", "band", "sar", "decision", "actions", "unassessed",
                       "confidence" }
<1>1. DOMAIN rating = Fields
  <2>1. DOMAIN NoRating = Fields
    BY DEF NoRating
  <2>2. DOMAIN Assess(CountryRisk(profile.country), findings.kyc, findings.aml,
                      findings.sanctions, findings.fraud) = Fields
    BY DEF Assess
  <2> QED
    BY <2>1, <2>2 DEF CaseInv, RatingIs
<1>2. CASE human.action = "override" /\ human.band # "none"
  <2>1. RatingAfter(human)
          = [rating EXCEPT !.band = human.band,
                           !.decision = IF human.band \in Band THEN DecisionFor(human.band)
                                        ELSE rating.decision,
                           !.sar = human.band \in { "HIGH", "CRITICAL" }]
    BY <1>2 DEF RatingAfter
  <2> DEFINE after == RatingAfter(human)
             files == human.band \in { "HIGH", "CRITICAL" }
  <2> HIDE DEF files
  <2>2. /\ after.score = rating.score /\ after.actions = rating.actions
        /\ after.unassessed = rating.unassessed
        /\ after.band = human.band /\ after.sar = files
    BY <1>1, <2>1 DEF files
  <2> HIDE DEF after
  <2>3. after.sar <=> after.band \in { "HIGH", "CRITICAL" }
    BY <2>2 DEF files
  <2> QED
    BY <1>2, <2>2, <2>3 DEF after
<1>3. CASE human.action = "close"
  <2>1. RatingAfter(human)
          = [rating EXCEPT !.band = "LOW", !.decision = "no_action", !.sar = FALSE]
    BY <1>3 DEF RatingAfter
  <2> QED
    BY <1>1, <1>3, <2>1
<1>4. CASE ~(human.action = "override" /\ human.band # "none") /\ human.action # "close"
  <2>1. RatingAfter(human) = rating
    BY <1>4 DEF RatingAfter
  <2> QED
    BY <2>1
<1> QED
  BY <1>2, <1>3, <1>4

\* FilingIsNeverLow: no case that recommends a filing reads LOW, nor a report of
\* one (tests/test_agents.py: a report that says both "contradicts itself").
LEMMA FilingsAreRated == CaseInv => FilingIsNeverLow
<1> SUFFICES ASSUME CaseInv PROVE FilingIsNeverLow
  OBVIOUS
<1>1. rating.sar => rating.band # "LOW"
  <2>1. CASE rating.lost
    <3>1. rating = NoRating
      BY <2>1 DEF CaseInv, RatingIs, Assess
    <3> QED
      BY <3>1 DEF NoRating
  <2>2. CASE ~rating.lost
    <3> DEFINE k == findings.kyc
               a == findings.aml
               s == findings.sanctions
               f == findings.fraud
               residence == CountryRisk(profile.country)
               dims == Dimensions(residence, k, a, s, f)
               floors == EscalationFloors(k, a, s, f)
    <3>1. rating = Assess(residence, k, a, s, f)
      BY <2>2, RatingsAreAssessed
    <3>2. KycTypes(k) /\ AmlTypes(a) /\ FraudTypes(f) /\ residence \in Int
      BY CaseIsTyped, CountryRiskIsInt
    <3>3. /\ dims \in RatedDims /\ rating.band = BandFor(Overall(dims, floors))
          /\ rating.sar <=> rating.band \in { "HIGH", "CRITICAL" } \/ WarrantsFiling(a, f)
      BY <3>1, <3>2, AssessIsTyped
    <3>4. WarrantsFiling(a, f) => BandFor(Overall(dims, floors)) # "LOW"
      BY <3>3, FilingHasABand
    <3> QED
      BY <3>3, <3>4
  <2> QED
    BY <2>1, <2>2
<1>2. ASSUME report.filed, report.sar PROVE report.headline.band # "LOW"
  <2> DEFINE after == RatingAfter(decision)
  <2>1. report = Render(findings, after, decision)
    BY <1>2, FiledReport
  <2>2. /\ \/ after = rating
           \/ after.sar <=> after.band \in { "HIGH", "CRITICAL" }
           \/ ~after.sar
    BY DecidedRating DEF CaseInv, StagesAre
  <2> HIDE DEF after
  <2>3. report.sar = after.sar /\ report.headline.band = after.band
    BY <2>1 DEF Render, Classification
  <2> QED
    BY <1>1, <1>2, <2>2, <2>3
<1> QED
  BY <1>1, <1>2 DEF FilingIsNeverLow

\* No step of the pipeline or of an analyst makes a case that recommends a filing
\* and reads LOW, nor a report of one.
THEOREM FilingsAreNeverLow == Spec => []FilingIsNeverLow
  BY CaseAlways, FilingsAreRated, PTL

\* ThinEvidenceIsLowConfidence: without a ledger, with fewer rows than a pattern
\* takes or with AML lost, the confidence of a rating is LOW.
LEMMA ThinRatingsAreLow == CaseInv => ThinEvidenceIsLowConfidence
<1> SUFFICES ASSUME CaseInv, ~rating.lost, ConfidenceLabel(rating.confidence) # "LOW"
             PROVE  "aml" \notin lost /\ RowCount(ledger, Rows(ledger)) >= MinPatternRows
  BY DEF ThinEvidenceIsLowConfidence, Rated
<1> DEFINE k == findings.kyc
           a == findings.aml
           s == findings.sanctions
           f == findings.fraud
           residence == CountryRisk(profile.country)
           dims == Dimensions(residence, k, a, s, f)
<1>1. rating = Assess(residence, k, a, s, f) /\ stage \notin Before["aml"]
  BY RatingsAreAssessed DEF Roles
<1>2. KycTypes(k) /\ AmlTypes(a) /\ FraudTypes(f) /\ residence \in Int
  BY CaseIsTyped, CountryRiskIsInt
<1>3. dims \in RatedDims /\ rating.confidence = Confidence(k, a, s, dims)
  BY <1>1, <1>2, AssessIsTyped
<1>4. a = IF "aml" \notin lost THEN AnalyzeTransactions(profile, ledger) ELSE NoAml
  BY <1>1 DEF CaseInv, FindingsAre, Answered
<1> HIDE DEF k, a, s, f, dims, residence
<1>5. Confidence(k, a, s, dims) \in 0 .. 100
  BY <1>2, <1>3, ConfidenceHasACeiling
<1>6. ~(Confidence(k, a, s, dims) < 50)
  BY <1>3, <1>5 DEF ConfidenceLabel
<1>7. a.ledger /\ ~(a.count < MinPatternRows)
  BY <1>2, <1>3, <1>6, ConfidenceHasACeiling
<1>8. "aml" \notin lost
  <2>1. CASE "aml" \in lost
    <3>1. a.count = 0
      BY <1>4, <2>1, NoAmlIsTyped
    <3> QED
      BY <1>7, <3>1 DEF MinPatternRows
  <2> QED
    BY <2>1
<1>9. ledger # NoRows
  <2>1. CASE ledger = NoRows
    <3>1. a = NoLedger(profile.attested)
      BY <1>4, <1>8, <2>1 DEF AnalyzeTransactions
    <3>2. profile.attested \in SUBSET DOMAIN ATTESTED_INDICATORS
      BY ProfilesAssumption DEF CaseInv, InputsAre
    <3> QED
      BY <1>7, <3>1, <3>2, NoLedgerIsTyped
  <2> QED
    BY <2>1
<1>10. a.count = RowCount(ledger, Rows(ledger))
  <2>1. a = AnalyzeLedger(ledger, profile.expected, profile.attested)
    BY <1>4, <1>8, <1>9 DEF AnalyzeTransactions
  <2>2. /\ profile.expected \in Nat /\ LedgerTypes(ledger)
        /\ profile.attested \in SUBSET DOMAIN ATTESTED_INDICATORS
    BY ProfilesAssumption DEF CaseInv, InputsAre
  <2> QED
    BY <2>1, <2>2, LedgerFindingsAreTyped
<1>11. a.count \in Nat
  BY <1>2 DEF AmlTypes
<1> QED
  BY <1>7, <1>8, <1>10, <1>11 DEF MinPatternRows

\* No rating is more reliable than its transactions are many (risk.py,
\* _confidence: the ceilings for thin evidence).
THEOREM ThinEvidenceIsNotTrusted == Spec => []ThinEvidenceIsLowConfidence
  BY CaseAlways, ThinRatingsAreLow, PTL

LEMMA FloorsAreFinite ==
  ASSUME NEW floors \in SUBSET FloorScores
  PROVE  IsFiniteSet(floors) /\ floors \in SUBSET Int
<1> DEFINE lo == 25
           hi == 90
<1>1. lo \in Int /\ hi \in Int /\ FloorScores \in SUBSET (lo .. hi) /\ FloorScores \subseteq Int
  BY DEF FloorScores
<1> HIDE DEF lo, hi
<1>2. IsFiniteSet(lo .. hi)
  BY <1>1, FS_Interval
<1>3. floors \in SUBSET (lo .. hi)
  BY <1>1
<1> QED
  BY <1>1, <1>2, <1>3, FS_Subset

\* A floor that applies is one the band does not fall below.
LEMMA FloorsAreReached ==
  ASSUME NEW dims \in RatedDims, NEW floors \in SUBSET FloorScores, NEW floor \in floors
  PROVE  \E score \in Int : score >= floor /\ BandFor(Overall(dims, floors)) = BandFor(score)
<1> DEFINE top == Max(floors)
           blend == RoundDiv(Blended(dims), WeightSum(dims))
           score == Max({ blend, top })
<1>1. top \in Int /\ top >= floor
  <2>1. IsFiniteSet(floors) /\ floors \in SUBSET Int /\ floors # {}
    BY FloorsAreFinite
  <2> QED
    BY <2>1, MaxExists
<1>2. blend \in Int
  <2> DEFINE n == Blended(dims)
             d == WeightSum(dims)
  <2>1. d \in Divisors /\ n \in 0 .. (100 * d)
    BY BlendIsADivision
  <2> HIDE DEF n, d
  <2>2. d \in Nat /\ d > 0 /\ n \in Int
    BY <2>1 DEF Divisors
  <2> QED
    BY <2>2, RoundDivIsWhole DEF n, d
<1>3. BandFor(Overall(dims, floors)) = BandFor(score)
  BY EscalationKeepsBand
<1> HIDE DEF top, blend
<1>4. score = IF blend >= top THEN blend ELSE top
  BY <1>1, <1>2, MaxOfTwo
<1>5. score \in Int /\ score >= top
  BY <1>1, <1>2, <1>4
<1>6. floor \in Int
  BY DEF FloorScores
<1>7. score >= floor
  BY <1>1, <1>5, <1>6
<1> HIDE DEF score
<1> QED
  BY <1>3, <1>5, <1>7

\* Only the highest of the floors counts, and none where there is none.
LEMMA HighestFloorCounts ==
  ASSUME NEW dims \in RatedDims, NEW floors \in SUBSET FloorScores
  PROVE  BandFor(Overall(dims, floors))
           = BandFor(Max({ RoundDiv(Blended(dims), WeightSum(dims)) } \cup floors))
<1> DEFINE blend == RoundDiv(Blended(dims), WeightSum(dims))
           all == { blend } \cup floors
<1> SUFFICES BandFor(Overall(dims, floors)) = BandFor(Max(all))
  OBVIOUS
<1>1. blend \in 0 .. 100
  <2> DEFINE n == Blended(dims)
             d == WeightSum(dims)
             k == 100
  <2>1. d \in Divisors /\ n \in 0 .. (k * d)
    BY BlendIsADivision
  <2> HIDE DEF n, d
  <2>2. d \in Nat /\ d > 0 /\ n \in Nat /\ k \in Nat /\ n <= k * d
    BY <2>1 DEF Divisors
  <2> HIDE DEF k
  <2>3. RoundDiv(n, d) \in 0 .. k
    BY <2>2, RoundDivIsBounded
  <2> QED
    BY <2>3 DEF n, d, k
<1>2. blend \in Int
  BY <1>1
<1>3. IsFiniteSet(floors) /\ floors \in SUBSET Int
  BY FloorsAreFinite
<1>4. Overall(dims, floors)
        = Clamped(IF floors = {} THEN blend
                  ELSE ApplyFloor(Blended(dims), WeightSum(dims), Max(floors)), 0, 100)
  BY DEF Overall
<1>5. floors # {} => BandFor(Overall(dims, floors)) = BandFor(Max({ blend, Max(floors) }))
  BY EscalationKeepsBand
<1> HIDE DEF blend
<1>6. CASE floors = {}
  <2>1. all = { blend }
    BY <1>6
  <2>2. IsFiniteSet(all) /\ all # {}
    BY <2>1, FS_Singleton
  <2>3. all \in SUBSET Int
    BY <1>2, <2>1
  <2>4. Max(all) \in all
    <3> HIDE DEF all
    <3> QED
      BY <2>2, <2>3, MaxExists
  <2>5. Max(all) = blend
    BY <2>1, <2>4
  <2>6. Clamped(blend, 0, 100) = blend
    BY <1>1 DEF Clamped
  <2> QED
    BY <1>4, <1>6, <2>5, <2>6
<1>7. CASE floors # {}
  <2> DEFINE top == Max(floors)
  <2>1. top \in floors /\ \A y \in floors : y <= top
    BY <1>3, <1>7, MaxExists
  <2>2. top \in Int
    BY <1>3, <2>1
  <2>3. all \in SUBSET Int /\ all # {} /\ blend \in all /\ floors \subseteq all
    BY <1>2, <1>3
  <2>4. IsFiniteSet(all)
    <3>1. IsFiniteSet(floors \cup { blend })
      BY <1>3, FS_AddElement
    <3>2. all = floors \cup { blend }
      OBVIOUS
    <3> QED
      BY <3>1, <3>2
  <2>5. \A y \in all : y = blend \/ y \in floors
    OBVIOUS
  <2> HIDE DEF all, top
  <2>6. Max(all) \in all /\ \A y \in all : y <= Max(all)
    BY <2>3, <2>4, MaxExists
  <2>7. Max({ blend, top }) = IF blend >= top THEN blend ELSE top
    BY <1>2, <2>2, MaxOfTwo
  <2>8. Max(all) = IF blend >= top THEN blend ELSE top
    <3> DEFINE m == Max(all)
    <3>1. m \in Int /\ (m = blend \/ m <= top)
      BY <1>3, <2>1, <2>3, <2>5, <2>6
    <3>2. blend <= m /\ top <= m
      BY <2>1, <2>3, <2>6
    <3> HIDE DEF m
    <3>3. m = IF blend >= top THEN blend ELSE top
      BY <1>2, <2>2, <3>1, <3>2
    <3> QED
      BY <3>3 DEF m
  <2>9. Max(all) = Max({ blend, top })
    BY <2>7, <2>8
  <2> QED
    BY <1>5, <1>7, <2>9 DEF top
<1> QED
  BY <1>6, <1>7

\* What Sanctions finds of a listed party and of a blocked country.
LEMMA ListedPartiesAreFound ==
  ASSUME NEW p, p.name \in Seq(Tokens), NEW moves
  PROVE  LET s == SanctionsFindings(p, moves)
         IN  /\ Listed({ p.name } \cup { row.party : row \in Rows(moves) })
                  => s.tier = "STRONG" \/ s.counterpartyHit
             /\ p.country \in BlockedCountries => s.blockedExposure
<1> DEFINE s == SanctionsFindings(p, moves)
           named == { q \in Rows(moves) : q.party # Nobody }
           others == { [name |-> r.party, country |-> r.country] : r \in named }
           own == BestMatch(p.name, SanctionedNames)
<1>1. s = ScreenSanctions(p.name, p.country, others)
  BY DEF SanctionsFindings
<1>2. own \in Int
  BY ListsAssumption, BestMatchIsWhole
<1> HIDE DEF s, others, own
<1>3. /\ s.tier = CASE own >= 85 -> "STRONG" [] own \in 70 .. 84 -> "POSSIBLE"
                    [] OTHER -> "NONE"
      /\ s.counterpartyHit <=> \E party \in others : BestMatch(party.name, SanctionedNames) >= 85
      /\ CountryRisk(p.country) = 100 => s.blockedExposure
  BY <1>1 DEF ScreenSanctions, own
<1>4. own >= 85 => s.tier = "STRONG"
  <2>1. own >= 85 => own \notin 70 .. 84
    BY <1>2
  <2> QED
    BY <1>3, <2>1
<1>5. ASSUME NEW row \in Rows(moves), BestMatch(row.party, SanctionedNames) >= 85
      PROVE  s.counterpartyHit
  <2>1. row.party # Nobody
    BY <1>5, NobodyMatchesNone
  <2>2. [name |-> row.party, country |-> row.country] \in others
    BY <2>1 DEF others
  <2>3. [name |-> row.party, country |-> row.country].name = row.party
    OBVIOUS
  <2> QED
    BY <1>3, <1>5, <2>2, <2>3
<1>6. ASSUME Listed({ p.name } \cup { row.party : row \in Rows(moves) })
      PROVE  s.tier = "STRONG" \/ s.counterpartyHit
  <2>1. PICK name \in { p.name } \cup { row.party : row \in Rows(moves) } :
               BestMatch(name, SanctionedNames) >= 85
    BY <1>6 DEF Listed
  <2>2. CASE name = p.name
    BY <1>4, <2>1, <2>2 DEF own
  <2>3. CASE name \in { row.party : row \in Rows(moves) }
    BY <1>5, <2>1, <2>3
  <2> QED
    BY <2>1, <2>2, <2>3
<1>7. ASSUME p.country \in BlockedCountries PROVE s.blockedExposure
  BY <1>3, <1>7, CountriesAssumption DEF CountryRisk
<1> QED
  BY <1>6, <1>7 DEF s

\* EscalationHolds: the name of a listed party, a blocked residence and a
\* declared PEP each bind the band, whatever else was found or lost, and the
\* band is the one of the blend or of the highest floor (risk.py: "a strong
\* sanctions hit alone forces CRITICAL; a blocked-country or a PEP can't score
\* LOW").
LEMMA EscalationsAreRated == CaseInv => EscalationHolds
<1> DEFINE k == findings.kyc
           a == findings.aml
           s == findings.sanctions
           f == findings.fraud
           residence == CountryRisk(profile.country)
           dims == Dimensions(residence, k, a, s, f)
           floors == EscalationFloors(k, a, s, f)
           blend == RoundDiv(Blended(dims), WeightSum(dims))
           names == { profile.name } \cup { row.party : row \in Rows(ledger) }
<1> SUFFICES ASSUME CaseInv, ~rating.lost
             PROVE  /\ "sanctions" \notin lost /\ Listed(names) => rating.band = "CRITICAL"
                    /\ "sanctions" \notin lost /\ profile.country \in BlockedCountries
                         => rating.band \in { "HIGH", "CRITICAL" }
                    /\ "kyc" \notin lost /\ profile.declaredPep => rating.band # "LOW"
                    /\ rating.band = BandFor(Max({ blend } \cup floors))
  BY DEF EscalationHolds, Rated
<1>1. /\ rating = Assess(residence, k, a, s, f)
      /\ stage \notin Before["sanctions"] /\ stage \notin Before["kyc"]
  BY RatingsAreAssessed DEF Roles
<1>2. KycTypes(k) /\ AmlTypes(a) /\ FraudTypes(f) /\ residence \in Int
  BY CaseIsTyped, CountryRiskIsInt
<1>3. /\ dims \in RatedDims /\ floors \in SUBSET FloorScores
      /\ rating.band = BandFor(Overall(dims, floors))
  BY <1>1, <1>2, AssessIsTyped
<1>4. "sanctions" \notin lost => s = SanctionsFindings(profile, ledger)
  BY <1>1 DEF CaseInv, FindingsAre, Answered
<1>5. "kyc" \notin lost => k = KycFindings(profile)
  BY <1>1 DEF CaseInv, FindingsAre, Answered
<1>6. profile.name \in Seq(Tokens)
  BY CaseIsTyped
<1>7. /\ s.tier = "STRONG" \/ s.counterpartyHit => 90 \in floors
      /\ s.blockedExposure => 60 \in floors
      /\ k.declaredPep => 30 \in floors
  BY DEF EscalationFloors
<1> HIDE DEF k, a, s, f, dims, floors, residence
<1>8. 90 \in floors => rating.band = "CRITICAL"
  <2> DEFINE floor == 90
  <2> SUFFICES ASSUME floor \in floors PROVE rating.band = "CRITICAL"
    OBVIOUS
  <2>1. floor >= 75 /\ floor \in Int
    OBVIOUS
  <2> HIDE DEF floor
  <2>2. PICK score \in Int : score >= floor /\ BandFor(Overall(dims, floors)) = BandFor(score)
    BY <1>3, FloorsAreReached
  <2>3. score >= 75
    BY <2>1, <2>2
  <2>4. BandFor(score) = "CRITICAL"
    BY <2>3 DEF BandFor
  <2> QED
    BY <1>3, <2>2, <2>4
<1>9. 60 \in floors => rating.band \in { "HIGH", "CRITICAL" }
  <2> DEFINE floor == 60
  <2> SUFFICES ASSUME floor \in floors PROVE rating.band \in { "HIGH", "CRITICAL" }
    OBVIOUS
  <2>1. floor >= 50 /\ floor \in Int
    OBVIOUS
  <2> HIDE DEF floor
  <2>2. PICK score \in Int : score >= floor /\ BandFor(Overall(dims, floors)) = BandFor(score)
    BY <1>3, FloorsAreReached
  <2>3. score >= 50
    BY <2>1, <2>2
  <2>4. BandFor(score) \in { "HIGH", "CRITICAL" }
    BY <2>3 DEF BandFor
  <2> QED
    BY <1>3, <2>2, <2>4
<1>10. 30 \in floors => rating.band # "LOW"
  <2> DEFINE floor == 30
  <2> SUFFICES ASSUME floor \in floors PROVE rating.band # "LOW"
    OBVIOUS
  <2>1. floor >= 25 /\ floor \in Int
    OBVIOUS
  <2> HIDE DEF floor
  <2>2. PICK score \in Int : score >= floor /\ BandFor(Overall(dims, floors)) = BandFor(score)
    BY <1>3, FloorsAreReached
  <2>3. score >= 25
    BY <2>1, <2>2
  <2>4. BandFor(score) # "LOW"
    BY <2>3 DEF BandFor
  <2> QED
    BY <1>3, <2>2, <2>4
<1>11. "sanctions" \notin lost /\ Listed(names) => rating.band = "CRITICAL"
  BY <1>4, <1>6, <1>7, <1>8, ListedPartiesAreFound
<1>12. "sanctions" \notin lost /\ profile.country \in BlockedCountries
         => rating.band \in { "HIGH", "CRITICAL" }
  BY <1>4, <1>6, <1>7, <1>9, ListedPartiesAreFound
<1>13. "kyc" \notin lost /\ profile.declaredPep => rating.band # "LOW"
  BY <1>5, <1>6, <1>7, <1>10, KycFindingsAreTyped
<1>14. rating.band = BandFor(Max({ blend } \cup floors))
  BY <1>3, HighestFloorCounts
<1> QED
  BY <1>11, <1>12, <1>13, <1>14

\* A single strong signal is never diluted, and a floor lifts no case above its
\* own band or that of the blend (risk.py, analyze and _apply_floor).
THEOREM EscalationsHold == Spec => []EscalationHolds
  BY CaseAlways, EscalationsAreRated, PTL

\* What comes first in a report's advice stays first.
LEMMA FirstStaysFirst ==
  ASSUME NEW S, NEW s \in Seq(S), s # << >>, NEW t \in Seq(S)
  PROVE  s \o t \in Seq(S) /\ s \o t # << >> /\ Head(s \o t) = Head(s)
<1>1. s \o t \in Seq(S) /\ Len(s \o t) = Len(s) + Len(t)
  OBVIOUS
<1>2. Len(s) \in Nat /\ Len(t) \in Nat /\ Len(s) > 0
  OBVIOUS
<1>3. s \o t # << >>
  BY <1>1, <1>2
<1>4. (s \o t)[1] = s[1]
  BY <1>2
<1>5. Head(s \o t) = (s \o t)[1] /\ Head(s) = s[1]
  BY <1>1, <1>3
<1> QED
  BY <1>1, <1>3, <1>4, <1>5

\* The actions a report may advise.
Advised ==
  { "block_transactions", "obtain_ledger", "corroborate", "freeze", "file_sar", "escalate",
    "do_not_tip_off", "enhanced_diligence", "source_of_funds", "sign_off", "watch",
    "standard_diligence", "review_yearly", "watch_patterns", "standard_monitoring",
    "review_routinely", "review_match", "declare_pep", "review_cash", "review_layering",
    "open_fraud_case", "verify_again" }

LEMMA ShortSequences ==
  ASSUME NEW S
  PROVE  /\ << >> \in Seq(S)
         /\ \A a \in S : << a >> \in Seq(S) /\ << a >> # << >> /\ Head(<< a >>) = a
         /\ \A a, b \in S : << a, b >> \in Seq(S)
         /\ \A a, b, c \in S : << a, b, c >> \in Seq(S)
         /\ \A a, b, c, d \in S : << a, b, c, d >> \in Seq(S)
  OBVIOUS

LEMMA AdviceTypes ==
  /\ \A holds \in BOOLEAN : \A action \in Advised : When(holds, action) \in Seq(Advised)
  /\ \A band \in Band : BaseActions(band) \in Seq(Advised)
<1>1. ASSUME NEW holds \in BOOLEAN, NEW action \in Advised
      PROVE  When(holds, action) \in Seq(Advised)
  BY ShortSequences DEF When
<1>2. ASSUME NEW band \in Band PROVE BaseActions(band) \in Seq(Advised)
  <2>1. CASE band = "CRITICAL"
    <3>1. BaseActions(band) = << "freeze", "file_sar", "escalate", "do_not_tip_off" >>
      BY <2>1 DEF BaseActions
    <3>2. /\ "freeze" \in Advised /\ "file_sar" \in Advised /\ "escalate" \in Advised
          /\ "do_not_tip_off" \in Advised
      BY DEF Advised
    <3>3. << "freeze", "file_sar", "escalate", "do_not_tip_off" >> \in Seq(Advised)
      BY <3>2, ShortSequences
    <3> QED
      BY <3>1, <3>3
  <2>2. CASE band = "HIGH"
    <3>1. BaseActions(band) = << "enhanced_diligence", "source_of_funds", "sign_off", "watch" >>
      BY <2>2 DEF BaseActions
    <3>2. /\ "enhanced_diligence" \in Advised /\ "source_of_funds" \in Advised
          /\ "sign_off" \in Advised /\ "watch" \in Advised
      BY DEF Advised
    <3>3. << "enhanced_diligence", "source_of_funds", "sign_off", "watch" >> \in Seq(Advised)
      BY <3>2, ShortSequences
    <3> QED
      BY <3>1, <3>3
  <2>3. CASE band = "MEDIUM"
    <3>1. BaseActions(band) = << "standard_diligence", "review_yearly", "watch_patterns" >>
      BY <2>3 DEF BaseActions
    <3>2. /\ "standard_diligence" \in Advised /\ "review_yearly" \in Advised
          /\ "watch_patterns" \in Advised
      BY DEF Advised
    <3>3. << "standard_diligence", "review_yearly", "watch_patterns" >> \in Seq(Advised)
      BY <3>2, ShortSequences
    <3> QED
      BY <3>1, <3>3
  <2>4. CASE band = "LOW"
    <3>1. BaseActions(band) = << "standard_monitoring", "review_routinely" >>
      BY <2>4 DEF BaseActions
    <3>2. "standard_monitoring" \in Advised /\ "review_routinely" \in Advised
      BY DEF Advised
    <3>3. << "standard_monitoring", "review_routinely" >> \in Seq(Advised)
      BY <3>2, ShortSequences
    <3> QED
      BY <3>1, <3>3
  <2> QED
    BY <2>1, <2>2, <2>3, <2>4 DEF Band
<1> QED
  BY <1>1, <1>2

\* A confirmed match leads the advice.
LEMMA MatchesLeadTheAdvice ==
  ASSUME NEW band \in Band, NEW k, NEW a, NEW s, NEW f, s.tier = "STRONG"
  PROVE  Head(Actions(band, k, a, s, f)) = "block_transactions"
<1> DEFINE first == When(s.tier = "STRONG", "block_transactions")
           w2 == When(~a.ledger, "obtain_ledger")
           w3 == When(~a.ledger /\ a.attested # {}, "corroborate")
           w4 == BaseActions(band)
           w5 == When(s.tier = "POSSIBLE", "review_match")
           w6 == When(k.isPep, "declare_pep")
           w7 == When(a.structuring, "review_cash")
           w8 == When(a.rapid, "review_layering")
           w9 == When(f.alert, "open_fraud_case")
           w10 == When(~k.verified, "verify_again")
<1>1. first = << "block_transactions" >>
  BY DEF When
<1>2. first \in Seq(Advised) /\ first # << >> /\ Head(first) = "block_transactions"
  <2>1. "block_transactions" \in Advised
    BY DEF Advised
  <2> QED
    BY <1>1, <2>1, ShortSequences
<1>3. /\ w2 \in Seq(Advised) /\ w3 \in Seq(Advised) /\ w5 \in Seq(Advised) /\ w6 \in Seq(Advised)
      /\ w7 \in Seq(Advised) /\ w8 \in Seq(Advised) /\ w9 \in Seq(Advised) /\ w10 \in Seq(Advised)
  <2>1. /\ "obtain_ledger" \in Advised /\ "corroborate" \in Advised
        /\ "review_match" \in Advised /\ "declare_pep" \in Advised
        /\ "review_cash" \in Advised /\ "review_layering" \in Advised
        /\ "open_fraud_case" \in Advised /\ "verify_again" \in Advised
    BY DEF Advised
  <2>2. ASSUME NEW holds, NEW action \in Advised PROVE When(holds, action) \in Seq(Advised)
    BY ShortSequences DEF When
  <2> QED
    BY <2>1, <2>2
<1>4. w4 \in Seq(Advised)
  BY AdviceTypes
<1>5. Actions(band, k, a, s, f)
        = (((((((((first \o w2) \o w3) \o w4) \o w5) \o w6) \o w7) \o w8) \o w9) \o w10)
  BY DEF Actions
<1> HIDE DEF first, w2, w3, w4, w5, w6, w7, w8, w9, w10
<1> DEFINE s2 == first \o w2
           s3 == s2 \o w3
           s4 == s3 \o w4
           s5 == s4 \o w5
           s6 == s5 \o w6
           s7 == s6 \o w7
           s8 == s7 \o w8
           s9 == s8 \o w9
           s10 == s9 \o w10
           Leads(q) == q \in Seq(Advised) /\ q # << >> /\ Head(q) = "block_transactions"
<1>6. ASSUME NEW q, NEW w \in Seq(Advised), Leads(q) PROVE Leads(q \o w)
  BY <1>6, FirstStaysFirst
<1>7. Leads(first)
  BY <1>2
<1> HIDE DEF Leads
<1>8. Leads(s2) /\ Leads(s3) /\ Leads(s4)
  <2>1. Leads(s2)
    BY <1>3, <1>6, <1>7
  <2> HIDE DEF s2
  <2>2. Leads(s3)
    BY <1>3, <1>6, <2>1
  <2> HIDE DEF s3
  <2> QED
    BY <1>4, <1>6, <2>1, <2>2
<1> HIDE DEF s4
<1>9. Leads(s5) /\ Leads(s6) /\ Leads(s7)
  <2>1. Leads(s5)
    BY <1>3, <1>6, <1>8
  <2> HIDE DEF s5
  <2>2. Leads(s6)
    BY <1>3, <1>6, <2>1
  <2> HIDE DEF s6
  <2> QED
    BY <1>3, <1>6, <2>1, <2>2
<1> HIDE DEF s7
<1>10. Leads(s8) /\ Leads(s9) /\ Leads(s10)
  <2>1. Leads(s8)
    BY <1>3, <1>6, <1>9
  <2> HIDE DEF s8
  <2>2. Leads(s9)
    BY <1>3, <1>6, <2>1
  <2> HIDE DEF s9
  <2> QED
    BY <1>3, <1>6, <2>1, <2>2
<1> QED
  BY <1>5, <1>10 DEF Leads, s4, s7, s10

\* Whether a specialist's record says that it was lost.
LEMMA LostFindings ==
  ASSUME CaseInv, \A role \in Roles : stage \notin Before[role]
  PROVE  /\ findings.kyc.lost <=> "kyc" \in lost
         /\ findings.aml.lost <=> "aml" \in lost
         /\ findings.sanctions.lost <=> "sanctions" \in lost
         /\ findings.fraud.lost <=> "fraud" \in lost
<1>1. /\ findings.kyc = IF "kyc" \notin lost THEN KycFindings(profile) ELSE NoKyc
      /\ findings.aml = IF "aml" \notin lost THEN AnalyzeTransactions(profile, ledger) ELSE NoAml
      /\ findings.sanctions
           = IF "sanctions" \notin lost THEN SanctionsFindings(profile, ledger) ELSE NoSanctions
      /\ findings.fraud = IF "fraud" \notin lost THEN DetectFraud(profile, ledger) ELSE NoFraud
  BY DEF CaseInv, FindingsAre, Answered, Roles
<1>2. ~KycFindings(profile).lost /\ NoKyc.lost
  BY DEF KycFindings, NoKyc
<1>3. ~AnalyzeTransactions(profile, ledger).lost /\ NoAml.lost
  <2>1. ~NoLedger(profile.attested).lost
    BY DEF NoLedger
  <2>2. ~AnalyzeLedger(ledger, profile.expected, profile.attested).lost
    BY DEF AnalyzeLedger
  <2> QED
    BY <2>1, <2>2, NoAmlIsTyped DEF AnalyzeTransactions
<1>4. ~SanctionsFindings(profile, ledger).lost /\ NoSanctions.lost
  BY DEF SanctionsFindings, ScreenSanctions, NoSanctions
<1>5. ~DetectFraud(profile, ledger).lost /\ NoFraud.lost
  BY DEF DetectFraud, NoFraud
<1> QED
  BY <1>1, <1>2, <1>3, <1>4, <1>5

\* A section is missing exactly where its specialist was lost.
LEMMA SectionsAreMissing ==
  ASSUME NEW found
  PROVE  /\ SectionKyc(found) = NotAvailable <=> found.lost
         /\ SectionAml(found) = NotAvailable <=> found.lost
         /\ SectionSanctions(found) = NotAvailable <=> found.lost
         /\ SectionFraud(found) = NotAvailable <=> found.lost
<1>1. NotAvailable.status = "not_available"
  BY DEF NotAvailable
<1>2. /\ ~found.lost => SectionKyc(found).status = "assessed"
      /\ found.lost => SectionKyc(found) = NotAvailable
  BY DEF SectionKyc
<1>3. /\ ~found.lost => SectionAml(found).status \in { "assessed", "not_assessed" }
      /\ found.lost => SectionAml(found) = NotAvailable
  BY DEF SectionAml
<1>4. /\ ~found.lost => SectionSanctions(found).status = "assessed"
      /\ found.lost => SectionSanctions(found) = NotAvailable
  BY DEF SectionSanctions
<1>5. /\ ~found.lost => SectionFraud(found).status \in { "assessed", "not_assessed" }
      /\ found.lost => SectionFraud(found) = NotAvailable
  BY DEF SectionFraud
<1> QED
  BY <1>1, <1>2, <1>3, <1>4, <1>5

\* The band of a rating is the band of its score, whatever was lost.
LEMMA BandsAreOfScores == CaseInv => rating.band = BandFor(rating.score)
<1> SUFFICES ASSUME CaseInv PROVE rating.band = BandFor(rating.score)
  OBVIOUS
<1>1. NoRating.band = BandFor(NoRating.score)
  BY DEF NoRating, BandFor
<1>2. ASSUME NEW residence, NEW k, NEW a, NEW s, NEW f
      PROVE  Assess(residence, k, a, s, f).band = BandFor(Assess(residence, k, a, s, f).score)
  BY DEF Assess
<1> QED
  BY <1>1, <1>2 DEF CaseInv, RatingIs

\* What a rating leaves unassessed, when nothing was lost, is what there was no
\* ledger to assess with.
LEMMA RatingsSayWhatTheyMiss ==
  ASSUME CaseInv, stage \in { "completed", "failed" }, lost = {}
  PROVE  rating.unassessed # {} <=> ~findings.fraud.assessed
<1> DEFINE k == findings.kyc
           a == findings.aml
           s == findings.sanctions
           f == findings.fraud
           residence == CountryRisk(profile.country)
           dims == Dimensions(residence, k, a, s, f)
<1>1. Answered("risk") /\ Answered("aml") /\ Answered("fraud")
  BY DEF Answered, Before
<1>2. rating = Assess(residence, k, a, s, f)
  BY <1>1 DEF CaseInv, RatingIs
<1>3. rating.unassessed = Dims \ Counted(dims)
  BY <1>2 DEF Assess
<1>4. a = AnalyzeTransactions(profile, ledger) /\ f = DetectFraud(profile, ledger)
  BY <1>1 DEF CaseInv, FindingsAre
<1>5. f.assessed => a.ledger
  <2>1. f.assessed => ledger # NoRows
    BY <1>4 DEF DetectFraud
  <2>2. ledger # NoRows => a = AnalyzeLedger(ledger, profile.expected, profile.attested)
    BY <1>4 DEF AnalyzeTransactions
  <2>3. AnalyzeLedger(ledger, profile.expected, profile.attested).ledger
    BY DEF AnalyzeLedger
  <2> QED
    BY <2>1, <2>2, <2>3
<1>6. /\ dims.sanctions = SanctionsDim(s) /\ dims.transaction = TransactionDim(a)
      /\ dims.fraud = FraudDim(f) /\ dims.geographic = GeographicDim(residence, k, a)
      /\ dims.customer = CustomerDim(k)
  BY DEF Dimensions
<1>7. /\ SanctionsDim(s).assessed /\ GeographicDim(residence, k, a).assessed
      /\ CustomerDim(k).assessed
  BY DEF SanctionsDim, GeographicDim, CustomerDim, Assessed
<1>8. a.ledger => TransactionDim(a).assessed
  BY DEF TransactionDim, Assessed
<1>9. FraudDim(f).assessed <=> f.assessed
  BY DEF FraudDim, Assessed, NotAssessed
<1> HIDE DEF dims, a, f
<1>10. CASE f.assessed
  <2>1. /\ dims.sanctions.assessed /\ dims.transaction.assessed /\ dims.fraud.assessed
        /\ dims.geographic.assessed /\ dims.customer.assessed
    BY <1>5, <1>6, <1>7, <1>8, <1>9, <1>10
  <2>2. \A d \in Dims : dims[d].assessed
    BY <2>1 DEF Dims
  <2> QED
    BY <1>3, <1>10, <2>2 DEF Counted, f
<1>11. CASE ~f.assessed
  <2>1. ~dims.fraud.assessed
    BY <1>6, <1>9, <1>11
  <2>2. "fraud" \in Dims \ Counted(dims)
    BY <2>1 DEF Counted, Dims
  <2> QED
    BY <1>3, <1>11, <2>2 DEF f
<1> QED
  BY <1>10, <1>11

\* ReportAgrees: a filed report never contradicts the assessment it is filed
\* with.
LEMMA FiledReportsAgree == CaseInv => ReportAgrees
<1> SUFFICES ASSUME CaseInv, report.filed PROVE ReportAgrees
  BY DEF ReportAgrees
<1> DEFINE after == RatingAfter(decision)
           k == findings.kyc
           a == findings.aml
           s == findings.sanctions
           f == findings.fraud
<1>1. report = Render(findings, after, decision) /\ stage \in { "completed", "failed" }
  BY FiledReport
<1>2. decision \in Decisions \cup { Undecided }
  BY DEF CaseInv, StagesAre
<1>3. /\ after.score = rating.score /\ after.actions = rating.actions
      /\ after.unassessed = rating.unassessed
      /\ after = rating \/ decision.action \in { "override", "close" }
  BY <1>2, DecidedRating
<1>4. rating.band = BandFor(rating.score)
  BY BandsAreOfScores
<1>5. \A role \in Roles \cup { "risk" } : stage \notin Before[role]
  BY <1>1 DEF Before, Roles
<1>6. /\ k.lost <=> "kyc" \in lost
      /\ a.lost <=> "aml" \in lost
      /\ s.lost <=> "sanctions" \in lost
      /\ f.lost <=> "fraud" \in lost
  BY <1>5, LostFindings
<1> HIDE DEF after
<1>7. /\ report.headline = [band |-> after.band, score |-> after.score,
                            byAnalyst |-> after.band # BandFor(after.score)]
      /\ report.sar = after.sar /\ report.advice = after.actions
      /\ report.kyc = SectionKyc(k) /\ report.aml = SectionAml(a)
      /\ report.fraud = SectionFraud(f) /\ report.sanctions = SectionSanctions(s)
      /\ report.evidence = SectionEvidence(a, f, after)
      /\ report.review = SectionDecision(after, decision)
      /\ report.summary = Summary(after, decision)
  BY <1>1 DEF Render, Classification
<1>8. report.headline.score = rating.score
  BY <1>3, <1>7
<1>9. report.headline.band # rating.band \/ report.sar # rating.sar
        => report.review.recorded /\ report.review.action \in { "override", "close" }
  <2> SUFFICES ASSUME after # rating
               PROVE  report.review.recorded /\ report.review.action \in { "override", "close" }
    BY <1>7
  <2>1. decision.action \in { "override", "close" }
    BY <1>3
  <2>2. decision # Undecided
    BY <2>1 DEF Undecided
  <2> QED
    BY <1>7, <2>1, <2>2 DEF SectionDecision
<1>10. report.headline.byAnalyst <=> report.headline.band # rating.band
  <2> DEFINE differs == after.band # BandFor(after.score)
  <2> HIDE DEF differs
  <2>1. report.headline = [band |-> after.band, score |-> after.score, byAnalyst |-> differs]
    BY <1>7 DEF differs
  <2>2. report.headline.byAnalyst = differs /\ report.headline.band = after.band
    BY <2>1
  <2>3. differs <=> after.band # rating.band
    BY <1>3, <1>4 DEF differs
  <2> QED
    BY <2>2, <2>3
<1>11. report.headline.band = report.summary.band /\ report.sar = report.summary.sar
  BY <1>7 DEF Summary
<1>12. \A role \in DOMAIN findings : report[role] = NotAvailable <=> role \in lost
  <2>1. DOMAIN findings = Roles
    BY DEF CaseInv, FindingsAre, Roles
  <2>2. /\ report.kyc = NotAvailable <=> "kyc" \in lost
        /\ report.aml = NotAvailable <=> "aml" \in lost
        /\ report.sanctions = NotAvailable <=> "sanctions" \in lost
        /\ report.fraud = NotAvailable <=> "fraud" \in lost
    BY <1>6, <1>7, SectionsAreMissing
  <2> QED
    BY <2>1, <2>2 DEF Roles
<1>13. ASSUME lost = {}
       PROVE  /\ report.evidence.aml <=> report.aml.status = "assessed"
              /\ report.evidence.fraud <=> report.fraud.status = "assessed"
              /\ report.evidence.provisional <=> ~report.evidence.fraud
  <2>1. ~a.lost /\ ~f.lost
    BY <1>6, <1>13
  <2>2. a.ledger <=> report.aml.status = "assessed"
    BY <1>7, <2>1 DEF SectionAml
  <2>3. f.assessed <=> report.fraud.status = "assessed"
    BY <1>7, <2>1 DEF SectionFraud
  <2>4. after.unassessed # {} <=> ~f.assessed
    BY <1>1, <1>3, <1>13, RatingsSayWhatTheyMiss
  <2> DEFINE missing == after.unassessed # {}
  <2> HIDE DEF missing, a, f
  <2>5. report.evidence
          = [aml |-> a.ledger, fraud |-> f.assessed, screening |-> TRUE, record |-> TRUE,
             attested |-> a.attested, provisional |-> missing]
    BY <1>7 DEF SectionEvidence, missing
  <2>6. /\ report.evidence.aml = a.ledger /\ report.evidence.fraud = f.assessed
        /\ report.evidence.provisional = missing
    BY <2>5
  <2> QED
    BY <2>2, <2>3, <2>4, <2>6 DEF missing
<1>14. ASSUME s.tier = "STRONG", ~rating.lost
       PROVE  report.sanctions.tier = "STRONG" /\ Head(report.advice) = "block_transactions"
  <2>1. ~s.lost
    <3>1. s = IF Answered("sanctions") THEN SanctionsFindings(profile, ledger) ELSE NoSanctions
      BY DEF CaseInv, FindingsAre
    <3>2. Answered("sanctions")
      BY <1>14, <3>1 DEF NoSanctions
    <3> QED
      BY <1>6, <3>2 DEF Answered
  <2>2. report.sanctions.tier = "STRONG"
    BY <1>7, <1>14, <2>1 DEF SectionSanctions
  <2>3. rating = Assess(CountryRisk(profile.country), k, a, s, f)
    BY <1>14, RatingsAreAssessed
  <2>4. rating.band \in Band /\ rating.actions = Actions(rating.band, k, a, s, f)
    BY <2>3, CaseIsTyped, CountryRiskIsInt, AssessIsTyped
  <2>5. Head(rating.actions) = "block_transactions"
    BY <1>14, <2>4, MatchesLeadTheAdvice
  <2> QED
    BY <1>3, <1>7, <2>2, <2>5
<1> QED
  BY <1>8, <1>9, <1>10, <1>11, <1>12, <1>13, <1>14 DEF ReportAgrees

\* A filed report never contradicts the assessment it is filed with, whatever
\* was lost and whatever the analyst decided.
THEOREM ReportsAgree == Spec => []ReportAgrees
  BY CaseAlways, FiledReportsAgree, PTL

\* The rows that move on one side.
OnSide(moves, side) == { r \in Rows(moves) : r.direction = side }

\* How often each row is in the grid, but for one.
Differ(id, before, after) ==
  /\ before \in [DOMAIN Cells -> Nat] /\ after \in [DOMAIN Cells -> Nat]
  /\ \A other \in DOMAIN Cells \ { id } : after[other] = before[other]

\* A row that is typed changes the ledger on its own side alone.
LEMMA OtherSideIsKept ==
  ASSUME NEW from, NEW id \in DOMAIN Cells,
         NEW before, NEW after, Differ(id, before, after),
         NEW side, side # Entry(from, id).direction
  PROVE  LET was == Gathered(from, before)
             is == Gathered(from, after)
         IN  /\ OnSide(is, side) = OnSide(was, side)
             /\ \A r \in OnSide(was, side) : is[r] = was[r]
<1> DEFINE was == Gathered(from, before)
           is == Gathered(from, after)
           on == OnSide(was, side)
           later == OnSide(is, side)
<1>1. \A other \in DOMAIN Cells \ { id } : after[other] = before[other]
  BY DEF Differ
<1>2. \A other \in DOMAIN Cells \ { id } :
        other \in Kept(from, after) <=> other \in Kept(from, before)
  BY <1>1 DEF Kept, Differ
<1>3. Kept(from, before) \subseteq DOMAIN Cells /\ Kept(from, after) \subseteq DOMAIN Cells
  BY DEF Kept, Differ
<1>4. /\ Rows(was) = { Entry(from, other) : other \in Kept(from, before) }
      /\ Rows(is) = { Entry(from, other) : other \in Kept(from, after) }
  BY DEF Rows, Gathered
<1>5. on = later
  BY <1>2, <1>3, <1>4 DEF OnSide
<1>6. ASSUME NEW r \in on PROVE is[r] = was[r]
  <2> DEFINE same == SameEntry(from, before, r)
  <2>1. r.direction = side /\ r \in Rows(was)
    BY DEF OnSide
  <2>2. same \subseteq DOMAIN Cells \ { id }
    BY <1>3, <2>1 DEF SameEntry
  <2>3. SameEntry(from, after, r) \subseteq DOMAIN Cells \ { id }
    BY <1>3, <2>1 DEF SameEntry
  <2>4. SameEntry(from, after, r) = same
    BY <1>2, <2>2, <2>3 DEF SameEntry
  <2>5. was[r] = SumFunctionOnSet(before, same)
    BY <2>1 DEF Gathered, Rows
  <2>6. is[r] = SumFunctionOnSet(after, same)
    <3>1. r \in Rows(is)
      BY <1>5 DEF OnSide
    <3>2. is[r] = SumFunctionOnSet(after, SameEntry(from, after, r))
      BY <1>4, <3>1 DEF Gathered, Rows
    <3> QED
      BY <2>4, <3>2
  <2> HIDE DEF same, was, is, on
  <2>7. IsFiniteSet(same)
    BY <2>2, FS_Subset, CellsAssumption
  <2>8. \A x \in same : before[x] \in Int /\ after[x] = before[x]
    BY <1>1, <2>2 DEF Differ
  <2>9. SumFunctionOnSet(before, same) = SumFunctionOnSet(after, same)
    BY <2>7, <2>8, SumsAgree
  <2> QED
    BY <2>5, <2>6, <2>9
<1> QED
  BY <1>5, <1>6

\* The cash of some rows is what those rows make it.
LEMMA CashSharesAgree ==
  ASSUME NEW was, NEW is, NEW on, on \subseteq Rows(was), on \subseteq Rows(is),
         \A r \in on : is[r] = was[r]
  PROVE  CashShare(is, on) = CashShare(was, on)
<1>1. Cash(is) \cap on = Cash(was) \cap on
  BY DEF Cash
<1>2. ASSUME NEW part \in SUBSET on PROVE Volume(is, part) = Volume(was, part)
  <2>1. [r \in part |-> is[r] * r.amount] = [r \in part |-> was[r] * r.amount]
    <3>1. \A r \in part : is[r] = was[r]
      OBVIOUS
    <3> QED
      BY <3>1
  <2> QED
    BY <2>1 DEF Volume
<1>3. Volume(is, on) = Volume(was, on)
  BY <1>2
<1>4. Volume(is, Cash(is) \cap on) = Volume(was, Cash(was) \cap on)
  BY <1>1, <1>2
<1> QED
  BY <1>3, <1>4 DEF CashShare

\* What the action property says of one row.
LEMMA TypedRowsKeepTheCash ==
  ASSUME CaseInv, NEW id \in DOMAIN Cells, AddRow(id), Acceptable',
         NEW side \in Directions \ { WithDefaults(RowOf(id)).direction }
  PROVE  CashRatio(Transactions')
           >= CashShare(Transactions, { r \in Rows(Transactions) : r.direction = side })
<1> DEFINE was == Gathered(origin, grid)
           is == Gathered(origin, grid')
           on == OnSide(was, side)
           typing == grid'
<1>1. /\ grid \in [DOMAIN Cells -> Nat] /\ grid' = [grid EXCEPT ![id] = grid[id] + 1]
      /\ origin' = origin
  BY DEF AddRow, CaseInv, InputsAre
<1>2. grid' \in [DOMAIN Cells -> Nat]
  BY <1>1
<1>3. Transactions = was /\ Transactions' = is /\ Taken(origin, grid')
  BY <1>1, TransactionsAreGathered
<1>4. LedgerTypes(is)
  BY <1>2, <1>3, TransactionsAreTyped
<1>5. side # Entry(origin, id).direction
  BY DEF Entry, RowIn, RowOf
<1> HIDE DEF typing
<1>6. on = OnSide(is, side) /\ \A r \in on : is[r] = was[r]
  <2>1. Differ(id, grid, typing)
    BY <1>1, <1>2 DEF typing, Differ
  <2>2. /\ OnSide(Gathered(origin, typing), side) = OnSide(Gathered(origin, grid), side)
        /\ \A r \in OnSide(Gathered(origin, grid), side) :
             Gathered(origin, typing)[r] = Gathered(origin, grid)[r]
    BY <1>5, <2>1, OtherSideIsKept
  <2> QED
    BY <2>2 DEF typing
<1> HIDE DEF was, is
<1>7. CashShare(is, on) = CashShare(was, on)
  <2>1. on \subseteq Rows(was) /\ on \subseteq Rows(is)
    BY <1>6 DEF OnSide
  <2> HIDE DEF on
  <2> QED
    BY <1>6, <2>1, CashSharesAgree
<1>8. on = In(is) \/ on = Out(is)
  BY <1>6 DEF Directions, In, Out, OnSide
<1>9. CashRatio(is) >= CashShare(is, on)
  <2> HIDE DEF on
  <2> QED
    BY <1>4, <1>8, CashRatioIsBounded
<1> QED
  BY <1>3, <1>7, <1>9 DEF OnSide

\* CashIsNotDiluted, of one step.
CashStaysMeasured ==
  \A id \in DOMAIN grid : grid'[id] # grid[id] /\ Acceptable' =>
    \A Side \in Directions \ { WithDefaults(RowOf(id)).direction } :
      LET on == { r \in Rows(Transactions) : r.direction = Side }
      IN  CashRatio(Transactions') >= CashShare(Transactions, on)

LEMMA RowsKeepTheCash == CaseInv /\ [Next]_vars => [CashStaysMeasured]_vars
<1> SUFFICES ASSUME CaseInv, Next PROVE CashStaysMeasured
  OBVIOUS
<1> SUFFICES ASSUME NEW id \in DOMAIN grid, grid'[id] # grid[id], Acceptable',
                    NEW side \in Directions \ { WithDefaults(RowOf(id)).direction }
             PROVE  CashRatio(Transactions')
                      >= CashShare(Transactions, { r \in Rows(Transactions) : r.direction = side })
  BY DEF CashStaysMeasured
<1>1. PICK row \in DOMAIN Cells : AddRow(row)
  BY DEF Next, Submit, Delegate, AssessRisk, Pause, FileReport, Decide
<1>2. grid \in [DOMAIN Cells -> Nat] /\ grid' = [grid EXCEPT ![row] = grid[row] + 1]
  BY <1>1 DEF AddRow, CaseInv, InputsAre
<1>3. id = row /\ id \in DOMAIN Cells
  BY <1>2
<1> QED
  BY <1>1, <1>3, TypedRowsKeepTheCash

\* Whatever is added on one side of the ledger, the cash on the other weighs
\* what it did (tests/test_agents.py: cash intensity cannot be diluted by
\* unrelated outflow).
THEOREM CashIsMeasuredBySide == Spec => CashIsNotDiluted
<1>1. CashIsNotDiluted <=> [][CashStaysMeasured]_vars
  BY PTL DEF CashIsNotDiluted, CashStaysMeasured
<1> QED
  BY <1>1, CaseAlways, RowsKeepTheCash, PTL DEF Spec
================================================================================
