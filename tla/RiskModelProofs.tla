---------------------------- MODULE RiskModelProofs ----------------------------
(***************************************************************************)
(* What the rating of RiskModel guarantees, whatever the findings: every   *)
(* dimension is a score of 0 to 100, so the blend is n / d, where d is one *)
(* of the four sums of weights a rating can be blended with (only the      *)
(* transactions and the fraud screening are ever left out), and the floors *)
(* keep it in a band.                                                      *)
(*                                                                         *)
(* The scores are folds over finite sets.  Induction is had from a set of  *)
(* naturals (SetInduction), by counting: the predecessor would be an       *)
(* injection of the finite set of its exceptions into itself, and onto.    *)
(***************************************************************************)
EXTENDS RiskModel, FiniteSetTheorems, FunctionTheorems, TLAPS

------------------------------------------------------------------------------
(* Induction and folds over finite sets.                                   *)

\* Induction over the naturals, for a set of them.
LEMMA SetInduction ==
  ASSUME NEW P, 0 \in P, \A n \in Nat : n \in P => n + 1 \in P
  PROVE  Nat \subseteq P
<1> SUFFICES ASSUME NEW n \in Nat, n \notin P PROVE FALSE
  OBVIOUS
<1> DEFINE T == { k \in 0 .. n : k \notin P }
           f == [k \in T |-> k - 1]
<1>1. IsFiniteSet(0 .. n)
  BY FS_Interval
<1>2. IsFiniteSet(T)
  BY <1>1, FS_Subset
<1>3. \A k \in T : k - 1 \in T
  <2> SUFFICES ASSUME NEW k \in 0 .. n, k \notin P PROVE k - 1 \in 0 .. n /\ k - 1 \notin P
    OBVIOUS
  <2>1. k # 0 /\ k - 1 \in Nat /\ (k - 1) + 1 = k
    OBVIOUS
  <2> QED
    BY <2>1
<1>4. f \in [T -> T]
  BY <1>3
<1>5. \A a, b \in T : f[a] = f[b] => a = b
  OBVIOUS
<1>6. f \in Injection(T, T)
  BY <1>4, <1>5, Fun_IsInj
<1>7. f \in Surjection(T, T)
  BY <1>2, <1>6, FS_Injection
<1>8. \E k \in T : f[k] = n
  BY <1>7, n \in T DEF Surjection
<1> QED
  BY <1>8

\* Induction over the subsets of a finite set.
LEMMA SubsetInduction ==
  ASSUME NEW S, IsFiniteSet(S), NEW P, {} \in P,
         \A T \in SUBSET S : T # {} /\ (\A x \in T : T \ { x } \in P) => T \in P
  PROVE  S \in P
<1> DEFINE Q == { n \in Nat : \A T \in SUBSET S : Cardinality(T) = n => T \in P }
<1>1. \A T \in SUBSET S : IsFiniteSet(T) /\ Cardinality(T) \in Nat
  BY FS_Subset, FS_CardinalityType
<1>2. 0 \in Q
  <2> SUFFICES ASSUME NEW T \in SUBSET S, Cardinality(T) = 0 PROVE T \in P
    OBVIOUS
  <2>1. T = {}
    BY <1>1, FS_EmptySet
  <2> QED
    BY <2>1
<1>3. ASSUME NEW n \in Nat, n \in Q PROVE n + 1 \in Q
  <2> SUFFICES ASSUME NEW T \in SUBSET S, Cardinality(T) = n + 1 PROVE T \in P
    OBVIOUS
  <2>1. T # {}
    <3>1. Cardinality({}) = 0
      BY FS_EmptySet
    <3>2. Cardinality(T) # 0
      OBVIOUS
    <3> QED
      BY <3>1, <3>2
  <2>2. ASSUME NEW x \in T PROVE T \ { x } \in P
    <3>1. Cardinality(T \ { x }) = n
      BY <1>1, FS_RemoveElement
    <3> QED
      BY <1>3, <3>1
  <2> QED
    BY <2>1, <2>2
<1>4. Nat \subseteq Q
  <2> HIDE DEF Q
  <2> QED
    BY <1>2, <1>3, SetInduction
<1>5. Cardinality(S) \in Q
  BY <1>1, <1>4
<1> QED
  BY <1>5

LEMMA MaxExists ==
  ASSUME NEW S \in SUBSET Int, IsFiniteSet(S), S # {}
  PROVE  Max(S) \in S /\ \A y \in S : y <= Max(S)
<1> DEFINE P == { T \in SUBSET S : T # {} => \E x \in T : \A y \in T : x >= y }
<1>1. {} \in P
  OBVIOUS
<1>2. ASSUME NEW T \in SUBSET S, T # {}, \A x \in T : T \ { x } \in P PROVE T \in P
  <2> PICK x \in T : TRUE
    BY <1>2
  <2>1. CASE T \ { x } = {}
    BY <2>1
  <2>2. CASE T \ { x } # {}
    <3>1. PICK m \in T \ { x } : \A y \in T \ { x } : m >= y
      BY <1>2, <2>2
    <3>2. CASE m >= x
      BY <3>1, <3>2
    <3>3. CASE ~(m >= x)
      BY <3>1, <3>3
    <3> QED
      BY <3>2, <3>3
  <2> QED
    BY <2>1, <2>2
<1>3. S \in P
  <2> HIDE DEF P
  <2> QED
    BY <1>1, <1>2, SubsetInduction
<1>4. \E x \in S : \A y \in S : x >= y
  BY <1>3
<1>5. Max(S) \in S /\ \A y \in S : Max(S) >= y
  BY <1>4 DEF Max
<1> QED
  BY <1>5

LEMMA MinExists ==
  ASSUME NEW S \in SUBSET Int, IsFiniteSet(S), S # {}
  PROVE  Min(S) \in S /\ \A y \in S : y >= Min(S)
<1> DEFINE P == { T \in SUBSET S : T # {} => \E x \in T : \A y \in T : x <= y }
<1>1. {} \in P
  OBVIOUS
<1>2. ASSUME NEW T \in SUBSET S, T # {}, \A x \in T : T \ { x } \in P PROVE T \in P
  <2> PICK x \in T : TRUE
    BY <1>2
  <2>1. CASE T \ { x } = {}
    BY <2>1
  <2>2. CASE T \ { x } # {}
    <3>1. PICK m \in T \ { x } : \A y \in T \ { x } : m <= y
      BY <1>2, <2>2
    <3>2. CASE m <= x
      BY <3>1, <3>2
    <3>3. CASE ~(m <= x)
      BY <3>1, <3>3
    <3> QED
      BY <3>2, <3>3
  <2> QED
    BY <2>1, <2>2
<1>3. S \in P
  <2> HIDE DEF P
  <2> QED
    BY <1>1, <1>2, SubsetInduction
<1>4. \E x \in S : \A y \in S : x <= y
  BY <1>3
<1>5. Min(S) \in S /\ \A y \in S : Min(S) <= y
  BY <1>4 DEF Min
<1> QED
  BY <1>5

\* The values of a function on a finite set are finitely many.
LEMMA FiniteRange ==
  ASSUME NEW S, IsFiniteSet(S), NEW f
  PROVE  IsFiniteSet({ f[x] : x \in S })
<1> DEFINE T == { f[x] : x \in S }
           g == [x \in S |-> f[x]]
<1>1. g \in [S -> T] /\ \A y \in T : \E x \in S : g[x] = y
  OBVIOUS
<1>2. g \in Surjection(S, T)
  BY <1>1, Fun_IsSurj
<1> QED
  BY <1>2, FS_Surjection

LEMMA MaxWithZero ==
  ASSUME NEW S \in SUBSET Int, IsFiniteSet(S)
  PROVE  Max({ 0 } \cup S) \in Int /\ \A y \in { 0 } \cup S : y <= Max({ 0 } \cup S)
<1> DEFINE T == S \cup { 0 }
<1>1. T \in SUBSET Int /\ T # {} /\ { 0 } \cup S = T
  OBVIOUS
<1>2. IsFiniteSet(T)
  BY FS_AddElement
<1> HIDE DEF T
<1>3. Max(T) \in T /\ \A y \in T : y <= Max(T)
  BY <1>1, <1>2, MaxExists
<1> QED
  BY <1>1, <1>3

\* The one of a set's elements a fold takes first.
Chosen(s) == CHOOSE x \in s : TRUE

LEMMA ChosenIsIn == ASSUME NEW s, s # {} PROVE Chosen(s) \in s
  BY DEF Chosen

\* g folds the subsets of S into a number, element by element.
FoldsInto(g, base, step, S) ==
  \A s \in SUBSET S :
    g[s] = IF s = {} THEN base ELSE step[Chosen(s)][g[s \ { Chosen(s) }]]

\* The recursion a fold over a finite set is defined by has a solution, and it
\* is a whole number wherever one element makes a whole number of a whole number.
LEMMA FoldsExist ==
  ASSUME NEW S, IsFiniteSet(S), NEW base \in Int, NEW step \in [S -> [Int -> Int]]
  PROVE  \E g \in [SUBSET S -> Int] : FoldsInto(g, base, step, S)
<1> DEFINE Small(n) == { s \in SUBSET S : Cardinality(s) <= n }
           After(g, s) == IF s = {} THEN base ELSE step[Chosen(s)][g[s \ { Chosen(s) }]]
           Part(g, n) == \A s \in Small(n) : g[s] = After(g, s)
           Q == { n \in Nat : \E g \in [SUBSET S -> Int] : Part(g, n) }
<1>1. \A T \in SUBSET S : IsFiniteSet(T) /\ Cardinality(T) \in Nat
  BY FS_Subset, FS_CardinalityType
<1>2. 0 \in Q
  <2> DEFINE g == [s \in SUBSET S |-> base]
  <2>1. \A s \in Small(0) : s = {}
    BY <1>1, FS_EmptySet
  <2>2. Part(g, 0)
    BY <2>1
  <2>3. g \in [SUBSET S -> Int]
    OBVIOUS
  <2> QED
    BY <2>2, <2>3
<1>3. ASSUME NEW n \in Nat, n \in Q PROVE n + 1 \in Q
  <2>1. PICK g \in [SUBSET S -> Int] : Part(g, n)
    BY <1>3
  <2> DEFINE h == [s \in SUBSET S |-> After(g, s)]
  <2>2. \A s \in Small(n) : h[s] = g[s]
    BY <2>1
  <2>3. ASSUME NEW s \in Small(n + 1), s # {} PROVE s \ { Chosen(s) } \in Small(n)
    <3>1. Chosen(s) \in s
      BY <2>3, ChosenIsIn
    <3>2. Cardinality(s \ { Chosen(s) }) = Cardinality(s) - 1
      BY <1>1, <3>1, FS_RemoveElement
    <3>3. Cardinality(s) \in Nat /\ Cardinality(s) <= n + 1
      BY <1>1
    <3> QED
      BY <3>2, <3>3
  <2>4. Part(h, n + 1)
    <3> SUFFICES ASSUME NEW s \in Small(n + 1) PROVE h[s] = After(h, s)
      OBVIOUS
    <3>1. h[s] = After(g, s)
      OBVIOUS
    <3>2. s # {} => h[s \ { Chosen(s) }] = g[s \ { Chosen(s) }]
      BY <2>2, <2>3
    <3> QED
      BY <3>1, <3>2
  <2>5. h \in [SUBSET S -> Int]
    <3> SUFFICES ASSUME NEW s \in SUBSET S PROVE After(g, s) \in Int
      OBVIOUS
    <3>1. CASE s # {}
      <4>1. Chosen(s) \in S /\ g[s \ { Chosen(s) }] \in Int
        BY <3>1, ChosenIsIn
      <4> QED
        BY <3>1, <4>1
    <3> QED
      BY <3>1
  <2> HIDE DEF Part, h
  <2> QED
    BY <2>4, <2>5
<1>4. Nat \subseteq Q
  <2> HIDE DEF Q
  <2> QED
    BY <1>2, <1>3, SetInduction
<1>5. Cardinality(S) \in Q
  BY <1>1, <1>4
<1>6. PICK g \in [SUBSET S -> Int] : Part(g, Cardinality(S))
  BY <1>5
<1>7. \A s \in SUBSET S : s \in Small(Cardinality(S))
  BY FS_Subset
<1> QED
  BY <1>6, <1>7 DEF FoldsInto

\* g adds the values of f over the subsets of S, as SumFunctionOnSet does.
Adds(g, f, S) ==
  g = [s \in SUBSET S |-> IF s = {} THEN 0 ELSE f[Chosen(s)] + g[s \ { Chosen(s) }]]

LEMMA SumAdds ==
  ASSUME NEW S, IsFiniteSet(S), NEW f, \A x \in S : f[x] \in Int
  PROVE  \E g : Adds(g, f, S) /\ SumFunctionOnSet(f, S) = g[S]
<1> DEFINE step == [x \in S |-> [v \in Int |-> f[x] + v]]
           h == CHOOSE g : Adds(g, f, S)
<1>1. \A x \in S : \A v \in Int : step[x][v] = f[x] + v
  OBVIOUS
<1>2. step \in [S -> [Int -> Int]]
  OBVIOUS
<1> HIDE DEF step
<1>3. \E g \in [SUBSET S -> Int] : FoldsInto(g, 0, step, S)
  <2> DEFINE base == 0
  <2>1. base \in Int
    OBVIOUS
  <2> HIDE DEF base
  <2>2. \E g \in [SUBSET S -> Int] : FoldsInto(g, base, step, S)
    BY <1>2, <2>1, FoldsExist
  <2> QED
    BY <2>2 DEF base
<1>4. PICK g \in [SUBSET S -> Int] : \A s \in SUBSET S :
        g[s] = IF s = {} THEN 0 ELSE step[Chosen(s)][g[s \ { Chosen(s) }]]
  BY <1>3 DEF FoldsInto
<1>5. \A s \in SUBSET S : s # {} => Chosen(s) \in S /\ g[s \ { Chosen(s) }] \in Int
  BY ChosenIsIn
<1>6. Adds(g, f, S)
  <2>1. \A s \in SUBSET S : g[s] = IF s = {} THEN 0 ELSE f[Chosen(s)] + g[s \ { Chosen(s) }]
    BY <1>1, <1>4, <1>5
  <2> QED
    BY <2>1 DEF Adds
<1>7. Adds(h, f, S)
  BY <1>6
<1>8. h = CHOOSE q : q = [s \in SUBSET S |->
                            IF s = {} THEN 0 ELSE f[Chosen(s)] + q[s \ { Chosen(s) }]]
  BY DEF Adds
<1>9. SumFunctionOnSet(f, S) = h[S]
  BY <1>8 DEF SumFunctionOnSet, FoldFunctionOnSet, MapThenFoldSet, Chosen
<1> QED
  BY <1>7, <1>9

\* Two such functions agree on what they both add.
LEMMA AddsAgree ==
  ASSUME NEW S, IsFiniteSet(S), NEW f, NEW T \in SUBSET S,
         NEW g, Adds(g, f, S), NEW h, Adds(h, f, T)
  PROVE  g[T] = h[T]
<1> DEFINE P == { s \in SUBSET T : g[s] = h[s] }
<1>1. \A s \in SUBSET S : g[s] = IF s = {} THEN 0 ELSE f[Chosen(s)] + g[s \ { Chosen(s) }]
  BY DEF Adds
<1>2. \A s \in SUBSET T : h[s] = IF s = {} THEN 0 ELSE f[Chosen(s)] + h[s \ { Chosen(s) }]
  BY DEF Adds
<1>3. {} \in P
  BY <1>1, <1>2
<1>4. ASSUME NEW s \in SUBSET T, s # {}, \A x \in s : s \ { x } \in P PROVE s \in P
  <2>1. s \ { Chosen(s) } \in P
    BY <1>4, ChosenIsIn
  <2> QED
    BY <1>1, <1>2, <1>4, <2>1
<1>5. T \in P
  <2> HIDE DEF P
  <2>1. IsFiniteSet(T)
    BY FS_Subset
  <2> QED
    BY <1>3, <1>4, <2>1, SubsetInduction
<1> QED
  BY <1>5

\* A sum over a finite set is the value of one element and the sum of the others.
LEMMA SumSplits ==
  ASSUME NEW S, IsFiniteSet(S), NEW f, \A x \in S : f[x] \in Int
  PROVE  SumFunctionOnSet(f, S)
           = IF S = {} THEN 0
             ELSE f[Chosen(S)] + SumFunctionOnSet(f, S \ { Chosen(S) })
<1> DEFINE T == S \ { Chosen(S) }
<1>1. PICK g : Adds(g, f, S) /\ SumFunctionOnSet(f, S) = g[S]
  BY SumAdds
<1>2. IsFiniteSet(T)
  BY FS_Subset
<1>3. PICK h : Adds(h, f, T) /\ SumFunctionOnSet(f, T) = h[T]
  BY <1>2, SumAdds
<1>4. g[S] = IF S = {} THEN 0 ELSE f[Chosen(S)] + g[T]
  BY <1>1 DEF Adds
<1>5. g[T] = h[T]
  BY <1>1, <1>3, AddsAgree
<1> QED
  BY <1>1, <1>3, <1>4, <1>5
LEMMA SumIsWhole ==
  ASSUME NEW S, IsFiniteSet(S), NEW f, \A x \in S : f[x] \in Int
  PROVE  SumFunctionOnSet(f, S) \in Int
<1> DEFINE Sum(s) == SumFunctionOnSet(f, s)
           P == { s \in SUBSET S : Sum(s) \in Int }
<1>1. ASSUME NEW s \in SUBSET S
      PROVE  Sum(s) = IF s = {} THEN 0 ELSE f[Chosen(s)] + Sum(s \ { Chosen(s) })
  <2>1. IsFiniteSet(s) /\ \A x \in s : f[x] \in Int
    BY FS_Subset
  <2> QED
    BY <2>1, SumSplits
<1> HIDE DEF Sum
<1>2. {} \in P
  BY <1>1
<1>3. ASSUME NEW s \in SUBSET S, s # {}, \A x \in s : s \ { x } \in P PROVE s \in P
  <2>1. Chosen(s) \in s
    BY <1>3, ChosenIsIn
  <2>2. Sum(s \ { Chosen(s) }) \in Int /\ f[Chosen(s)] \in Int
    BY <1>3, <2>1
  <2> QED
    BY <1>1, <1>3, <2>2
<1>4. \A s \in SUBSET S : s # {} /\ (\A x \in s : s \ { x } \in P) => s \in P
  BY <1>3
<1>5. S \in P
  <2> HIDE DEF P
  <2> QED
    BY <1>2, <1>4, SubsetInduction
<1> QED
  BY <1>5 DEF Sum

\* Any element can be taken out of a sum.
LEMMA SumTakesOut ==
  ASSUME NEW S, IsFiniteSet(S), NEW f, \A x \in S : f[x] \in Int, NEW e \in S
  PROVE  SumFunctionOnSet(f, S) = f[e] + SumFunctionOnSet(f, S \ { e })
<1> DEFINE Sum(s) == SumFunctionOnSet(f, s)
           P == { s \in SUBSET S : \A x \in s : Sum(s) = f[x] + Sum(s \ { x }) }
<1>1. ASSUME NEW s \in SUBSET S
      PROVE  /\ Sum(s) = IF s = {} THEN 0 ELSE f[Chosen(s)] + Sum(s \ { Chosen(s) })
             /\ Sum(s) \in Int
  <2>1. IsFiniteSet(s) /\ \A x \in s : f[x] \in Int
    BY FS_Subset
  <2> QED
    BY <2>1, SumSplits, SumIsWhole
<1> HIDE DEF Sum
<1>2. {} \in P
  OBVIOUS
<1>3. ASSUME NEW s \in SUBSET S, s # {}, \A x \in s : s \ { x } \in P PROVE s \in P
  <2> DEFINE c == Chosen(s)
  <2>1. c \in s /\ Sum(s) = f[c] + Sum(s \ { c })
    BY <1>1, <1>3, ChosenIsIn
  <2> HIDE DEF c
  <2>2. ASSUME NEW x \in s, x # c PROVE Sum(s) = f[x] + Sum(s \ { x })
    <3> DEFINE rest == s \ { x, c }
    <3>1. x \in s \ { c } /\ c \in s \ { x }
      BY <2>1, <2>2
    <3>2. (s \ { c }) \ { x } = rest /\ (s \ { x }) \ { c } = rest
      OBVIOUS
    <3>3. Sum(s \ { c }) = f[x] + Sum(rest)
      BY <1>3, <2>1, <3>1, <3>2
    <3>4. Sum(s \ { x }) = f[c] + Sum(rest)
      BY <1>3, <3>1, <3>2
    <3>5. Sum(rest) \in Int /\ f[x] \in Int /\ f[c] \in Int
      BY <1>1, <2>1
    <3> HIDE DEF rest
    <3> QED
      BY <2>1, <3>3, <3>4, <3>5
  <2> QED
    BY <2>1, <2>2
<1>4. \A s \in SUBSET S : s # {} /\ (\A x \in s : s \ { x } \in P) => s \in P
  BY <1>3
<1>5. S \in P
  <2> HIDE DEF P
  <2> QED
    BY <1>2, <1>4, SubsetInduction
<1> QED
  BY <1>5 DEF Sum

LEMMA SumsAgree ==
  ASSUME NEW S, IsFiniteSet(S), NEW f, NEW g, \A x \in S : f[x] \in Int /\ g[x] = f[x]
  PROVE  SumFunctionOnSet(f, S) = SumFunctionOnSet(g, S)
<1> DEFINE P == { s \in SUBSET S : SumFunctionOnSet(f, s) = SumFunctionOnSet(g, s) }
<1>1. ASSUME NEW s \in SUBSET S
      PROVE  /\ SumFunctionOnSet(f, s)
                  = IF s = {} THEN 0 ELSE f[Chosen(s)] + SumFunctionOnSet(f, s \ { Chosen(s) })
             /\ SumFunctionOnSet(g, s)
                  = IF s = {} THEN 0 ELSE g[Chosen(s)] + SumFunctionOnSet(g, s \ { Chosen(s) })
  <2>1. IsFiniteSet(s) /\ \A x \in s : f[x] \in Int /\ g[x] \in Int
    BY FS_Subset
  <2> QED
    BY <2>1, SumSplits
<1>2. {} \in P
  BY <1>1
<1>3. \A s \in SUBSET S : s # {} /\ (\A x \in s : s \ { x } \in P) => s \in P
  BY <1>1, ChosenIsIn
<1>4. S \in P
  <2> HIDE DEF P
  <2> QED
    BY <1>2, <1>3, SubsetInduction
<1> QED
  BY <1>4

\* Term by term, and so in sum.
LEMMA SumsCompare ==
  ASSUME NEW S, IsFiniteSet(S), NEW f, NEW g, NEW a \in Nat, NEW b \in Nat,
         \A x \in S : f[x] \in Int /\ g[x] \in Int /\ a * f[x] <= b * g[x]
  PROVE  a * SumFunctionOnSet(f, S) <= b * SumFunctionOnSet(g, S)
<1> DEFINE F(s) == SumFunctionOnSet(f, s)
           G(s) == SumFunctionOnSet(g, s)
           P == { s \in SUBSET S : a * F(s) <= b * G(s) }
<1>1. ASSUME NEW s \in SUBSET S
      PROVE  /\ F(s) = IF s = {} THEN 0 ELSE f[Chosen(s)] + F(s \ { Chosen(s) })
             /\ G(s) = IF s = {} THEN 0 ELSE g[Chosen(s)] + G(s \ { Chosen(s) })
             /\ F(s) \in Int /\ G(s) \in Int
  <2>1. IsFiniteSet(s) /\ \A x \in s : f[x] \in Int /\ g[x] \in Int
    BY FS_Subset
  <2> QED
    BY <2>1, SumSplits, SumIsWhole
<1> HIDE DEF F, G
<1>2. {} \in P
  <2>1. F({}) = 0 /\ G({}) = 0
    BY <1>1
  <2> QED
    BY <2>1
<1>3. ASSUME NEW s \in SUBSET S, s # {}, \A x \in s : s \ { x } \in P PROVE s \in P
  <2> DEFINE c == Chosen(s)
             r == s \ { c }
  <2>1. c \in s /\ F(s) = f[c] + F(r) /\ G(s) = g[c] + G(r)
    BY <1>1, <1>3, ChosenIsIn
  <2> HIDE DEF c
  <2>2. a * F(r) <= b * G(r) /\ F(r) \in Int /\ G(r) \in Int
    BY <1>1, <1>3, <2>1
  <2>3. a * f[c] <= b * g[c] /\ f[c] \in Int /\ g[c] \in Int
    BY <2>1
  <2> HIDE DEF r
  <2>4. a * (f[c] + F(r)) = a * f[c] + a * F(r) /\ b * (g[c] + G(r)) = b * g[c] + b * G(r)
    BY <2>2, <2>3
  <2>5. a * (f[c] + F(r)) <= b * (g[c] + G(r))
    BY <2>2, <2>3, <2>4
  <2> QED
    BY <2>1, <2>5
<1>4. \A s \in SUBSET S : s # {} /\ (\A x \in s : s \ { x } \in P) => s \in P
  BY <1>3
<1>5. S \in P
  <2> HIDE DEF P
  <2> QED
    BY <1>2, <1>4, SubsetInduction
<1> QED
  BY <1>5 DEF F, G

\* A sum of naturals is one, is no less than any part of it, and is positive if
\* it has a positive term.
LEMMA SumOfNaturals ==
  ASSUME NEW S, IsFiniteSet(S), NEW f, \A x \in S : f[x] \in Nat
  PROVE  /\ SumFunctionOnSet(f, S) \in Nat
         /\ \A T \in SUBSET S : SumFunctionOnSet(f, T) <= SumFunctionOnSet(f, S)
         /\ \A x \in S : f[x] <= SumFunctionOnSet(f, S)
<1> DEFINE F(s) == SumFunctionOnSet(f, s)
           P == { s \in SUBSET S : F(s) \in Nat /\ \A T \in SUBSET s : F(T) <= F(s) }
<1>1. ASSUME NEW s \in SUBSET S
      PROVE  /\ s = {} => F(s) = 0
             /\ \A x \in s : F(s) = f[x] + F(s \ { x })
             /\ F(s) \in Int
  <2>1. IsFiniteSet(s) /\ \A x \in s : f[x] \in Int
    BY FS_Subset
  <2> QED
    BY <2>1, SumSplits, SumIsWhole, SumTakesOut
<1> HIDE DEF F
<1>2. {} \in P
  BY <1>1
<1>3. ASSUME NEW s \in SUBSET S, s # {}, \A x \in s : s \ { x } \in P PROVE s \in P
  <2> DEFINE c == Chosen(s)
             r == s \ { c }
  <2>1. c \in s /\ r \in P /\ f[c] \in Nat
    BY <1>3, ChosenIsIn
  <2> HIDE DEF c
  <2>2. F(s) = f[c] + F(r) /\ F(r) \in Nat
    BY <1>1, <2>1
  <2>3. ASSUME NEW T \in SUBSET s PROVE F(T) <= F(s)
    <3>1. CASE c \in T
      <4>1. F(T) = f[c] + F(T \ { c }) /\ F(T \ { c }) \in Int
        BY <1>1, <3>1
      <4>2. F(T \ { c }) <= F(r)
        BY <2>1
      <4> QED
        BY <2>1, <2>2, <4>1, <4>2
    <3>2. CASE c \notin T
      <4>1. F(T) <= F(r) /\ F(T) \in Int
        BY <1>1, <2>1, <3>2
      <4> QED
        BY <2>1, <2>2, <4>1
    <3> QED
      BY <3>1, <3>2
  <2> QED
    BY <2>1, <2>2, <2>3
<1>4. \A s \in SUBSET S : s # {} /\ (\A x \in s : s \ { x } \in P) => s \in P
  BY <1>3
<1>5. S \in P
  <2> HIDE DEF P
  <2> QED
    BY <1>2, <1>4, SubsetInduction
<1>6. ASSUME NEW x \in S PROVE f[x] <= F(S)
  <2>1. { x } \in SUBSET S /\ { x } \ { x } = {}
    OBVIOUS
  <2>2. F({ x }) = f[x] + F({}) /\ F({}) = 0
    BY <1>1, <2>1
  <2>3. F({ x }) <= F(S)
    BY <1>5, <2>1
  <2> QED
    BY <2>2, <2>3
<1> QED
  BY <1>5, <1>6 DEF F

------------------------------------------------------------------------------
(* Numbers.                                                                *)

LEMMA Division ==
  ASSUME NEW n \in Int, NEW d \in Nat, d > 0
  PROVE  n \div d \in Int /\ n % d \in 0 .. d - 1 /\ n = (d * (n \div d)) + (n % d)
  OBVIOUS

LEMMA RoundDivIsWhole ==
  ASSUME NEW n \in Int, NEW d \in Nat, d > 0
  PROVE  RoundDiv(n, d) \in Int
  BY Division DEF RoundDiv

\* A quotient is rounded to no more than what bounds it.
LEMMA RoundDivIsBounded ==
  ASSUME NEW n \in Nat, NEW d \in Nat, d > 0, NEW k \in Nat, n <= k * d
  PROVE  RoundDiv(n, d) \in 0 .. k
<1> DEFINE q == n \div d
           r == n % d
<1>1. q \in Int /\ r \in 0 .. d - 1 /\ n = (d * q) + r
  BY Division
<1>2. RoundDiv(n, d) = IF 2 * r > d \/ (2 * r = d /\ q % 2 = 1) THEN q + 1 ELSE q
  BY DEF RoundDiv
<1> HIDE DEF q, r
<1>3. q >= 0
  <2> SUFFICES ASSUME q <= -1 PROVE FALSE
    BY <1>1
  <2>1. d * q <= d * (-1)
    BY <1>1
  <2> QED
    BY <2>1, <1>1
<1>4. q < k \/ (q = k /\ r = 0)
  <2>1. CASE q >= k + 1
    <3>1. d * q >= d * (k + 1) /\ d * (k + 1) = k * d + d
      BY <2>1, <1>1
    <3> QED
      BY <3>1, <1>1
  <2>2. CASE q = k
    <3>1. d * q = k * d
      BY <2>2
    <3> QED
      BY <3>1, <1>1, <2>2
  <2> QED
    BY <2>1, <2>2, <1>1
<1> QED
  BY <1>1, <1>2, <1>3, <1>4

------------------------------------------------------------------------------
(* Rounded blends.                                                         *)

Divisors == { 58, 78, 80, 100 }
FloorScores == { 25, 30, 60, 90 }

\* The dimensions of a rating.
RatedDims ==
  { dims \in [Dims -> [score : 0 .. 100, assessed : BOOLEAN]] :
      dims["sanctions"].assessed /\ dims["geographic"].assessed /\ dims["customer"].assessed }

LEMMA MaxOfTwo ==
  ASSUME NEW a \in Int, NEW b \in Int
  PROVE  Max({ a, b }) = IF a >= b THEN a ELSE b
<1>1. CASE a >= b
  <2>1. a \in { a, b } /\ \A y \in { a, b } : a >= y
    BY <1>1
  <2>2. \A x \in { a, b } : (\A y \in { a, b } : x >= y) => x = a
    BY <1>1
  <2> QED
    BY <1>1, <2>1, <2>2 DEF Max
<1>2. CASE ~(a >= b)
  <2>1. b \in { a, b } /\ \A y \in { a, b } : b >= y
    BY <1>2
  <2>2. \A x \in { a, b } : (\A y \in { a, b } : x >= y) => x = b
    BY <1>2
  <2> QED
    BY <1>2, <2>1, <2>2 DEF Max
<1> QED
  BY <1>1, <1>2

AllDivisors == Divisors \cup { 5800, 7800, 8000, 10000 }

\* A rounded quotient is a whole number within half of the quotient.
LEMMA RoundDivIsNear ==
  ASSUME NEW n \in Nat, NEW d \in AllDivisors
  PROVE  /\ RoundDiv(n, d) \in Nat
         /\ (2 * n) - d <= (2 * d) * RoundDiv(n, d)
         /\ (2 * d) * RoundDiv(n, d) <= (2 * n) + d
<1> DEFINE q == n \div d
           r == n % d
<1>1. d \in Nat /\ d > 0
  BY DEF AllDivisors, Divisors
<1>2. q \in Nat /\ r \in 0 .. d - 1 /\ n = (d * q) + r
  BY <1>1, Division
<1>3. RoundDiv(n, d) = IF 2 * r > d \/ (2 * r = d /\ q % 2 = 1) THEN q + 1 ELSE q
  BY DEF RoundDiv
<1> HIDE DEF q, r
<1>4. (2 * d) * (q + 1) = (2 * (d * q)) + (2 * d) /\ (2 * d) * q = 2 * (d * q) /\ d * q \in Nat
  BY <1>1, <1>2
<1> QED
  BY <1>1, <1>2, <1>3, <1>4

\* Rounding keeps the order.
LEMMA RoundDivIsMonotone ==
  ASSUME NEW m \in Nat, NEW n \in Nat, NEW d \in AllDivisors, m <= n
  PROVE  RoundDiv(m, d) <= RoundDiv(n, d)
<1> DEFINE p == m \div d
           q == n \div d
           r == m % d
           s == n % d
<1>1. d \in Nat /\ d > 0
  BY DEF AllDivisors, Divisors
<1>2. p \in Nat /\ r \in 0 .. d - 1 /\ m = (d * p) + r
  BY <1>1, Division
<1>3. q \in Nat /\ s \in 0 .. d - 1 /\ n = (d * q) + s
  BY <1>1, Division
<1>4. RoundDiv(m, d) = IF 2 * r > d \/ (2 * r = d /\ p % 2 = 1) THEN p + 1 ELSE p
  BY DEF RoundDiv
<1>5. RoundDiv(n, d) = IF 2 * s > d \/ (2 * s = d /\ q % 2 = 1) THEN q + 1 ELSE q
  BY DEF RoundDiv
<1> HIDE DEF p, q, r, s
<1>6. p <= q
  <2>1. SUFFICES ASSUME p > q PROVE FALSE
    BY <1>2, <1>3
  <2>2. p >= q + 1 /\ d * p >= d * (q + 1) /\ d * (q + 1) = (d * q) + d
    BY <2>1, <1>1, <1>2, <1>3
  <2>3. d * p \in Nat /\ d * q \in Nat
    BY <1>1, <1>2, <1>3
  <2> QED
    BY <2>2, <2>3, <1>1, <1>2, <1>3
<1>7. CASE p < q
  BY <1>2, <1>3, <1>4, <1>5, <1>7
<1>8. CASE p = q
  <2>1. r <= s
    <3>1. d * p \in Nat
      BY <1>1, <1>2
    <3> QED
      BY <3>1, <1>2, <1>3, <1>8
  <2> QED
    BY <2>1, <1>1, <1>2, <1>3, <1>4, <1>5, <1>8
<1> QED
  BY <1>2, <1>3, <1>6, <1>7, <1>8

------------------------------------------------------------------------------
(* The dimensions.                                                         *)

\* What risk.py reads off the specialists' findings.
KycTypes(k) ==
  /\ k.nationalityRisk \in Int /\ k.taxRisk \in Int /\ k.industryRisk \in Int
  /\ k.pepMatch \in Int /\ k.quality \in Int
AmlTypes(a) ==
  /\ a.ledger \in BOOLEAN /\ a.attested \subseteq DOMAIN ATTESTED_INDICATORS
  /\ a.count \in Nat /\ a.nearCount \in Int /\ a.proximity \in Int /\ a.symmetry \in Int
  /\ a.passShare \in Int /\ a.burst \in Int /\ a.cashRatio \in Int /\ a.cryptoShare \in Int
  /\ a.partyShare \in Int /\ a.countryRisk \in Int /\ a.countryShare \in Int
  /\ a.overRatio \in Int
FraudTypes(f) == f.score \in Int /\ f.assessed \in BOOLEAN

LEMMA ClampedIsBounded ==
  ASSUME NEW v \in Int, NEW lo \in Int, NEW hi \in Int, lo <= hi
  PROVE  Clamped(v, lo, hi) \in lo .. hi
  BY DEF Clamped

LEMMA ShareIsWhole ==
  ASSUME NEW top \in Int, NEW v \in Int, NEW lo \in Int, NEW hi \in Int, lo < hi
  PROVE  Share(top, v, lo, hi) \in Int
<1> DEFINE c == Clamped(v, lo, hi)
<1>1. c \in Int
  BY DEF Clamped
<1> HIDE DEF c
<1>2. 100 * top * (c - lo) \in Int /\ hi - lo \in Nat /\ hi - lo > 0
  BY <1>1
<1>3. RoundDiv(100 * top * (c - lo), hi - lo) \in Int
  BY <1>2, RoundDivIsWhole
<1> QED
  BY <1>3 DEF Share, c

\* g is what the points of the subsets of S leave, as Combine takes it.
Damps(g, points, base, S) ==
  g = [s \in SUBSET S |->
         IF s = {} THEN base ELSE Damped(points, Chosen(s), g[s \ { Chosen(s) }])]

LEMMA DampedIsWhole ==
  ASSUME NEW points, NEW i, points[i] \in Int, NEW v \in Int
  PROVE  Damped(points, i, v) \in Int
<1> DEFINE c == Clamped(points[i], 0, 9900)
<1>1. c \in Int
  BY DEF Clamped
<1> HIDE DEF c
<1>2. v * (10000 - c) \in Int
  BY <1>1
<1>3. RoundDiv(v * (10000 - c), 10000) \in Int
  BY <1>2, RoundDivIsWhole
<1> QED
  BY <1>3 DEF c, Damped

LEMMA DampingExists ==
  ASSUME NEW S, IsFiniteSet(S), NEW base \in Int, NEW points, \A i \in S : points[i] \in Int
  PROVE  \E g : Damps(g, points, base, S)
<1> DEFINE step == [i \in S |-> [v \in Int |-> Damped(points, i, v)]]
<1>1. \A i \in S : \A v \in Int : step[i][v] = Damped(points, i, v)
  OBVIOUS
<1>2. step \in [S -> [Int -> Int]]
  BY DampedIsWhole
<1> HIDE DEF step
<1>3. \E g \in [SUBSET S -> Int] : FoldsInto(g, base, step, S)
  BY <1>2, FoldsExist
<1>4. PICK g \in [SUBSET S -> Int] : \A s \in SUBSET S :
        g[s] = IF s = {} THEN base ELSE step[Chosen(s)][g[s \ { Chosen(s) }]]
  BY <1>3 DEF FoldsInto
<1>5. \A s \in SUBSET S : s # {} => Chosen(s) \in S /\ g[s \ { Chosen(s) }] \in Int
  BY ChosenIsIn
<1>6. \A s \in SUBSET S : g[s] = IF s = {} THEN base
                                 ELSE Damped(points, Chosen(s), g[s \ { Chosen(s) }])
  BY <1>1, <1>4, <1>5
<1>7. Damps(g, points, base, S)
  BY <1>6 DEF Damps
<1> QED
  BY <1>7

LEMMA DampingIsWhole ==
  ASSUME NEW S, IsFiniteSet(S), NEW base \in Int, NEW points, \A i \in S : points[i] \in Int,
         NEW g, Damps(g, points, base, S)
  PROVE  g[S] \in Int
<1> DEFINE P == { s \in SUBSET S : g[s] \in Int }
<1>1. \A s \in SUBSET S : g[s] = IF s = {} THEN base
                                 ELSE Damped(points, Chosen(s), g[s \ { Chosen(s) }])
  BY DEF Damps
<1>2. {} \in P
  BY <1>1
<1>3. ASSUME NEW s \in SUBSET S, s # {}, \A x \in s : s \ { x } \in P PROVE s \in P
  <2>1. Chosen(s) \in s
    BY <1>3, ChosenIsIn
  <2>2. points[Chosen(s)] \in Int /\ g[s \ { Chosen(s) }] \in Int
    BY <1>3, <2>1
  <2>3. Damped(points, Chosen(s), g[s \ { Chosen(s) }]) \in Int
    BY <2>2, DampedIsWhole
  <2> QED
    BY <1>1, <1>3, <2>3
<1>4. \A s \in SUBSET S : s # {} /\ (\A x \in s : s \ { x } \in P) => s \in P
  BY <1>3
<1>5. S \in P
  <2> HIDE DEF P
  <2> QED
    BY <1>2, <1>4, SubsetInduction
<1> QED
  BY <1>5

\* A noisy-OR of whole points is whole.
LEMMA CombineIsWhole ==
  ASSUME NEW points, IsFiniteSet(DOMAIN points), \A i \in DOMAIN points : points[i] \in Int
  PROVE  Combine(points) \in Int
<1> DEFINE D == DOMAIN points
           base == 100000
           h == CHOOSE g : Damps(g, points, base, D)
<1>1. base \in Int
  OBVIOUS
<1> HIDE DEF base, D
<1>2. Damps(h, points, base, D)
  BY <1>1, DampingExists DEF D
<1>3. h = CHOOSE g : g = [s \in SUBSET D |->
                            IF s = {} THEN base
                            ELSE Damped(points, Chosen(s), g[s \ { Chosen(s) }])]
  BY DEF Damps
<1> HIDE DEF h
<1>4. Remaining(points) = h[D]
  BY <1>3 DEF Remaining, FoldSet, MapThenFoldSet, Chosen, base, D
<1>5. h[D] \in Int
  BY <1>1, <1>2, DampingIsWhole DEF D
<1>6. base - h[D] \in Int
  BY <1>1, <1>5
<1>7. RoundDiv(base - h[D], 1000) \in Int
  BY <1>6, RoundDivIsWhole
<1> QED
  BY <1>4, <1>7 DEF Combine, base

LEMMA SmallSetsAreFinite ==
  ASSUME NEW a, NEW b, NEW c, NEW d, NEW e, NEW f, NEW g, NEW h
  PROVE  IsFiniteSet({ a, b, c, d, e, f, g, h })
<1> DEFINE two == { a } \cup { b }
           four == (two \cup { c }) \cup { d }
           six == (four \cup { e }) \cup { f }
<1>1. IsFiniteSet({ a })
  BY FS_Singleton
<1>2. IsFiniteSet(two)
  BY <1>1, FS_AddElement
<1> HIDE DEF two
<1>3. IsFiniteSet(two \cup { c })
  BY <1>2, FS_AddElement
<1>4. IsFiniteSet(four)
  BY <1>3, FS_AddElement
<1> HIDE DEF four
<1>5. IsFiniteSet(four \cup { e })
  BY <1>4, FS_AddElement
<1>6. IsFiniteSet(six)
  BY <1>5, FS_AddElement
<1> HIDE DEF six
<1>7. IsFiniteSet(six \cup { g })
  BY <1>6, FS_AddElement
<1>8. IsFiniteSet((six \cup { g }) \cup { h })
  BY <1>7, FS_AddElement
<1>9. { a, b, c, d, e, f, g, h } = (six \cup { g }) \cup { h }
  BY DEF six, four, two
<1> QED
  BY <1>8, <1>9

LEMMA MaxOfFourIsWhole ==
  ASSUME NEW a \in Int, NEW b \in Int, NEW c \in Int, NEW d \in Int
  PROVE  Max({ a, b, c, d }) \in Int
<1>1. IsFiniteSet({ a, b, c, d, a, b, c, d })
  BY SmallSetsAreFinite
<1>2. { a, b, c, d, a, b, c, d } = { a, b, c, d }
  OBVIOUS
<1> DEFINE S == { a, b, c, d }
<1>3. S \in SUBSET Int /\ IsFiniteSet(S) /\ S # {}
  BY <1>1, <1>2
<1> HIDE DEF S
<1>4. Max(S) \in S /\ S \in SUBSET Int
  BY <1>3, MaxExists
<1> QED
  BY <1>4 DEF S

\* A dimension is a score of 0 to 100, and counts if it was assessed.
Scored == [score : 0 .. 100, assessed : BOOLEAN]

LEMMA AssessedIsScored ==
  ASSUME NEW v \in Int
  PROVE  Assessed(v) \in Scored /\ Assessed(v).assessed
<1>1. Clamped(v, 0, 100) \in 0 .. 100
  BY DEF Clamped
<1> QED
  BY <1>1 DEF Assessed, Scored

LEMMA SanctionsDimIsScored ==
  ASSUME NEW s
  PROVE  SanctionsDim(s) \in Scored /\ SanctionsDim(s).assessed
<1> DEFINE own == CASE s.tier = "STRONG" -> 100 [] s.tier = "POSSIBLE" -> 55 [] OTHER -> 0
           paid == IF s.counterpartyHit THEN 100 ELSE 0
           blocked == IF s.blockedExposure THEN 60 ELSE 0
<1>1. own \in Int /\ paid \in Int /\ blocked \in Int
  OBVIOUS
<1> HIDE DEF own, paid, blocked
<1>2. { own, paid, blocked, blocked } = { own, paid, blocked }
  OBVIOUS
<1>3. Max({ own, paid, blocked }) \in Int
  BY <1>1, <1>2, MaxOfFourIsWhole
<1>4. SanctionsDim(s) = Assessed(Max({ own, paid, blocked }))
  BY DEF SanctionsDim, own, paid, blocked
<1> QED
  BY <1>3, <1>4, AssessedIsScored

LEMMA LedgerPointsAreWhole ==
  ASSUME NEW a, AmlTypes(a)
  PROVE  /\ DOMAIN LedgerPoints(a)
              = { "structuring", "rapid", "velocity", "cash", "crypto", "parties", "volume" }
         /\ \A i \in DOMAIN LedgerPoints(a) : LedgerPoints(a)[i] \in Int
<1>1. /\ a.nearCount \in Int /\ a.proximity \in Int /\ a.symmetry \in Int /\ a.passShare \in Int
      /\ a.burst \in Int /\ a.cashRatio \in Int /\ a.cryptoShare \in Int /\ a.partyShare \in Int
      /\ a.overRatio \in Int
  BY DEF AmlTypes
<1>2. \A v \in Int : Share(13, v, 3, 9) \in Int
  BY ShareIsWhole
<1>3. \A v \in Int : Share(8, v, 0, 1000) \in Int
  BY ShareIsWhole
<1>4. \A v \in Int : Share(11, v, 0, 1000) \in Int
  BY ShareIsWhole
<1>5. \A v \in Int : Share(8, v, 100, 600) \in Int
  BY ShareIsWhole
<1>6. \A v \in Int : Share(14, v, 8, 25) \in Int
  BY ShareIsWhole
<1>7. \A v \in Int : Share(25, v, 300, 1000) \in Int
  BY ShareIsWhole
<1>8. \A v \in Int : Share(16, v, 0, 500) \in Int
  BY ShareIsWhole
<1>9. \A v \in Int : Share(18, v, 50, 600) \in Int
  BY ShareIsWhole
<1>10. \A v \in Int : Share(15, v, 300, 1200) \in Int
  BY ShareIsWhole
<1>11. DOMAIN LedgerPoints(a)
         = { "structuring", "rapid", "velocity", "cash", "crypto", "parties", "volume" }
  BY DEF LedgerPoints
<1>12. LedgerPoints(a)["structuring"] \in Int
  BY <1>1, <1>2, <1>3 DEF LedgerPoints
<1>13. LedgerPoints(a)["rapid"] \in Int
  BY <1>1, <1>4, <1>5 DEF LedgerPoints
<1>14. LedgerPoints(a)["velocity"] \in Int
  BY <1>1, <1>6 DEF LedgerPoints
<1>15. LedgerPoints(a)["cash"] \in Int
  BY <1>1, <1>7 DEF LedgerPoints
<1>16. LedgerPoints(a)["crypto"] \in Int
  BY <1>1, <1>8 DEF LedgerPoints
<1>17. LedgerPoints(a)["parties"] \in Int
  BY <1>1, <1>9 DEF LedgerPoints
<1>18. LedgerPoints(a)["volume"] \in Int
  BY <1>1, <1>10 DEF LedgerPoints
<1> QED
  BY <1>11, <1>12, <1>13, <1>14, <1>15, <1>16, <1>17, <1>18

LEMMA TransactionDimIsScored ==
  ASSUME NEW a, AmlTypes(a)
  PROVE  TransactionDim(a) \in Scored
<1> DEFINE observed == [i \in a.attested |-> 100 * ATTESTED_INDICATORS[i]]
<1>1. Combine(LedgerPoints(a)) \in Int
  <2>1. IsFiniteSet({ "structuring", "rapid", "velocity", "cash", "crypto", "parties", "volume",
                      "volume" })
    BY SmallSetsAreFinite
  <2>2. IsFiniteSet(DOMAIN LedgerPoints(a))
    BY <2>1, LedgerPointsAreWhole
  <2> QED
    BY <2>2, LedgerPointsAreWhole, CombineIsWhole
<1>2. Combine(observed) \in Int
  <2>1. IsFiniteSet({ "structuring", "rapid_movement", "offshore_shell",
                      "high_risk_jurisdiction", "crypto_exposure", "large_vs_income",
                      "structuring", "structuring" })
    BY SmallSetsAreFinite
  <2>2. DOMAIN ATTESTED_INDICATORS = { "structuring", "rapid_movement", "offshore_shell",
                      "high_risk_jurisdiction", "crypto_exposure", "large_vs_income" }
    BY DEF ATTESTED_INDICATORS
  <2>3. IsFiniteSet(DOMAIN ATTESTED_INDICATORS)
    BY <2>1, <2>2
  <2>4. DOMAIN observed = a.attested /\ a.attested \subseteq DOMAIN ATTESTED_INDICATORS
    BY DEF AmlTypes
  <2>5. IsFiniteSet(DOMAIN observed)
    BY <2>3, <2>4, FS_Subset
  <2>6. \A i \in DOMAIN ATTESTED_INDICATORS : ATTESTED_INDICATORS[i] \in Int
    BY DEF ATTESTED_INDICATORS
  <2>7. \A i \in DOMAIN observed : observed[i] \in Int
    BY <2>4, <2>6
  <2> HIDE DEF observed
  <2> QED
    BY <2>5, <2>7, CombineIsWhole
<1>3. NotAssessed \in Scored
  BY DEF NotAssessed, Scored
<1> HIDE DEF Scored
<1>4. Assessed(Combine(LedgerPoints(a))) \in Scored /\ Assessed(Combine(observed)) \in Scored
  BY <1>1, <1>2, AssessedIsScored
<1> QED
  BY <1>3, <1>4 DEF TransactionDim

LEMMA FraudDimIsScored ==
  ASSUME NEW f, FraudTypes(f)
  PROVE  FraudDim(f) \in Scored
<1>1. Assessed(f.score) \in Scored
  BY AssessedIsScored DEF FraudTypes
<1> QED
  BY <1>1 DEF FraudDim, NotAssessed, Scored

LEMMA GeographicDimIsScored ==
  ASSUME NEW residence \in Int, NEW k, KycTypes(k), NEW a, AmlTypes(a)
  PROVE  GeographicDim(residence, k, a) \in Scored /\ GeographicDim(residence, k, a).assessed
<1> DEFINE c == Clamped(a.countryShare, 50, 500)
           worst == RoundDiv(a.countryRisk * (45 * 450 + 55 * (c - 50)), 45000)
           parties == IF a.countryRisk >= 70 THEN worst ELSE a.countryRisk
           primary == Max({ residence, k.nationalityRisk, k.taxRisk, parties })
           rest == residence + k.nationalityRisk + k.taxRisk + parties - primary
<1>1. c \in Int
  BY DEF Clamped, AmlTypes
<1> HIDE DEF c
<1>2. a.countryRisk * (45 * 450 + 55 * (c - 50)) \in Int
  BY <1>1 DEF AmlTypes
<1>3. worst \in Int
  BY <1>2, RoundDivIsWhole
<1> HIDE DEF worst
<1>4. parties \in Int
  BY <1>3 DEF AmlTypes
<1> HIDE DEF parties
<1>5. primary \in Int
  BY <1>4, MaxOfFourIsWhole DEF KycTypes
<1> HIDE DEF primary
<1>6. rest \in Int
  BY <1>4, <1>5 DEF KycTypes
<1> HIDE DEF rest
<1>7. 1000 * primary + (100 - primary) * rest \in Int
  BY <1>5, <1>6
<1>8. RoundDiv(1000 * primary + (100 - primary) * rest, 1000) \in Int
  BY <1>7, RoundDivIsWhole
<1>9. GeographicDim(residence, k, a)
        = Assessed(RoundDiv(1000 * primary + (100 - primary) * rest, 1000))
  BY DEF GeographicDim, primary, rest, parties, worst, c
<1> QED
  BY <1>8, <1>9, AssessedIsScored

LEMMA CustomerDimIsScored ==
  ASSUME NEW k, KycTypes(k)
  PROVE  CustomerDim(k) \in Scored /\ CustomerDim(k).assessed
<1> DEFINE pep == IF k.isPep THEN 5000 + Share(15, k.pepMatch, 88, 100)
                  ELSE IF k.declaredPep THEN 4500 ELSE 0
           industry == IF k.industryRisk >= 40 THEN 800 + Share(24, k.industryRisk, 40, 85) ELSE 0
           points == [pep      |-> pep,
                      industry |-> industry,
                      remote   |-> IF k.remote THEN 1200 ELSE 0,
                      income   |-> IF k.incomeMismatch THEN 2000 ELSE 0,
                      identity |-> IF k.quality < 75 THEN 50 * (100 - k.quality) ELSE 0]
<1>1. pep \in Int /\ industry \in Int
  <2>1. k.pepMatch \in Int /\ k.industryRisk \in Int
    BY DEF KycTypes
  <2>2. \A v \in Int : Share(15, v, 88, 100) \in Int
    BY ShareIsWhole
  <2>3. \A v \in Int : Share(24, v, 40, 85) \in Int
    BY ShareIsWhole
  <2> QED
    BY <2>1, <2>2, <2>3
<1> HIDE DEF pep, industry
<1>2. IsFiniteSet({ "pep", "industry", "remote", "income", "identity", "pep", "pep", "pep" })
  BY SmallSetsAreFinite
<1>3. /\ DOMAIN points = { "pep", "industry", "remote", "income", "identity" }
      /\ \A i \in DOMAIN points : points[i] \in Int
  BY <1>1 DEF KycTypes
<1>4. IsFiniteSet(DOMAIN points)
  <2>1. { "pep", "industry", "remote", "income", "identity", "pep", "pep", "pep" }
          = { "pep", "industry", "remote", "income", "identity" }
    OBVIOUS
  <2> HIDE DEF points
  <2> QED
    BY <1>2, <1>3, <2>1
<1>5. CustomerDim(k) = Assessed(Combine(points))
  BY DEF CustomerDim, pep, industry
<1> HIDE DEF points
<1>6. Combine(points) \in Int
  BY <1>3, <1>4, CombineIsWhole
<1> QED
  BY <1>5, <1>6, AssessedIsScored

\* Whatever the specialists found, the dimensions are a rating's.
LEMMA DimensionsAreRated ==
  ASSUME NEW residence \in Int, NEW k, KycTypes(k), NEW a, AmlTypes(a), NEW s,
         NEW f, FraudTypes(f)
  PROVE  Dimensions(residence, k, a, s, f) \in RatedDims
<1> DEFINE dims == Dimensions(residence, k, a, s, f)
<1>1. /\ DOMAIN dims = Dims
      /\ dims["sanctions"] = SanctionsDim(s)
      /\ dims["transaction"] = TransactionDim(a)
      /\ dims["fraud"] = FraudDim(f)
      /\ dims["geographic"] = GeographicDim(residence, k, a)
      /\ dims["customer"] = CustomerDim(k)
  BY DEF Dimensions, Dims
<1>2. dims = [d \in Dims |-> dims[d]]
  BY DEF Dimensions, Dims
<1> HIDE DEF dims
<1>3. \A d \in Dims : dims[d] \in Scored
  BY <1>1, SanctionsDimIsScored, TransactionDimIsScored, FraudDimIsScored,
     GeographicDimIsScored, CustomerDimIsScored DEF Dims
<1>4. dims \in [Dims -> Scored]
  BY <1>2, <1>3
<1>5. dims["sanctions"].assessed /\ dims["geographic"].assessed /\ dims["customer"].assessed
  BY <1>1, SanctionsDimIsScored, GeographicDimIsScored, CustomerDimIsScored
<1> QED
  BY <1>4, <1>5 DEF RatedDims, Scored, dims

------------------------------------------------------------------------------
(* One rating.                                                             *)

LEMMA Ceilings ==
  ASSUME NEW floor \in FloorScores
  PROVE  << floor, BandCeiling(floor) >> \in
           { << 25, 49 >>, << 30, 49 >>, << 60, 74 >>, << 90, 100 >> }
<1>1. CASE floor = 25
  <2>1. BandCeiling(25) = 49
    BY DEF BandCeiling
  <2> QED
    BY <1>1, <2>1
<1>2. CASE floor = 30
  <2>1. BandCeiling(30) = 49
    BY DEF BandCeiling
  <2> QED
    BY <1>2, <2>1
<1>3. CASE floor = 60
  <2>1. BandCeiling(60) = 74
    BY DEF BandCeiling
  <2> QED
    BY <1>3, <2>1
<1>4. CASE floor = 90
  <2>1. BandCeiling(90) = 100
    BY DEF BandCeiling
  <2> QED
    BY <1>4, <2>1
<1> QED
  BY <1>1, <1>2, <1>3, <1>4 DEF FloorScores

\* What the blend becomes on the way from the floor to the top of its band.
Lifted(n, d, floor) ==
  RoundDiv((100 * floor * d) + ((BandCeiling(floor) - floor) * n), 100 * d)

LEMMA LiftedStaysInTheBand ==
  ASSUME NEW d \in Divisors, NEW floor \in FloorScores, NEW n \in 0 .. (100 * d)
  PROVE  /\ Lifted(n, d, floor) \in floor .. BandCeiling(floor)
         /\ (100 * floor * d) + ((BandCeiling(floor) - floor) * n) \in Nat
         /\ 100 * d \in AllDivisors
<1> DEFINE c == BandCeiling(floor)
           N == (100 * floor * d) + ((c - floor) * n)
<1>1. << floor, c >> \in { << 25, 49 >>, << 30, 49 >>, << 60, 74 >>, << 90, 100 >> }
  BY Ceilings
<1>2. 100 * d \in AllDivisors
  BY DEF Divisors, AllDivisors
<1>3. d \in { 58, 78, 80, 100 }
  BY DEF Divisors
<1>4. N \in Nat /\ N >= 100 * floor * d /\ N <= 100 * c * d
  BY <1>1, <1>3
<1>5. /\ RoundDiv(N, 100 * d) \in Nat
      /\ (2 * N) - (100 * d) <= (200 * d) * RoundDiv(N, 100 * d)
      /\ (200 * d) * RoundDiv(N, 100 * d) <= (2 * N) + (100 * d)
  BY <1>2, <1>3, <1>4, RoundDivIsNear
<1> DEFINE s == RoundDiv(N, 100 * d)
<1> HIDE DEF s, N
<1>6. s >= floor /\ s <= c
  BY <1>1, <1>3, <1>4, <1>5 DEF s
<1> QED
  BY <1>1, <1>2, <1>4, <1>5, <1>6 DEF Lifted, s, N

\* A floor guarantees its band and no more (risk.py, _apply_floor: "a floor exists
\* to guarantee a band"): what the floored score is banded as is the band of the
\* floor or of the blend, whichever is higher.
THEOREM FloorKeepsBand ==
  ASSUME NEW d \in Divisors, NEW floor \in FloorScores, NEW n \in 0 .. (100 * d)
  PROVE  /\ BandFor(ApplyFloor(n, d, floor)) = BandFor(Max({ RoundDiv(n, d), floor }))
         /\ ApplyFloor(n, d, floor) \in floor .. 100
<1> DEFINE b == RoundDiv(n, d)
           s == Lifted(n, d, floor)
           c == BandCeiling(floor)
<1>1. << floor, c >> \in { << 25, 49 >>, << 30, 49 >>, << 60, 74 >>, << 90, 100 >> }
  BY Ceilings
<1>2. b \in Nat /\ b <= 100
  <2>1. d \in AllDivisors /\ n \in Nat /\ d \in { 58, 78, 80, 100 }
    BY DEF Divisors, AllDivisors
  <2>2. b \in Nat /\ (2 * d) * b <= (2 * n) + d
    BY <2>1, RoundDivIsNear
  <2> HIDE DEF b
  <2> QED
    BY <2>1, <2>2
<1>3. s \in floor .. c
  BY LiftedStaysInTheBand
<1>4. ApplyFloor(n, d, floor) = Max({ b, s })
  BY DEF ApplyFloor, Lifted
<1> HIDE DEF b, s, c
<1>5. Max({ b, s }) = IF b >= s THEN b ELSE s
  BY <1>1, <1>2, <1>3, MaxOfTwo
<1>6. Max({ b, floor }) = IF b >= floor THEN b ELSE floor
  BY <1>1, <1>2, MaxOfTwo
<1>7. ApplyFloor(n, d, floor) \in floor .. 100
  BY <1>1, <1>2, <1>3, <1>4, <1>5
<1>8. BandFor(Max({ b, s })) = BandFor(Max({ b, floor }))
  <2>1. CASE b >= s
    BY <2>1, <1>1, <1>2, <1>3, <1>5, <1>6
  <2>2. CASE b < s
    BY <2>2, <1>1, <1>2, <1>3, <1>5, <1>6 DEF BandFor
  <2> QED
    BY <2>1, <2>2, <1>1, <1>2, <1>3
<1> QED
  BY <1>4, <1>7, <1>8 DEF b

\* The floor does not throw the other evidence away (risk.py, _apply_floor:
\* "restores the ordering within it"): of two cases with the same coverage and the
\* same floor, the one with the higher blend is not rated lower.
THEOREM FloorKeepsOrder ==
  ASSUME NEW d \in Divisors, NEW floor \in FloorScores,
         NEW m \in 0 .. (100 * d), NEW n \in 0 .. (100 * d), m <= n
  PROVE  ApplyFloor(m, d, floor) <= ApplyFloor(n, d, floor)
<1> DEFINE c == BandCeiling(floor)
           M == (100 * floor * d) + ((c - floor) * m)
           N == (100 * floor * d) + ((c - floor) * n)
<1>1. << floor, c >> \in { << 25, 49 >>, << 30, 49 >>, << 60, 74 >>, << 90, 100 >> }
  BY Ceilings
<1>2. d \in AllDivisors /\ d \in { 58, 78, 80, 100 } /\ m \in Nat /\ n \in Nat
  BY DEF Divisors, AllDivisors
<1>3. M \in Nat /\ N \in Nat /\ 100 * d \in AllDivisors
  BY LiftedStaysInTheBand
<1>4. M <= N
  BY <1>1, <1>2
<1>5. Lifted(m, d, floor) <= Lifted(n, d, floor)
  BY <1>3, <1>4, RoundDivIsMonotone DEF Lifted
<1>6. RoundDiv(m, d) <= RoundDiv(n, d)
  BY <1>2, RoundDivIsMonotone
<1>7. /\ RoundDiv(m, d) \in Nat /\ RoundDiv(n, d) \in Nat
      /\ Lifted(m, d, floor) \in floor .. c /\ Lifted(n, d, floor) \in floor .. c
  BY <1>2, RoundDivIsNear, LiftedStaysInTheBand
<1>8. /\ ApplyFloor(m, d, floor) = Max({ RoundDiv(m, d), Lifted(m, d, floor) })
      /\ ApplyFloor(n, d, floor) = Max({ RoundDiv(n, d), Lifted(n, d, floor) })
  BY DEF ApplyFloor, Lifted
<1> HIDE DEF c, M, N
<1> QED
  BY <1>1, <1>5, <1>6, <1>7, <1>8, MaxOfTwo

LEMMA HighestFloor ==
  ASSUME NEW floors \in SUBSET FloorScores, floors # {}
  PROVE  Max(floors) \in FloorScores
<1>1. \E x \in floors : \A y \in floors : x >= y
  <2>1. CASE 90 \in floors
    BY <2>1 DEF FloorScores
  <2>2. CASE 90 \notin floors /\ 60 \in floors
    BY <2>2 DEF FloorScores
  <2>3. CASE 90 \notin floors /\ 60 \notin floors /\ 30 \in floors
    BY <2>3 DEF FloorScores
  <2>4. CASE 90 \notin floors /\ 60 \notin floors /\ 30 \notin floors
    <3>1. \A x \in floors : x = 25
      BY <2>4 DEF FloorScores
    <3>2. PICK x \in floors : TRUE
      OBVIOUS
    <3> QED
      BY <3>1, <3>2
  <2> QED
    BY <2>1, <2>2, <2>3, <2>4
<1>2. Max(floors) \in floors
  BY <1>1 DEF Max
<1> QED
  BY <1>2

LEMMA BlendIsADivision ==
  ASSUME NEW dims \in RatedDims
  PROVE  WeightSum(dims) \in Divisors /\ Blended(dims) \in 0 .. (100 * WeightSum(dims))
<1>1. \A x \in Dims : dims[x].score \in 0 .. 100 /\ dims[x].assessed \in BOOLEAN
  BY DEF RatedDims
<1>2. dims["sanctions"].assessed /\ dims["geographic"].assessed /\ dims["customer"].assessed
  BY DEF RatedDims
<1>3. /\ DIMENSION_WEIGHTS["sanctions"] = 25 /\ DIMENSION_WEIGHTS["transaction"] = 22
      /\ DIMENSION_WEIGHTS["fraud"] = 20 /\ DIMENSION_WEIGHTS["geographic"] = 18
      /\ DIMENSION_WEIGHTS["customer"] = 15
  BY DEF DIMENSION_WEIGHTS
<1> DEFINE T == dims["transaction"].assessed
           F == dims["fraud"].assessed
<1> DEFINE sn == dims["sanctions"].score
           tr == dims["transaction"].score
           fr == dims["fraud"].score
           ge == dims["geographic"].score
           cu == dims["customer"].score
<1>4. sn \in 0 .. 100 /\ tr \in 0 .. 100 /\ fr \in 0 .. 100 /\ ge \in 0 .. 100 /\ cu \in 0 .. 100
  BY <1>1 DEF Dims
<1>5. CASE T /\ F
  <2>1. WeightSum(dims) = 100
    BY <1>2, <1>3, <1>5 DEF WeightSum, Weighted
  <2>2. Blended(dims) = (25 * sn) + (22 * tr) + (20 * fr) + (18 * ge) + (15 * cu)
    BY <1>2, <1>3, <1>5, SMTT(60) DEF Blended, Weighted
  <2> HIDE DEF sn, tr, fr, ge, cu
  <2>3. Blended(dims) \in 0 .. 10000
    BY <1>4, <2>2
  <2> QED
    BY <2>1, <2>3 DEF Divisors
<1>6. CASE T /\ ~F
  <2>1. WeightSum(dims) = 80
    BY <1>2, <1>3, <1>6 DEF WeightSum, Weighted
  <2>2. Blended(dims) = (25 * sn) + (22 * tr) + 0 + (18 * ge) + (15 * cu)
    BY <1>2, <1>3, <1>6, SMTT(60) DEF Blended, Weighted
  <2> HIDE DEF sn, tr, fr, ge, cu
  <2>3. Blended(dims) \in 0 .. 8000
    BY <1>4, <2>2
  <2> QED
    BY <2>1, <2>3 DEF Divisors
<1>7. CASE ~T /\ F
  <2>1. WeightSum(dims) = 78
    BY <1>2, <1>3, <1>7 DEF WeightSum, Weighted
  <2>2. Blended(dims) = (25 * sn) + 0 + (20 * fr) + (18 * ge) + (15 * cu)
    BY <1>2, <1>3, <1>7, SMTT(60) DEF Blended, Weighted
  <2> HIDE DEF sn, tr, fr, ge, cu
  <2>3. Blended(dims) \in 0 .. 7800
    BY <1>4, <2>2
  <2> QED
    BY <2>1, <2>3 DEF Divisors
<1>8. CASE ~T /\ ~F
  <2>1. WeightSum(dims) = 58
    BY <1>2, <1>3, <1>8 DEF WeightSum, Weighted
  <2>2. Blended(dims) = (25 * sn) + 0 + 0 + (18 * ge) + (15 * cu)
    BY <1>2, <1>3, <1>8 DEF Blended, Weighted
  <2> HIDE DEF sn, tr, fr, ge, cu
  <2>3. Blended(dims) \in 0 .. 5800
    BY <1>4, <2>2
  <2> QED
    BY <2>1, <2>3 DEF Divisors
<1> QED
  BY <1>5, <1>6, <1>7, <1>8

\* Whatever the dimensions of a case come to, its escalation puts it in the band
\* of its highest floor or in the one of its own blend, whichever is higher
\* (risk.py: "a single strong signal must not be diluted"): the rating that
\* Screening's EscalationHolds checks for the cases of its instance.
THEOREM EscalationKeepsBand ==
  ASSUME NEW dims \in RatedDims, NEW floors \in SUBSET FloorScores, floors # {}
  PROVE  BandFor(Overall(dims, floors))
           = BandFor(Max({ RoundDiv(Blended(dims), WeightSum(dims)), Max(floors) }))
<1> DEFINE d == WeightSum(dims)
           n == Blended(dims)
           top == Max(floors)
<1>1. d \in Divisors /\ n \in 0 .. (100 * d)
  BY BlendIsADivision
<1>2. top \in FloorScores
  BY HighestFloor
<1> HIDE DEF d, n, top
<1>3. /\ BandFor(ApplyFloor(n, d, top)) = BandFor(Max({ RoundDiv(n, d), top }))
      /\ ApplyFloor(n, d, top) \in top .. 100
  BY <1>1, <1>2, FloorKeepsBand
<1>4. Overall(dims, floors) = Clamped(ApplyFloor(n, d, top), 0, 100)
  BY DEF Overall, d, n, top
<1>5. Clamped(ApplyFloor(n, d, top), 0, 100) = ApplyFloor(n, d, top)
  BY <1>2, <1>3 DEF Clamped, FloorScores
<1> QED
  BY <1>3, <1>4, <1>5 DEF d, n, top

\* A case whose evidence warrants a filing is never LOW (risk.py: "a case that
\* warrants a filing cannot be LOW"), whatever its dimensions come to.
THEOREM FilingHasABand ==
  ASSUME NEW dims \in RatedDims, NEW k, NEW a, NEW s, NEW f, WarrantsFiling(a, f)
  PROVE  BandFor(Overall(dims, EscalationFloors(k, a, s, f))) # "LOW"
<1> DEFINE floors == EscalationFloors(k, a, s, f)
           d == WeightSum(dims)
           n == Blended(dims)
           top == Max(floors)
<1>1. floors \in SUBSET FloorScores /\ floors # {}
  BY DEF EscalationFloors, FloorScores
<1>2. d \in Divisors /\ n \in 0 .. (100 * d) /\ top \in FloorScores
  BY <1>1, BlendIsADivision, HighestFloor
<1>3. Overall(dims, floors) = Clamped(ApplyFloor(n, d, top), 0, 100)
  BY <1>1 DEF Overall
<1> HIDE DEF floors, d, n, top
<1>4. ApplyFloor(n, d, top) \in top .. 100
  BY <1>2, FloorKeepsBand
<1>5. Overall(dims, floors) \in 25 .. 100
  BY <1>2, <1>3, <1>4 DEF Clamped, FloorScores
<1> QED
  BY <1>5 DEF BandFor, floors

LEMMA MinOfTwo ==
  ASSUME NEW a \in Int, NEW b \in Int
  PROVE  Min({ a, b }) = IF a <= b THEN a ELSE b
<1>1. CASE a <= b
  <2>1. a \in { a, b } /\ \A y \in { a, b } : a <= y
    BY <1>1
  <2>2. \A x \in { a, b } : (\A y \in { a, b } : x <= y) => x = a
    BY <1>1
  <2> QED
    BY <1>1, <2>1, <2>2 DEF Min
<1>2. CASE ~(a <= b)
  <2>1. b \in { a, b } /\ \A y \in { a, b } : b <= y
    BY <1>2
  <2>2. \A x \in { a, b } : (\A y \in { a, b } : x <= y) => x = b
    BY <1>2
  <2> QED
    BY <1>2, <2>1, <2>2 DEF Min
<1> QED
  BY <1>1, <1>2

\* A rating is a score of 0 to 100.
LEMMA OverallIsBounded ==
  ASSUME NEW dims \in RatedDims, NEW floors \in SUBSET FloorScores
  PROVE  Overall(dims, floors) \in 0 .. 100
<1> DEFINE d == WeightSum(dims)
           n == Blended(dims)
<1>1. d \in Divisors /\ n \in 0 .. (100 * d)
  BY BlendIsADivision
<1> HIDE DEF d, n
<1>2. RoundDiv(n, d) \in Int
  BY <1>1, RoundDivIsWhole DEF Divisors
<1>3. floors # {} => ApplyFloor(n, d, Max(floors)) \in Int
  <2>1. floors # {} => Max(floors) \in FloorScores
    BY HighestFloor
  <2> DEFINE top == Max(floors)
  <2> HIDE DEF top
  <2>2. top \in FloorScores => ApplyFloor(n, d, top) \in top .. 100
    BY <1>1, FloorKeepsBand
  <2>3. top \in FloorScores => ApplyFloor(n, d, top) \in Int
    BY <2>2 DEF FloorScores
  <2> QED
    BY <2>1, <2>3 DEF top
<1> DEFINE v == IF floors = {} THEN RoundDiv(n, d) ELSE ApplyFloor(n, d, Max(floors))
<1>4. v \in Int
  BY <1>2, <1>3
<1>5. Overall(dims, floors) = Clamped(v, 0, 100)
  BY DEF Overall, d, n
<1> HIDE DEF v
<1> QED
  BY <1>4, <1>5 DEF Clamped

\* Without a ledger, or with fewer rows than a pattern takes, a confidence stays
\* under the half that MEDIUM asks for; and it is one of 0 to 100.
LEMMA ConfidenceHasACeiling ==
  ASSUME NEW k, KycTypes(k), NEW a, AmlTypes(a), NEW s, NEW dims \in RatedDims
  PROVE  /\ Confidence(k, a, s, dims) \in 0 .. 100
         /\ ~a.ledger \/ a.count < MinPatternRows => Confidence(k, a, s, dims) < 50
<1> DEFINE quality == IF k.lost THEN 50 ELSE k.quality
           evidence == Min({ 100, 8 * a.count })
           ceiling == IF ~a.ledger THEN 40 ELSE IF a.count < MinPatternRows THEN 49 ELSE 100
           sum == 35 * quality + 30 * WeightSum(dims) + 35 * evidence
           value == Min({ ceiling, RoundDiv(sum, 100) })
           c == IF s.tier = "POSSIBLE" THEN value - 10 ELSE value
<1>1. quality \in Int
  BY DEF KycTypes
<1>2. evidence \in Int
  <2>1. a.count \in Nat
    BY DEF AmlTypes
  <2> DEFINE b == 8 * a.count
             top == 100
  <2>2. b \in Int /\ top \in Int
    BY <2>1
  <2> HIDE DEF b, top
  <2>3. Min({ top, b }) \in Int
    BY <2>2, MinOfTwo
  <2> QED
    BY <2>3 DEF b, top
<1>3. WeightSum(dims) \in Int
  BY BlendIsADivision DEF Divisors
<1>4. ceiling \in 0 .. 100 /\ (~a.ledger \/ a.count < MinPatternRows => ceiling < 50)
  OBVIOUS
<1> HIDE DEF quality, evidence, ceiling
<1>5. sum \in Int
  BY <1>1, <1>2, <1>3
<1> HIDE DEF sum
<1>6. RoundDiv(sum, 100) \in Int
  BY <1>5, RoundDivIsWhole
<1>7. value \in Int /\ value <= ceiling
  <2> DEFINE r == RoundDiv(sum, 100)
  <2> HIDE DEF r
  <2>1. r \in Int
    BY <1>6 DEF r
  <2>2. Min({ ceiling, r }) \in Int /\ Min({ ceiling, r }) <= ceiling
    BY <1>4, <2>1, MinOfTwo
  <2> QED
    BY <2>2 DEF r
<1> HIDE DEF value
<1>8. c \in Int /\ c <= ceiling
  BY <1>4, <1>7
<1>9. Confidence(k, a, s, dims) = Clamped(c, 0, 100)
  BY DEF Confidence, c, value, sum, ceiling, evidence, quality
<1> HIDE DEF c
<1> QED
  BY <1>4, <1>8, <1>9 DEF Clamped
================================================================================
