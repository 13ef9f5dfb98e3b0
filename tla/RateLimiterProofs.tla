-------------------------- MODULE RateLimiterProofs --------------------------
(***************************************************************************)
(* Proofs about RateLimiter, for every rate, burst, set of clients and     *)
(* length of time: the limit is a limit, and Retry-After is kept.          *)
(***************************************************************************)
EXTENDS RateLimiter, TLAPS

\* What a rate brings in over two stretches of time.
LEMMA RateOverTime ==
  ASSUME NEW a \in Nat, NEW b \in Nat, NEW r \in Nat
  PROVE  /\ a * r \in Nat
         /\ (a + b) * r = a * r + b * r
BY SMT

LEMMA DivisionFacts ==
  ASSUME NEW x \in Nat, NEW r \in Nat, r > 0
  PROVE  /\ x \div r \in Nat
         /\ x < (x \div r) * r + r
BY SMT

LEMMA LimitFacts ==
  /\ Rpm \in Nat /\ Burst \in Nat /\ MaxTime \in Nat
  /\ One = 60
  /\ Full \in Nat
  /\ Burst > 0 => Full >= One
BY LimitsAssumption DEF One, Full

LEMMA ClockFacts ==
  ASSUME TypeOK, NEW k \in Keys
  PROVE  /\ now \in Nat /\ now <= MaxTime
         /\ tokens[k] \in Nat /\ tokens[k] <= Full
         /\ last[k] \in Nat /\ first[k] \in Nat
         /\ granted[k] \in Nat /\ promise[k] \in Nat
         /\ k \in known => first[k] <= last[k] /\ last[k] <= now
BY LimitFacts DEF TypeOK

\* A bucket brought up to date holds at most a burst, and at most what it
\* held and what the rate brought in since.
LEMMA RefilledFacts ==
  ASSUME TypeOK, NEW k \in Keys
  PROVE  /\ Refilled(k, now) \in Nat
         /\ Refilled(k, now) <= Full
         /\ k \notin known => Refilled(k, now) = Full
         /\ k \in known =>
              /\ (now - last[k]) * Rpm \in Nat
              /\ Refilled(k, now) <= tokens[k] + (now - last[k]) * Rpm
              /\ \/ Refilled(k, now) = Full
                 \/ Refilled(k, now) = tokens[k] + (now - last[k]) * Rpm
<1>1. CASE k \notin known
  BY <1>1, LimitFacts DEF Refilled
<1>2. CASE k \in known
  <2>1. (now - last[k]) * Rpm \in Nat
    <3> DEFINE away == now - last[k]
    <3>1. away \in Nat
      BY <1>2, ClockFacts
    <3> HIDE DEF away
    <3>2. away * Rpm \in Nat
      BY <3>1, RateOverTime, LimitFacts
    <3>3. QED
      BY <3>2 DEF away
  <2> DEFINE sum == tokens[k] + (now - last[k]) * Rpm
  <2>2. sum \in Nat
    BY <2>1, ClockFacts
  <2>3. Refilled(k, now) = IF sum > Full THEN Full ELSE sum
    BY <1>2 DEF Refilled
  <2> HIDE DEF sum
  <2>4. /\ Refilled(k, now) \in Nat
        /\ Refilled(k, now) <= Full
        /\ Refilled(k, now) <= sum
        /\ Refilled(k, now) = Full \/ Refilled(k, now) = sum
    BY <2>2, <2>3, LimitFacts
  <2>5. QED
    BY <1>2, <2>1, <2>4 DEF sum
<1>3. QED
  BY <1>1, <1>2

\* The time a refused client is told is long enough for a token, and not nil.
LEMMA RetryAfterFacts ==
  ASSUME NEW left \in Nat, left < One
  PROVE  /\ RetryAfter(left) \in Nat
         /\ Rpm > 0 => /\ RetryAfter(left) > 0
                       /\ left + RetryAfter(left) * Rpm >= One
<1>1. CASE Rpm = 0
  BY <1>1, LimitFacts DEF RetryAfter
<1>2. CASE Rpm > 0
  <2> DEFINE need == One - left + (Rpm - 1)
             wait == need \div Rpm
  <2>1. /\ need \in Nat
        /\ need = One - left + (Rpm - 1)
        /\ need >= Rpm
    BY <1>2, LimitFacts
  <2>2. RetryAfter(left) = wait
    BY <1>2 DEF RetryAfter
  <2> HIDE DEF need
  <2>3. wait \in Nat /\ need < wait * Rpm + Rpm
    BY <1>2, <2>1, DivisionFacts, LimitFacts
  <2> HIDE DEF wait
  <2>4. wait * Rpm \in Nat /\ 0 * Rpm = 0
    BY <2>3, RateOverTime, LimitFacts
  <2>5. wait # 0
    BY <2>1, <2>3, <2>4, LimitFacts
  <2>6. QED
    BY <2>1, <2>2, <2>3, <2>4, <2>5, LimitFacts
<1>3. QED
  BY <1>1, <1>2, LimitFacts

-----------------------------------------------------------------------------
\* The type invariant is inductive.
LEMMA TypeInit == Init => TypeOK
BY LimitFacts DEF Init, TypeOK

LEMMA CountType ==
  ASSUME TypeOK, NEW k \in Keys, NEW left \in 0 .. Full, Count(k, left),
         now' = now, granted' \in [Keys -> Nat], promise' \in [Keys -> Nat]
  PROVE  TypeOK'
<1>1. \A j \in known' : first'[j] <= last'[j] /\ last'[j] <= now'
  <2> SUFFICES ASSUME NEW j \in known'
               PROVE  first'[j] <= last'[j] /\ last'[j] <= now'
    OBVIOUS
  <2>1. j \in Keys /\ (j # k => j \in known)
    BY DEF Count, TypeOK
  <2>2. /\ last'[j] = IF j = k THEN now ELSE last[j]
        /\ first'[j] = IF j = k /\ k \notin known THEN now ELSE first[j]
    BY <2>1 DEF Count, TypeOK
  <2>3. QED
    BY <2>1, <2>2, ClockFacts
<1>2. QED
  BY <1>1, ClockFacts DEF Count, TypeOK

LEMMA TypeStep == TypeOK /\ [Next]_vars => TypeOK'
<1> SUFFICES ASSUME TypeOK, [Next]_vars PROVE TypeOK'
  OBVIOUS
<1>1. CASE Tick
  BY <1>1, LimitFacts, ClockFacts DEF Tick, TypeOK, buckets, history
<1>2. ASSUME NEW k \in Keys, Grant(k) PROVE TypeOK'
  <2>1. Refilled(k, now) - One \in 0 .. Full
    BY <1>2, RefilledFacts, LimitFacts DEF Grant
  <2>2. granted' \in [Keys -> Nat] /\ promise' \in [Keys -> Nat]
    BY <1>2 DEF Grant, TypeOK
  <2>3. QED
    BY <1>2, <2>1, <2>2, CountType DEF Grant
<1>3. ASSUME NEW k \in Keys, Deny(k) PROVE TypeOK'
  <2>1. Refilled(k, now) \in 0 .. Full /\ RetryAfter(Refilled(k, now)) \in Nat
    BY <1>3, RefilledFacts, RetryAfterFacts, LimitFacts DEF Deny
  <2>2. granted' \in [Keys -> Nat] /\ promise' \in [Keys -> Nat]
    BY <1>3, <2>1, ClockFacts DEF Deny, TypeOK
  <2>3. QED
    BY <1>3, <2>1, <2>2, CountType DEF Deny
<1>4. CASE UNCHANGED vars
  BY <1>4 DEF vars, buckets, history, TypeOK
<1>5. QED
  BY <1>1, <1>2, <1>3, <1>4 DEF Next

\* Every bucket of every limiter holds between nothing and a burst, and was
\* counted between the time its client was first seen and now.
THEOREM TypeCorrect == Spec => []TypeOK
BY TypeInit, TypeStep, PTL DEF Spec

-----------------------------------------------------------------------------
\* Bringing a bucket up to date costs nothing: the bound holds of what it
\* holds and was granted, as a new bucket's does.
LEMMA BoundAtNow ==
  ASSUME TypeOK, BoundInv, NEW k \in Keys
  PROVE  k \in known =>
           One * granted[k] + Refilled(k, now) <= Full + (now - first[k]) * Rpm
<1> SUFFICES ASSUME k \in known
             PROVE  One * granted[k] + Refilled(k, now)
                      <= Full + (now - first[k]) * Rpm
  OBVIOUS
<1> DEFINE before == last[k] - first[k]
           after  == now - last[k]
<1>1. before \in Nat /\ after \in Nat /\ now - first[k] = before + after
  BY ClockFacts
<1>2. /\ One * granted[k] + tokens[k] <= Full + before * Rpm
      /\ Refilled(k, now) \in Nat
      /\ Refilled(k, now) <= tokens[k] + after * Rpm
  BY RefilledFacts DEF BoundInv, RateBounded
<1> HIDE DEF before, after
<1>3. /\ before * Rpm \in Nat /\ after * Rpm \in Nat
      /\ (before + after) * Rpm = before * Rpm + after * Rpm
  BY <1>1, RateOverTime, LimitFacts
<1>4. One * granted[k] + Refilled(k, now) <= Full + (before + after) * Rpm
  BY <1>2, <1>3, ClockFacts, LimitFacts
<1>5. QED
  BY <1>1, <1>4

\* A request changes one bucket, and leaves its clock at now.
LEMMA CountFacts ==
  ASSUME TypeOK, NEW k \in Keys, NEW left \in 0 .. Full, Count(k, left)
  PROVE  /\ known' = known \cup { k }
         /\ tokens'[k] = left /\ last'[k] = now
         /\ first'[k] = IF k \in known THEN first[k] ELSE now
         /\ \A j \in Keys \ { k } : /\ tokens'[j] = tokens[j]
                                   /\ last'[j] = last[j]
                                   /\ first'[j] = first[j]
BY DEF Count, TypeOK

\* A request keeps the bound of its client, if what it is granted is taken.
LEMMA BoundAfterCount ==
  ASSUME TypeOK, BoundInv, NEW k \in Keys, NEW left \in 0 .. Full,
         Count(k, left), NEW given \in Nat,
         granted' = [granted EXCEPT ![k] = @ + given],
         One * given + left = Refilled(k, now)
  PROVE  BoundInv'
<1>1. /\ granted'[k] = granted[k] + given
      /\ \A j \in Keys \ { k } : granted'[j] = granted[j]
  BY DEF TypeOK
<1>2. One * granted'[k] + tokens'[k] <= Full + (last'[k] - first'[k]) * Rpm
  <2>1. One * granted'[k] + tokens'[k] = One * granted[k] + Refilled(k, now)
    BY <1>1, CountFacts, ClockFacts, LimitFacts
  <2>2. CASE k \in known
    BY <2>1, <2>2, BoundAtNow, CountFacts
  <2>3. CASE k \notin known
    <3>1. One * granted'[k] + tokens'[k] = Full
      BY <2>1, <2>3, RefilledFacts, LimitFacts DEF BoundInv
    <3>2. last'[k] - first'[k] = 0 /\ 0 * Rpm = 0
      BY <2>3, CountFacts, ClockFacts, LimitFacts
    <3>3. QED
      BY <3>1, <3>2, LimitFacts
  <2>4. QED
    BY <2>2, <2>3
<1>3. ASSUME NEW j \in known', j # k
      PROVE  One * granted'[j] + tokens'[j] <= Full + (last'[j] - first'[j]) * Rpm
  <2>1. j \in Keys /\ j \in known
    BY <1>3, CountFacts DEF TypeOK
  <2>2. QED
    BY <1>1, <1>3, <2>1, CountFacts DEF BoundInv, RateBounded
<1>4. \A j \in Keys \ known' : granted'[j] = 0
  BY <1>1, CountFacts DEF BoundInv
<1>5. QED
  BY <1>2, <1>3, <1>4 DEF BoundInv, RateBounded

LEMMA BoundInit == Init => BoundInv
BY DEF Init, BoundInv, RateBounded

LEMMA BoundStep == TypeOK /\ BoundInv /\ [Next]_vars => BoundInv'
<1> SUFFICES ASSUME TypeOK, BoundInv, [Next]_vars PROVE BoundInv'
  OBVIOUS
<1>1. CASE Tick
  BY <1>1 DEF Tick, BoundInv, RateBounded, buckets, history
<1>2. ASSUME NEW k \in Keys, Grant(k) PROVE BoundInv'
  <2> DEFINE left == Refilled(k, now) - One
  <2>1. left \in 0 .. Full /\ One * 1 + left = Refilled(k, now)
    BY <1>2, RefilledFacts, LimitFacts DEF Grant
  <2>2. Count(k, left) /\ granted' = [granted EXCEPT ![k] = @ + 1]
    BY <1>2 DEF Grant
  <2> HIDE DEF left
  <2>3. QED
    BY <2>1, <2>2, BoundAfterCount
<1>3. ASSUME NEW k \in Keys, Deny(k) PROVE BoundInv'
  <2> DEFINE left == Refilled(k, now)
  <2>1. left \in 0 .. Full /\ One * 0 + left = Refilled(k, now)
    BY RefilledFacts, LimitFacts
  <2>2. Count(k, left) /\ granted' = [granted EXCEPT ![k] = @ + 0]
    BY <1>3 DEF Deny, TypeOK
  <2> HIDE DEF left
  <2>3. QED
    BY <2>1, <2>2, BoundAfterCount
<1>4. CASE UNCHANGED vars
  BY <1>4 DEF vars, buckets, history, BoundInv, RateBounded
<1>5. QED
  BY <1>1, <1>2, <1>3, <1>4 DEF Next

\* No client is granted more than a burst and the rate over the time since it
\* was first seen, for any rate, burst and spacing of requests.
THEOREM RateIsBounded == Spec => []RateBounded
<1>1. BoundInv => RateBounded
  BY DEF BoundInv
<1>2. QED
  BY <1>1, TypeCorrect, BoundInit, BoundStep, PTL DEF Spec

-----------------------------------------------------------------------------
\* Of a promise still open: it is in the future as long as the bucket has no
\* token, and what is in the bucket now is on the way to one.
LEMMA PromiseAtNow ==
  ASSUME TypeOK, PromiseInv, Rpm > 0, Burst > 0,
         NEW k \in Keys, promise[k] # 0, Refilled(k, now) < One
  PROVE  /\ now < promise[k]
         /\ Refilled(k, now) + (promise[k] - now) * Rpm >= One
<1> DEFINE away == now - last[k]
           left == promise[k] - last[k]
<1>1. /\ k \in known
      /\ away \in Nat /\ left \in Nat
      /\ tokens[k] + left * Rpm >= One
  BY ClockFacts DEF PromiseInv
<1>2. Refilled(k, now) = tokens[k] + away * Rpm /\ Refilled(k, now) \in Nat
  BY <1>1, RefilledFacts, LimitFacts
<1>3. /\ now < promise[k] <=> away < left
      /\ promise[k] - now = left - away
  BY ClockFacts
<1> HIDE DEF away, left
<1>4. CASE left <= away
  <2> DEFINE over == away - left
  <2>1. over \in Nat /\ away = left + over
    BY <1>1, <1>4
  <2> HIDE DEF over
  <2>2. /\ away * Rpm = left * Rpm + over * Rpm
        /\ left * Rpm \in Nat /\ over * Rpm \in Nat
    BY <1>1, <2>1, RateOverTime, LimitFacts
  <2>3. QED
    BY <1>1, <1>2, <2>2, ClockFacts, LimitFacts
<1>5. CASE away < left
  <2> DEFINE rest == left - away
  <2>1. rest \in Nat /\ left = away + rest
    BY <1>1, <1>5
  <2>2. promise[k] - now = rest
    BY <1>3
  <2> HIDE DEF rest
  <2>3. /\ left * Rpm = away * Rpm + rest * Rpm
        /\ away * Rpm \in Nat /\ rest * Rpm \in Nat
    BY <1>1, <2>1, RateOverTime, LimitFacts
  <2>4. Refilled(k, now) + rest * Rpm >= One
    BY <1>1, <1>2, <2>3, ClockFacts, LimitFacts
  <2>5. QED
    BY <1>3, <1>5, <2>2, <2>4
<1>6. QED
  BY <1>1, <1>4, <1>5

LEMMA PromiseInit == Init => PromiseInv
BY DEF Init, PromiseInv

LEMMA PromiseStep == TypeOK /\ PromiseInv /\ [Next]_vars => PromiseInv'
<1> SUFFICES ASSUME TypeOK, PromiseInv, [Next]_vars, Rpm > 0, Burst > 0,
                    NEW j \in Keys, promise'[j] # 0
             PROVE  /\ j \in known'
                    /\ last'[j] < promise'[j]
                    /\ tokens'[j] + (promise'[j] - last'[j]) * Rpm >= One
  BY DEF PromiseInv
<1>1. CASE Tick
  BY <1>1 DEF Tick, PromiseInv, buckets, history
<1>2. ASSUME NEW k \in Keys, Grant(k)
      PROVE  /\ j \in known'
             /\ last'[j] < promise'[j]
             /\ tokens'[j] + (promise'[j] - last'[j]) * Rpm >= One
  <2>1. j # k /\ promise'[j] = promise[j]
    BY <1>2 DEF Grant, TypeOK
  <2>2. Refilled(k, now) - One \in 0 .. Full /\ Count(k, Refilled(k, now) - One)
    BY <1>2, RefilledFacts, LimitFacts DEF Grant
  <2>3. QED
    BY <2>1, <2>2, CountFacts DEF PromiseInv
<1>3. ASSUME NEW k \in Keys, Deny(k)
      PROVE  /\ j \in known'
             /\ last'[j] < promise'[j]
             /\ tokens'[j] + (promise'[j] - last'[j]) * Rpm >= One
  <2> DEFINE left == Refilled(k, now)
  <2>1. left \in 0 .. Full /\ left \in Nat /\ left < One /\ Count(k, left)
    BY <1>3, RefilledFacts, LimitFacts DEF Deny
  <2>2. promise' = [promise EXCEPT ![k] = IF @ # 0 THEN @
                                          ELSE now + RetryAfter(left)]
    BY <1>3 DEF Deny
  <2>3. CASE j # k
    BY <2>1, <2>2, <2>3, CountFacts DEF PromiseInv, TypeOK
  <2>4. CASE j = k /\ promise[k] # 0
    <3>1. promise'[j] = promise[k]
      BY <2>2, <2>4 DEF TypeOK
    <3>2. now < promise[k] /\ left + (promise[k] - now) * Rpm >= One
      BY <2>1, <2>4, PromiseAtNow
    <3>3. QED
      BY <2>1, <2>4, <3>1, <3>2, CountFacts
  <2>5. CASE j = k /\ promise[k] = 0
    <3> DEFINE wait == RetryAfter(left)
    <3>1. promise'[j] = now + wait
      BY <2>2, <2>5 DEF TypeOK
    <3>2. wait \in Nat /\ wait > 0 /\ left + wait * Rpm >= One
      BY <2>1, RetryAfterFacts
    <3> HIDE DEF wait
    <3>3. now < now + wait /\ (now + wait) - now = wait
      BY <3>2, ClockFacts
    <3>4. QED
      BY <2>1, <2>5, <3>1, <3>2, <3>3, CountFacts
  <2>6. QED
    BY <2>3, <2>4, <2>5
<1>4. CASE UNCHANGED vars
  BY <1>4 DEF vars, buckets, history, PromiseInv
<1>5. QED
  BY <1>1, <1>2, <1>3, <1>4 DEF Next

\* A client that waits for as long as its first refusal told it is granted its
\* next request, for any rate and burst, asking again meanwhile or not.
THEOREM RetryAfterIsHonoured == Spec => []RetryHonoured
<1>1. TypeOK /\ PromiseInv => RetryHonoured
  <2> SUFFICES ASSUME TypeOK, PromiseInv, Rpm > 0, Burst > 0,
                      NEW k \in Keys, promise[k] # 0, promise[k] <= now
               PROVE  Refilled(k, now) >= One
    BY DEF RetryHonoured
  <2>1. ~ (Refilled(k, now) < One)
    BY PromiseAtNow, ClockFacts
  <2>2. QED
    BY <2>1, RefilledFacts, LimitFacts
<1>2. QED
  BY <1>1, TypeCorrect, PromiseInit, PromiseStep, PTL DEF Spec
=============================================================================
