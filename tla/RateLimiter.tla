----------------------------- MODULE RateLimiter -----------------------------
(***************************************************************************)
(* The token-bucket rate limiter in front of every HTTP route              *)
(* (app/security/rate_limit.py).                                           *)
(*                                                                         *)
(* Time is counted in seconds and tokens in sixtieths, so that a bucket    *)
(* refills by exactly requests_per_minute a second: the arithmetic is the  *)
(* code's, without its floating-point rounding.  allow() does not await,   *)
(* so a request is one step.  The size guard in front of it answers 413    *)
(* and touches no bucket.                                                  *)
(***************************************************************************)
EXTENDS Naturals

CONSTANTS
  Keys,     \* client hosts
  Rpm,      \* requests_per_minute
  Burst,    \* burst
  MaxTime   \* the clock stops here

ASSUME LimitsAssumption == Rpm \in Nat /\ Burst \in Nat /\ MaxTime \in Nat

One  == 60           \* what a request costs
Full == One * Burst  \* a full bucket

VARIABLES
  now,      \* time.monotonic()
  known,    \* the keys that have a bucket
  tokens,   \* _buckets: the tokens left in each ...
  last,     \* ... and when they were counted
  granted,  \* requests each key was granted
  first,    \* when each key was first seen
  promise   \* when the Retry-After first given since the last grant is over

buckets == << known, tokens, last >>
history == << granted, first, promise >>
vars == << now, buckets, history >>

TypeOK ==
  /\ now \in 0 .. MaxTime
  /\ known \subseteq Keys
  /\ tokens \in [Keys -> 0 .. Full]
  /\ last \in [Keys -> 0 .. MaxTime]
  /\ granted \in [Keys -> Nat]
  /\ first \in [Keys -> 0 .. MaxTime]
  /\ promise \in [Keys -> Nat]
  /\ \A k \in known : first[k] <= last[k] /\ last[k] <= now

Init ==
  /\ now = 0
  /\ known = {}
  /\ tokens = [k \in Keys |-> Full]
  /\ last = [k \in Keys |-> 0]
  /\ granted = [k \in Keys |-> 0]
  /\ first = [k \in Keys |-> 0]
  /\ promise = [k \in Keys |-> 0]

\* A bucket that keeps filling while its client is away.
MutRefilledUncapped(k, t) ==
  IF k \in known THEN tokens[k] + (t - last[k]) * Rpm ELSE Full

\* What k's bucket holds at time t, if nothing is taken from it meanwhile.
Refilled(k, t) ==
  LET sum == tokens[k] + (t - last[k]) * Rpm IN
    IF k \notin known \/ sum > Full THEN Full ELSE sum

\* A Retry-After rounded to the second below.
MutRetryAfterRoundsDown(left) == IF Rpm > 0 THEN (One - left) \div Rpm ELSE 60

\* The Retry-After header: the seconds until a token is there, rounded up.
RetryAfter(left) == IF Rpm > 0 THEN (One - left + (Rpm - 1)) \div Rpm ELSE 60

-----------------------------------------------------------------------------
\* k's bucket is brought up to date, and left with so many tokens.
Count(k, left) ==
  /\ known' = known \cup { k }
  /\ tokens' = [tokens EXCEPT ![k] = left]
  /\ last' = [last EXCEPT ![k] = now]
  /\ first' = [first EXCEPT ![k] = IF k \in known THEN @ ELSE now]

\* allow() takes a token ...
Grant(k) ==
  /\ Refilled(k, now) >= One
  /\ Count(k, Refilled(k, now) - One)
  /\ granted' = [granted EXCEPT ![k] = @ + 1]
  /\ promise' = [promise EXCEPT ![k] = 0]
  /\ UNCHANGED now

\* A refusal that tops the bucket up and does not move its clock.
MutDenyKeepsClock(k) ==
  /\ Refilled(k, now) < One
  /\ known' = known \cup { k }
  /\ tokens' = [tokens EXCEPT ![k] = Refilled(k, now)]
  /\ first' = [first EXCEPT ![k] = IF k \in known THEN @ ELSE now]
  /\ promise' = [promise EXCEPT ![k] = IF @ # 0 THEN @
                                       ELSE now + RetryAfter(Refilled(k, now))]
  /\ UNCHANGED << now, last, granted >>

\* ... or refuses, keeping the fraction, and the caller is told when to retry.
Deny(k) ==
  /\ Refilled(k, now) < One
  /\ Count(k, Refilled(k, now))
  /\ promise' = [promise EXCEPT ![k] = IF @ # 0 THEN @
                                       ELSE now + RetryAfter(Refilled(k, now))]
  /\ UNCHANGED << now, granted >>

Tick ==
  /\ now < MaxTime
  /\ now' = now + 1
  /\ UNCHANGED << buckets, history >>

Next == Tick \/ \E k \in Keys : Grant(k) \/ Deny(k)

Spec == Init /\ [][Next]_vars

-----------------------------------------------------------------------------
(* Properties.                                                             *)

\* The limit is a limit: since it was first seen, no client was granted more
\* than a burst and the rate over the time that passed, however its requests
\* were spaced and however many were refused.
RateBounded ==
  \A k \in known :
    One * granted[k] + tokens[k] <= Full + (last[k] - first[k]) * Rpm

\* Retry-After is kept: a client that waits for as long as it was first told
\* is granted its next request, even if it asked, in vain, in between.
RetryHonoured ==
  Rpm > 0 /\ Burst > 0 =>
    \A k \in Keys :
      promise[k] # 0 /\ promise[k] <= now => Refilled(k, now) >= One

\* The inductive invariant behind RateBounded: it also holds of a client that
\* has no bucket yet.
BoundInv == RateBounded /\ \A k \in Keys \ known : granted[k] = 0

\* The inductive invariant behind RetryHonoured: what is in the bucket and what
\* comes in by the time promised make up a token.
PromiseInv ==
  Rpm > 0 /\ Burst > 0 =>
    \A k \in Keys :
      promise[k] # 0 =>
        /\ k \in known
        /\ last[k] < promise[k]
        /\ tokens[k] + (promise[k] - last[k]) * Rpm >= One
=============================================================================
