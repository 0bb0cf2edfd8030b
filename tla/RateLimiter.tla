---------------------------- MODULE RateLimiter ----------------------------
(***************************************************************************)
(* The rate and blast-radius limiter (safety/rate_limiter.py): one token   *)
(* bucket with an in-flight counter per target, and one action budget for  *)
(* the engagement.  The module is the shared object: its state and its two *)
(* methods.  Who calls them, and when, is the business of the modules that *)
(* EXTEND it.                                                              *)
(*                                                                         *)
(* The limiter computes with floats.  Here a bucket counts in units, Token *)
(* of them to a request, and time in ticks of the caller's clock, so that  *)
(* max_requests_per_second_per_target is Refill * Second / Token and every *)
(* quantity is an integer.  Rounding of floats is not modelled.            *)
(***************************************************************************)
EXTENDS Integers

CONSTANTS
  Targets,          \* the target keys
  Token,            \* units in one token
  Refill,           \* units a bucket gains per tick
  Second,           \* ticks in a second
  MaxConcurrency,   \* Budget.max_concurrency_per_target
  MaxTotalActions,  \* Budget.max_total_actions
  NoBucket          \* the target has no entry in _buckets yet

\* A bucket starts full and never holds more than one second of refill.
Burst == Refill * Second

BucketRecord == [tokens : 0..Burst, last : Nat, in_flight : 0..MaxConcurrency]

ASSUME LimiterAssumption ==
  /\ Token \in Nat \ {0}
  /\ Refill \in Nat
  /\ Second \in Nat \ {0}
  /\ MaxConcurrency \in Nat
  /\ MaxTotalActions \in Nat
  /\ NoBucket \notin BucketRecord

VARIABLES
  buckets,          \* _buckets: a bucket per target that was ever asked for
  totalActions      \* _total_actions

limiterVars == <<buckets, totalActions>>

LimiterInit ==
  /\ buckets = [t \in Targets |-> NoBucket]
  /\ totalActions = 0

\* _bucket: the entry of t, created full at time now if there is none.
BucketAt(t, now) ==
  IF buckets[t] = NoBucket
    THEN [tokens |-> Burst, last |-> now, in_flight |-> 0]
    ELSE buckets[t]

\* Mutant: the elapsed time is not clamped at zero.
RefilledTokensUnclamped(b, now) ==
  LET tokens == b.tokens + Refill * (now - b.last)
  IN  IF tokens > Burst THEN Burst ELSE tokens

\* The tokens of bucket b at time now.  A clock value older than the bucket
\* adds nothing (elapsed is clamped at zero) ...
RefilledTokens(b, now) ==
  LET gained == IF now > b.last THEN Refill * (now - b.last) ELSE 0
  IN  IF b.tokens + gained > Burst THEN Burst ELSE b.tokens + gained

\* Mutant: the bucket is refilled and its time is not moved.
RefilledStale(t, now) ==
  LET b == BucketAt(t, now)
  IN  [b EXCEPT !.tokens = RefilledTokens(b, now)]

\* ... but still becomes the bucket's time, so that last can move backwards.
Refilled(t, now) ==
  LET b == BucketAt(t, now)
  IN  [b EXCEPT !.tokens = RefilledTokens(b, now), !.last = now]

\* Mutant: off by one.
BudgetLeftOrEqual == totalActions <= MaxTotalActions

BudgetLeft == totalActions < MaxTotalActions

\* Mutant: off by one at the concurrency cap.
BelowCeilingsOrEqual(t, now) ==
  /\ Refilled(t, now).in_flight <= MaxConcurrency
  /\ Refilled(t, now).tokens >= Token

BelowCeilings(t, now) ==
  /\ Refilled(t, now).in_flight < MaxConcurrency
  /\ Refilled(t, now).tokens >= Token

\* acquire returns: one token, one in-flight slot and one action are taken.
Acquire(t, now) ==
  /\ BudgetLeft
  /\ BelowCeilings(t, now)
  /\ buckets' = [buckets EXCEPT
                   ![t] = [Refilled(t, now) EXCEPT !.tokens = @ - Token,
                                                   !.in_flight = @ + 1]]
  /\ totalActions' = totalActions + 1

\* acquire raises BudgetExceeded before it looks at any bucket.
RefuseBudget ==
  /\ ~BudgetLeft
  /\ UNCHANGED limiterVars

\* acquire raises RateLimited after it created or refilled the bucket.
RefuseRate(t, now) ==
  /\ BudgetLeft
  /\ ~BelowCeilings(t, now)
  /\ buckets' = [buckets EXCEPT ![t] = Refilled(t, now)]
  /\ UNCHANGED totalActions

\* Mutant: no floor at zero.
ReleaseNoFloor(t) ==
  /\ buckets' = IF buckets[t] # NoBucket
                  THEN [buckets EXCEPT ![t].in_flight = @ - 1] ELSE buckets
  /\ UNCHANGED totalActions

\* release gives an in-flight slot back; the counter has a floor at zero.
Release(t) ==
  /\ buckets' = IF buckets[t] # NoBucket /\ buckets[t].in_flight > 0
                  THEN [buckets EXCEPT ![t].in_flight = @ - 1]
                  ELSE buckets
  /\ UNCHANGED totalActions

InFlight(t) == IF buckets[t] = NoBucket THEN 0 ELSE buckets[t].in_flight

LimiterTypeOK ==
  /\ buckets \in [Targets -> BucketRecord \cup {NoBucket}]
  /\ totalActions \in 0..MaxTotalActions
=============================================================================
