------------------------ MODULE LimitedActionsProofs ------------------------
(***************************************************************************)
(* Theorems about LimitedActions: what the rate limiter guarantees for any *)
(* set of calls, any targets and any ceilings, in any interleaving.        *)
(***************************************************************************)
EXTENDS LimitedActions, FiniteSetTheorems, TLAPS
-----------------------------------------------------------------------------
(* What the two methods of the rate limiter do to its state.               *)

\* A refill is never negative.
LEMMA RefillNat ==
  ASSUME NEW n \in Nat
  PROVE  Refill * n \in Nat
BY LimiterAssumption, SMT

\* The capacity of a bucket is a natural number.
LEMMA BurstNat == Burst \in Nat
BY LimiterAssumption, RefillNat, SMT DEF Burst

\* The bucket acquire works on is a bucket, also when it is created for it.
LEMMA BucketAtType ==
  ASSUME LimiterTypeOK, NEW t \in Targets, NEW now \in Nat
  PROVE  BucketAt(t, now) \in BucketRecord
<1>1. CASE buckets[t] = NoBucket
  <2>1. 0 \in 0..MaxConcurrency /\ Burst \in 0..Burst
    BY LimiterAssumption, BurstNat
  <2> QED BY <1>1, <2>1 DEF BucketAt, BucketRecord
<1>2. CASE buckets[t] # NoBucket
  BY <1>2 DEF BucketAt, LimiterTypeOK
<1> QED BY <1>1, <1>2

\* A refill keeps the tokens between zero and the burst (acquire clamps both
\* the elapsed time and the sum), and moves nothing but tokens and last.
LEMMA RefilledType ==
  ASSUME LimiterTypeOK, NEW t \in Targets, NEW now \in Nat
  PROVE  /\ Refilled(t, now) \in BucketRecord
         /\ Refilled(t, now).last = now
         /\ Refilled(t, now).in_flight = BucketAt(t, now).in_flight
         /\ Refilled(t, now).tokens = RefilledTokens(BucketAt(t, now), now)
<1> DEFINE b == BucketAt(t, now)
           gained == IF now > b.last THEN Refill * (now - b.last) ELSE 0
<1>1. b \in BucketRecord
  BY BucketAtType
<1>2. b.tokens \in 0..Burst /\ b.last \in Nat /\ b.in_flight \in 0..MaxConcurrency
  BY <1>1 DEF BucketRecord
<1>3. gained \in Nat
  <2>1. CASE now > b.last
    <3>1. now - b.last \in Nat
      BY <1>2, <2>1
    <3> QED BY <2>1, <3>1, RefillNat
  <2>2. CASE ~(now > b.last)
    BY <2>2
  <2> QED BY <2>1, <2>2
<1>4. RefilledTokens(b, now) \in 0..Burst
  <2>1. RefilledTokens(b, now) = IF b.tokens + gained > Burst THEN Burst ELSE b.tokens + gained
    BY DEF RefilledTokens
  <2> HIDE DEF gained
  <2> QED BY <1>2, <1>3, <2>1, BurstNat
<1>5. Refilled(t, now) = [b EXCEPT !.tokens = RefilledTokens(b, now), !.last = now]
  BY DEF Refilled
<1> HIDE DEF b
<1>6. Refilled(t, now) = [tokens |-> RefilledTokens(b, now), last |-> now, in_flight |-> b.in_flight]
  BY <1>1, <1>5 DEF BucketRecord
<1> QED BY <1>2, <1>4, <1>6 DEF BucketRecord, b

\* acquire, admitting: it writes the refilled bucket less one token and with
\* one more in flight, and counts one action.
LEMMA AcquireEffect ==
  ASSUME LimiterTypeOK, NEW t \in Targets, NEW now \in Nat, Acquire(t, now)
  PROVE  \E b \in BucketRecord :
           /\ buckets' = [buckets EXCEPT ![t] = b]
           /\ b.tokens = Refilled(t, now).tokens - Token
           /\ b.in_flight = Refilled(t, now).in_flight + 1
           /\ b.last = now
<1> DEFINE r == Refilled(t, now)
           tokens == r.tokens - Token
           inFlight == r.in_flight + 1
           b2 == [r EXCEPT !.tokens = tokens, !.in_flight = inFlight]
<1>1. r \in BucketRecord /\ r.last = now
  BY RefilledType
<1>2. r.in_flight < MaxConcurrency /\ r.tokens >= Token
  BY DEF Acquire, BelowCeilings
<1>3. buckets' = [buckets EXCEPT ![t] = b2]
  BY DEF Acquire
<1> HIDE DEF r
<1>4. tokens \in 0..Burst /\ inFlight \in 0..MaxConcurrency
  <2>1. r.tokens \in 0..Burst /\ r.in_flight \in 0..MaxConcurrency
    BY <1>1 DEF BucketRecord
  <2> QED BY <1>2, <2>1, LimiterAssumption, BurstNat
<1> HIDE DEF tokens, inFlight
<1>5. b2 \in BucketRecord /\ b2.tokens = tokens /\ b2.in_flight = inFlight /\ b2.last = r.last
  BY <1>1, <1>4 DEF BucketRecord
<1> QED BY <1>1, <1>3, <1>5 DEF r, tokens, inFlight

\* acquire, admitting: the types are kept and one action is counted.
LEMMA AcquireType ==
  ASSUME LimiterTypeOK, NEW t \in Targets, NEW now \in Nat, Acquire(t, now)
  PROVE  LimiterTypeOK' /\ totalActions' = totalActions + 1 /\ totalActions < MaxTotalActions
<1>1. totalActions \in 0..MaxTotalActions /\ totalActions < MaxTotalActions
      /\ totalActions' = totalActions + 1
  BY DEF Acquire, BudgetLeft, LimiterTypeOK
<1>2. totalActions' \in 0..MaxTotalActions
  BY <1>1, LimiterAssumption
<1> QED BY <1>1, <1>2, AcquireEffect DEF LimiterTypeOK

\* acquire, refusing for the rate: the refill stays, no action is counted.
LEMMA RefuseRateType ==
  ASSUME LimiterTypeOK, NEW t \in Targets, NEW now \in Nat, RefuseRate(t, now)
  PROVE  LimiterTypeOK' /\ totalActions' = totalActions
BY RefilledType DEF RefuseRate, LimiterTypeOK

\* release, on a bucket with something in flight: one less, nothing else.
LEMMA ReleaseEffect ==
  ASSUME LimiterTypeOK, NEW t \in Targets, Release(t),
         buckets[t] # NoBucket, buckets[t].in_flight > 0
  PROVE  \E b \in BucketRecord :
           /\ buckets' = [buckets EXCEPT ![t] = b]
           /\ b.tokens = buckets[t].tokens
           /\ b.in_flight = buckets[t].in_flight - 1
           /\ b.last = buckets[t].last
<1> DEFINE r == buckets[t]
           inFlight == r.in_flight - 1
           b2 == [r EXCEPT !.in_flight = inFlight]
<1>1. r \in BucketRecord
  BY DEF LimiterTypeOK
<1>2. buckets' = [buckets EXCEPT ![t] = b2]
  BY DEF Release
<1>3. inFlight \in 0..MaxConcurrency
  BY <1>1, LimiterAssumption DEF BucketRecord
<1> HIDE DEF inFlight, r
<1>4. b2 \in BucketRecord /\ b2.tokens = r.tokens /\ b2.in_flight = inFlight /\ b2.last = r.last
  BY <1>1, <1>3 DEF BucketRecord
<1> QED BY <1>2, <1>4 DEF r, inFlight

\* release: the in-flight counter stays within its range.
LEMMA ReleaseType ==
  ASSUME LimiterTypeOK, NEW t \in Targets, Release(t)
  PROVE  LimiterTypeOK' /\ totalActions' = totalActions
<1>1. CASE buckets[t] # NoBucket /\ buckets[t].in_flight > 0
  BY <1>1, ReleaseEffect DEF Release, LimiterTypeOK
<1>2. CASE ~(buckets[t] # NoBucket /\ buckets[t].in_flight > 0)
  BY <1>2 DEF Release, LimiterTypeOK
<1> QED BY <1>1, <1>2
-----------------------------------------------------------------------------
\* The in-flight counter of a target is a natural number up to the ceiling.
LEMMA InFlightType ==
  ASSUME LimiterTypeOK, NEW t \in Targets
  PROVE  InFlight(t) \in 0..MaxConcurrency
BY LimiterAssumption DEF InFlight, LimiterTypeOK, BucketRecord

\* A refill leaves the in-flight counter of the target as it was.
LEMMA RefilledInFlight ==
  ASSUME LimiterTypeOK, NEW t \in Targets, NEW now \in Nat
  PROVE  Refilled(t, now).in_flight = InFlight(t)
<1>1. BucketAt(t, now).in_flight = InFlight(t)
  BY DEF BucketAt, InFlight
<1> QED BY <1>1, RefilledType

\* acquire counts one more in flight on its target, and on no other.
LEMMA AcquireInFlight ==
  ASSUME LimiterTypeOK, NEW t \in Targets, NEW now \in Nat, Acquire(t, now)
  PROVE  /\ InFlight(t)' = InFlight(t) + 1
         /\ \A u \in Targets : u # t => InFlight(u)' = InFlight(u)
<1>1. PICK b \in BucketRecord : /\ buckets' = [buckets EXCEPT ![t] = b]
                               /\ b.in_flight = InFlight(t) + 1
  BY AcquireEffect, RefilledInFlight
<1>2. buckets'[t] = b /\ b # NoBucket
  BY <1>1, LimiterAssumption DEF LimiterTypeOK
<1>3. \A u \in Targets : u # t => buckets'[u] = buckets[u]
  BY <1>1 DEF LimiterTypeOK
<1> QED BY <1>1, <1>2, <1>3 DEF InFlight

\* A refusal for the rate changes no in-flight counter.
LEMMA RefuseRateInFlight ==
  ASSUME LimiterTypeOK, NEW t \in Targets, NEW now \in Nat, RefuseRate(t, now)
  PROVE  \A u \in Targets : InFlight(u)' = InFlight(u)
<1>1. buckets' = [buckets EXCEPT ![t] = Refilled(t, now)]
  BY DEF RefuseRate
<1>2. Refilled(t, now) # NoBucket
  BY RefilledType, LimiterAssumption
<1> QED BY <1>1, <1>2, RefilledInFlight DEF InFlight, LimiterTypeOK

\* release counts one less in flight on its target, down to zero, and leaves
\* every other target alone.
LEMMA ReleaseInFlight ==
  ASSUME LimiterTypeOK, NEW t \in Targets, Release(t)
  PROVE  /\ InFlight(t)' = IF InFlight(t) > 0 THEN InFlight(t) - 1 ELSE 0
         /\ \A u \in Targets : u # t => InFlight(u)' = InFlight(u)
<1>1. CASE buckets[t] # NoBucket /\ buckets[t].in_flight > 0
  <2>1. PICK b \in BucketRecord : /\ buckets' = [buckets EXCEPT ![t] = b]
                                 /\ b.in_flight = buckets[t].in_flight - 1
    BY <1>1, ReleaseEffect
  <2>2. buckets'[t] = b /\ b # NoBucket
    BY <2>1, LimiterAssumption DEF LimiterTypeOK
  <2>3. \A u \in Targets : u # t => buckets'[u] = buckets[u]
    BY <2>1 DEF LimiterTypeOK
  <2> QED BY <1>1, <2>1, <2>2, <2>3 DEF InFlight
<1>2. CASE ~(buckets[t] # NoBucket /\ buckets[t].in_flight > 0)
  <2>1. buckets' = buckets
    BY <1>2 DEF Release
  <2> QED BY <1>2, <2>1, InFlightType DEF InFlight
<1> QED BY <1>1, <1>2
-----------------------------------------------------------------------------
(* The calls.                                                              *)

\* Every variable starts with a value of its type.
LEMMA TypeInit == Init => TypeOK
<1> SUFFICES ASSUME Init PROVE TypeOK
  OBVIOUS
<1>1. LimiterTypeOK
  BY LimiterAssumption DEF Init, LimiterInit, LimiterTypeOK
<1>2. clock \in 0..MaxClock /\ readAt \in [Calls -> 0..MaxClock]
  BY CallsAssumption DEF Init
<1> QED BY <1>1, <1>2 DEF Init, TypeOK, Stages

\* A step of a call, or a tick, keeps the types.
LEMMA TypeNext == TypeOK /\ [Next]_vars => TypeOK'
<1> SUFFICES ASSUME TypeOK, [Next]_vars PROVE TypeOK'
  OBVIOUS
<1> USE DEF Move
<1>0. \A c \in Calls : target[c] \in Targets /\ readAt[c] \in Nat
  BY CallsAssumption DEF TypeOK
<1>1. CASE Tick
  BY <1>1, CallsAssumption DEF Tick, TypeOK, LimiterTypeOK, limiterVars
<1>2. ASSUME NEW c \in Calls, ReadClock(c) PROVE TypeOK'
  BY <1>2 DEF ReadClock, TypeOK, LimiterTypeOK, limiterVars, Stages
<1>3. ASSUME NEW c \in Calls, Admit(c) PROVE TypeOK'
  <2>1. LimiterTypeOK'
    BY <1>0, <1>3, AcquireType DEF Admit, TypeOK
  <2> QED BY <1>0, <1>3, <2>1 DEF Admit, NoteOrder, TypeOK, Stages
<1>4. ASSUME NEW c \in Calls, Refuse(c) PROVE TypeOK'
  <2>1. LimiterTypeOK'
    BY <1>0, <1>4, RefuseRateType DEF Refuse, RefuseBudget, TypeOK, LimiterTypeOK, limiterVars
  <2> QED BY <1>0, <1>4, <2>1 DEF Refuse, NoteOrder, TypeOK, Stages
<1>5. ASSUME NEW c \in Calls, Return(c) \/ Fail(c) \/ FailAgain(c) PROVE TypeOK'
  <2>1. LimiterTypeOK'
    BY <1>0, <1>5, ReleaseType DEF Return, Fail, FailAgain, TypeOK
  <2> QED BY <1>5, <2>1 DEF Return, Fail, FailAgain, TypeOK, Stages
<1>6. CASE UNCHANGED vars
  BY <1>6 DEF vars, TypeOK, LimiterTypeOK
<1> QED BY <1>1, <1>2, <1>3, <1>4, <1>5, <1>6 DEF Next

\* Type correctness of the limiter and of its callers.
THEOREM TypeCorrect == Spec => []TypeOK
BY TypeInit, TypeNext, PTL DEF Spec
-----------------------------------------------------------------------------
\* The inductive form of BudgetRespected and SlotAccounting.
CountInv ==
  /\ totalActions = Cardinality(Admitted)
  /\ SlotAccounting

\* Sets of calls are finite, so their cardinalities are numbers that count.
LEMMA CallSetsFinite ==
  /\ IsFiniteSet(Admitted) /\ Cardinality(Admitted) \in Nat
  /\ \A t \in Targets : /\ IsFiniteSet(Holding(t)) /\ Cardinality(Holding(t)) \in Nat
                        /\ IsFiniteSet(Failed(t)) /\ Cardinality(Failed(t)) \in Nat
BY CallsAssumption, FS_Subset, FS_CardinalityType DEF Admitted, Holding, Failed

\* What one step of a call does to the sets the counters stand for.
LEMMA AdmitSets ==
  ASSUME TypeOK, NEW c \in Calls, Admit(c)
  PROVE  /\ c \notin Admitted /\ Admitted' = Admitted \cup {c}
         /\ \A t \in Targets :
              /\ target[c] = t => c \notin Holding(t) /\ Holding(t)' = Holding(t) \cup {c}
              /\ target[c] # t => Holding(t)' = Holding(t)
              /\ Failed(t)' = Failed(t)
BY DEF TypeOK, Admit, Move, Admitted, Holding, Failed

LEMMA EndSets ==
  ASSUME TypeOK, NEW c \in Calls, Return(c) \/ Fail(c)
  PROVE  /\ Admitted' = Admitted
         /\ \A t \in Targets :
              /\ target[c] = t => c \in Holding(t) /\ Holding(t)' = Holding(t) \ {c}
              /\ target[c] # t => Holding(t)' = Holding(t)
              /\ Failed(t)' = Failed(t)
BY DEF TypeOK, Return, Fail, Move, Admitted, Holding, Failed

LEMMA FailAgainSets ==
  ASSUME TypeOK, NEW c \in Calls, FailAgain(c)
  PROVE  /\ Admitted' = Admitted
         /\ \A t \in Targets :
              /\ Holding(t)' = Holding(t)
              /\ target[c] = t => c \notin Failed(t) /\ Failed(t)' = Failed(t) \cup {c}
              /\ target[c] # t => Failed(t)' = Failed(t)
BY DEF TypeOK, FailAgain, Move, Admitted, Holding, Failed

\* Every step keeps the counters in accord with the calls: the second release
\* of a failed call is what the Failed sets account for.
LEMMA CountNext == TypeOK /\ CountInv /\ [Next]_vars => CountInv'
<1> SUFFICES ASSUME TypeOK, CountInv, [Next]_vars PROVE CountInv'
  OBVIOUS
<1>0. LimiterTypeOK /\ \A c \in Calls : target[c] \in Targets /\ readAt[c] \in Nat
  BY CallsAssumption DEF TypeOK
<1>a. totalActions = Cardinality(Admitted)
      /\ \A t \in Targets : /\ InFlight(t) <= Cardinality(Holding(t))
                            /\ Cardinality(Holding(t)) <= InFlight(t) + Cardinality(Failed(t))
  BY DEF CountInv, SlotAccounting
<1>b. \A t \in Targets : InFlight(t) \in Nat
  BY <1>0, InFlightType, LimiterAssumption
<1>1. ASSUME totalActions' = totalActions, Admitted' = Admitted,
             \A t \in Targets : /\ InFlight(t)' = InFlight(t)
                                /\ Holding(t)' = Holding(t) /\ Failed(t)' = Failed(t)
      PROVE  CountInv'
  BY <1>1, <1>a DEF CountInv, SlotAccounting
<1>2. CASE Tick \/ UNCHANGED vars
  BY <1>1, <1>2 DEF Tick, vars, limiterVars, Admitted, Holding, Failed, InFlight
<1>3. ASSUME NEW c \in Calls, ReadClock(c) PROVE CountInv'
  BY <1>1, <1>3 DEF ReadClock, Move, TypeOK, limiterVars, Admitted, Holding, Failed, InFlight
<1>4. ASSUME NEW c \in Calls, Admit(c) PROVE CountInv'
  <2>1. totalActions' = totalActions + 1
        /\ \A t \in Targets : InFlight(t)' = IF target[c] = t THEN InFlight(t) + 1 ELSE InFlight(t)
    BY <1>0, <1>4, AcquireType, AcquireInFlight DEF Admit
  <2>2. Cardinality(Admitted') = Cardinality(Admitted) + 1
    BY <1>4, AdmitSets, CallSetsFinite, FS_AddElement
  <2>3. ASSUME NEW t \in Targets
        PROVE  /\ InFlight(t)' <= Cardinality(Holding(t)')
               /\ Cardinality(Holding(t)') <= InFlight(t)' + Cardinality(Failed(t)')
    <3>1. CASE target[c] = t
      <4>1. Cardinality(Holding(t)') = Cardinality(Holding(t)) + 1
        BY <1>4, <3>1, AdmitSets, CallSetsFinite, FS_AddElement
      <4> QED BY <1>a, <1>b, <1>4, <2>1, <3>1, <4>1, AdmitSets, CallSetsFinite
    <3>2. CASE target[c] # t
      BY <1>a, <1>4, <2>1, <3>2, AdmitSets
    <3> QED BY <3>1, <3>2
  <2> QED BY <1>a, <2>1, <2>2, <2>3 DEF CountInv, SlotAccounting
<1>5. ASSUME NEW c \in Calls, Refuse(c) PROVE CountInv'
  <2>1. totalActions' = totalActions /\ \A t \in Targets : InFlight(t)' = InFlight(t)
    <3>1. CASE RefuseBudget
      BY <3>1 DEF RefuseBudget, limiterVars, InFlight
    <3>2. CASE RefuseRate(target[c], readAt[c])
      BY <1>0, <3>2, RefuseRateType, RefuseRateInFlight
    <3> QED BY <1>5, <3>1, <3>2 DEF Refuse
  <2>2. Admitted' = Admitted /\ \A t \in Targets : Holding(t)' = Holding(t) /\ Failed(t)' = Failed(t)
    BY <1>5 DEF Refuse, Move, TypeOK, Admitted, Holding, Failed
  <2> QED BY <1>1, <2>1, <2>2
<1>6. ASSUME NEW c \in Calls, Return(c) \/ Fail(c) PROVE CountInv'
  <2>1. totalActions' = totalActions
        /\ \A t \in Targets :
             InFlight(t)' = IF target[c] = t
                              THEN IF InFlight(t) > 0 THEN InFlight(t) - 1 ELSE 0
                              ELSE InFlight(t)
    BY <1>0, <1>6, ReleaseType, ReleaseInFlight DEF Return, Fail
  <2>2. ASSUME NEW t \in Targets
        PROVE  /\ InFlight(t)' <= Cardinality(Holding(t)')
               /\ Cardinality(Holding(t)') <= InFlight(t)' + Cardinality(Failed(t)')
    <3>1. CASE target[c] = t
      <4>1. Cardinality(Holding(t)') = Cardinality(Holding(t)) - 1
            /\ Cardinality(Holding(t)') \in Nat
        BY <1>6, <3>1, EndSets, CallSetsFinite, FS_RemoveElement, FS_CardinalityType
      <4> QED BY <1>a, <1>b, <1>6, <2>1, <3>1, <4>1, EndSets, CallSetsFinite
    <3>2. CASE target[c] # t
      BY <1>a, <1>6, <2>1, <3>2, EndSets
    <3> QED BY <3>1, <3>2
  <2> QED BY <1>a, <1>6, <2>1, <2>2, EndSets DEF CountInv, SlotAccounting
<1>7. ASSUME NEW c \in Calls, FailAgain(c) PROVE CountInv'
  <2>1. totalActions' = totalActions
        /\ \A t \in Targets :
             InFlight(t)' = IF target[c] = t
                              THEN IF InFlight(t) > 0 THEN InFlight(t) - 1 ELSE 0
                              ELSE InFlight(t)
    BY <1>0, <1>7, ReleaseType, ReleaseInFlight DEF FailAgain
  <2>2. ASSUME NEW t \in Targets
        PROVE  /\ InFlight(t)' <= Cardinality(Holding(t)')
               /\ Cardinality(Holding(t)') <= InFlight(t)' + Cardinality(Failed(t)')
    <3>1. CASE target[c] = t
      <4>1. Cardinality(Failed(t)') = Cardinality(Failed(t)) + 1
        BY <1>7, <3>1, FailAgainSets, CallSetsFinite, FS_AddElement
      <4> QED BY <1>a, <1>b, <1>7, <2>1, <3>1, <4>1, FailAgainSets, CallSetsFinite
    <3>2. CASE target[c] # t
      BY <1>a, <1>7, <2>1, <3>2, FailAgainSets
    <3> QED BY <3>1, <3>2
  <2> QED BY <1>a, <1>7, <2>1, <2>2, FailAgainSets DEF CountInv, SlotAccounting
<1> QED BY <1>2, <1>3, <1>4, <1>5, <1>6, <1>7 DEF Next

\* The counters agree with the calls in every reachable state.
LEMMA CountInvariant == Spec => []CountInv
<1>1. Init => CountInv
  <2> SUFFICES ASSUME Init PROVE CountInv
    OBVIOUS
  <2>1. Admitted = {} /\ \A t \in Targets : Holding(t) = {} /\ Failed(t) = {} /\ InFlight(t) = 0
    BY DEF Init, LimiterInit, Admitted, Holding, Failed, InFlight
  <2> QED BY <2>1, FS_EmptySet DEF Init, LimiterInit, CountInv, SlotAccounting
<1> QED BY TypeCorrect, CountNext, <1>1, PTL DEF Spec

\* No interleaving admits more calls than the budget (BudgetRespected).
THEOREM BudgetHolds == Spec => []BudgetRespected
<1>1. TypeOK /\ CountInv => BudgetRespected
  BY LimiterAssumption DEF TypeOK, LimiterTypeOK, CountInv, BudgetRespected
<1> QED BY TypeCorrect, CountInvariant, <1>1, PTL

\* in_flight is off by at most the failed calls of its target, and only
\* downwards (SlotAccounting).
THEOREM SlotsAccounted == Spec => []SlotAccounting
<1>1. CountInv => SlotAccounting
  BY DEF CountInv
<1> QED BY CountInvariant, <1>1, PTL

\* The real concurrency on a target exceeds the ceiling by at most one call
\* per failed call (ConcurrencyBoundedByFailures).
THEOREM ConcurrencyBounded == Spec => []ConcurrencyBoundedByFailures
<1>1. TypeOK /\ CountInv => ConcurrencyBoundedByFailures
  <2> SUFFICES ASSUME TypeOK, CountInv, NEW t \in Targets
               PROVE  Cardinality(Holding(t)) <= MaxConcurrency + Cardinality(Failed(t))
    BY DEF ConcurrencyBoundedByFailures
  <2>1. InFlight(t) \in 0..MaxConcurrency
    BY InFlightType DEF TypeOK
  <2> QED BY <2>1, CallSetsFinite, LimiterAssumption DEF CountInv, SlotAccounting
<1> QED BY TypeCorrect, CountInvariant, <1>1, PTL
-----------------------------------------------------------------------------
(* The request rate.                                                       *)

\* What admitted calls of a target, and the tokens left, are paid from: the burst and
\* what the bucket gained since the start of any window that ends at the bucket's time.
PaidAt(t, last, tokens) ==
  \A a \in 0..last :
    Token * Cardinality(AdmittedIn(t, a, last)) + tokens <= Burst + Refill * (last - a)

\* The inductive form of RequestRateInOrder.
RateOf(t) ==
  /\ buckets[t] = NoBucket => \A c \in Admitted : target[c] # t
  /\ buckets[t] # NoBucket =>
       /\ buckets[t].last \in 0..MaxClock
       /\ \A c \in Admitted : target[c] = t => readAt[c] <= buckets[t].last
       /\ PaidAt(t, buckets[t].last, buckets[t].tokens)
  /\ RequestRateAt(t)

RateInv == \A t \in Targets \ disordered : RateOf(t)

LEMMA RefillAdds ==
  ASSUME NEW m \in Nat, NEW n \in Nat
  PROVE  Refill * (m + n) = Refill * m + Refill * n
BY LimiterAssumption, SMT

LEMMA TokenTimes ==
  ASSUME NEW n \in Nat
  PROVE  Token * (n + 1) = Token * n + Token /\ Token * n \in Nat /\ Token * 0 = 0
BY LimiterAssumption, SMT

LEMMA WindowFinite ==
  ASSUME NEW t, NEW a, NEW b
  PROVE  IsFiniteSet(AdmittedIn(t, a, b)) /\ Cardinality(AdmittedIn(t, a, b)) \in Nat
<1>1. AdmittedIn(t, a, b) \subseteq Admitted
  BY DEF AdmittedIn
<1> QED BY <1>1, CallSetsFinite, FS_Subset, FS_CardinalityType

\* The bucket a later clock value makes has been paid for as well.
LEMMA RefillPaid ==
  ASSUME TypeOK, NEW t \in Targets, NEW now \in 0..MaxClock, RateOf(t),
         buckets[t] # NoBucket => buckets[t].last <= now
  PROVE  /\ \A c \in Admitted : target[c] = t => readAt[c] <= now
         /\ PaidAt(t, now, Refilled(t, now).tokens)
<1> DEFINE tokens == Refilled(t, now).tokens
<1>1. LimiterTypeOK /\ now \in Nat /\ \A c \in Calls : readAt[c] \in Nat
  BY CallsAssumption DEF TypeOK
<1>2. tokens \in 0..Burst /\ tokens = RefilledTokens(BucketAt(t, now), now)
  BY <1>1, RefilledType DEF BucketRecord
<1>3. \A c \in Admitted : target[c] = t => readAt[c] <= now
  <2>1. \A c \in Admitted : readAt[c] \in Nat
    BY <1>1 DEF Admitted
  <2>2. CASE buckets[t] = NoBucket
    BY <2>2 DEF RateOf
  <2>3. CASE buckets[t] # NoBucket
    BY <1>1, <2>1, <2>3 DEF RateOf
  <2> QED BY <2>2, <2>3
<1>4. ASSUME NEW a \in 0..now
      PROVE  Token * Cardinality(AdmittedIn(t, a, now)) + tokens <= Burst + Refill * (now - a)
  <2> HIDE DEF tokens
  <2>1. now - a \in Nat /\ Refill * (now - a) \in Nat /\ Burst \in Nat
    BY <1>1, RefillNat, BurstNat
  <2>2. ASSUME AdmittedIn(t, a, now) = {}
        PROVE  Token * Cardinality(AdmittedIn(t, a, now)) + tokens <= Burst + Refill * (now - a)
    <3>1. Token * Cardinality(AdmittedIn(t, a, now)) = 0
      BY <2>2, FS_EmptySet, TokenTimes
    <3> QED BY <1>2, <2>1, <3>1
  <2>3. CASE buckets[t] = NoBucket
    <3>1. AdmittedIn(t, a, now) = {}
      BY <2>3 DEF RateOf, AdmittedIn
    <3> QED BY <2>2, <3>1
  <2>4. CASE buckets[t] # NoBucket
    <3> DEFINE last == buckets[t].last
               old == buckets[t].tokens
               n == Cardinality(AdmittedIn(t, a, last))
    <3>1. last \in Nat /\ old \in 0..Burst /\ last <= now
      BY <1>1, <2>4 DEF LimiterTypeOK, BucketRecord
    <3>2. \A c \in Admitted : target[c] = t => readAt[c] <= last
      BY <2>4 DEF RateOf
    <3>3. CASE a > last
      <4>1. \A c \in Admitted : target[c] = t => ~(a <= readAt[c])
        BY <1>1, <3>1, <3>2, <3>3 DEF Admitted
      <4>2. AdmittedIn(t, a, now) = {}
        BY <4>1 DEF AdmittedIn
      <4> QED BY <2>2, <4>2
    <3>4. CASE a <= last
      <4>1. AdmittedIn(t, a, now) = AdmittedIn(t, a, last)
        BY <1>3, <3>2 DEF AdmittedIn
      <4>2. a \in 0..last
        BY <3>1, <3>4
      <4>3. Token * n + old <= Burst + Refill * (last - a)
        BY <2>4, <4>2 DEF RateOf, PaidAt
      <4>4. now - last \in Nat /\ last - a \in Nat /\ now - a = (now - last) + (last - a)
        BY <1>1, <3>1, <4>2
      <4>5. Refill * (now - a) = Refill * (now - last) + Refill * (last - a)
        BY <4>4, RefillAdds
      <4>6. Refill * (now - last) \in Nat /\ Refill * (last - a) \in Nat /\ Token * n \in Nat
        BY <4>4, RefillNat, WindowFinite, TokenTimes
      <4>7. tokens <= old + Refill * (now - last)
        <5>1. BucketAt(t, now) = buckets[t]
          BY <2>4 DEF BucketAt
        <5>2. CASE now > last
          <6>1. tokens = IF old + Refill * (now - last) > Burst THEN Burst
                           ELSE old + Refill * (now - last)
            BY <1>2, <5>1, <5>2 DEF RefilledTokens
          <6> HIDE DEF old, last
          <6> QED BY <2>1, <3>1, <4>6, <6>1
        <5>3. CASE ~(now > last)
          <6>1. tokens = IF old + 0 > Burst THEN Burst ELSE old + 0
            BY <1>2, <5>1, <5>3 DEF RefilledTokens
          <6> HIDE DEF old, last
          <6> QED BY <2>1, <3>1, <4>6, <6>1
        <5> QED BY <5>2, <5>3
      <4> HIDE DEF old, last, n
      <4>8. Token * n + tokens <= Burst + Refill * (now - a)
        BY <1>2, <2>1, <3>1, <4>3, <4>5, <4>6, <4>7
      <4> QED BY <4>1, <4>8 DEF n
    <3> QED BY <1>1, <3>1, <3>3, <3>4
  <2> QED BY <2>3, <2>4
<1> QED BY <1>3, <1>4 DEF PaidAt

\* What no step admits a call of the target to, and whose bucket it leaves, keeps.
LEMMA RateKept ==
  ASSUME NEW t \in Targets, RateOf(t),
         \A a, b : AdmittedIn(t, a, b)' = AdmittedIn(t, a, b),
         \A c \in Admitted' : target'[c] = t => c \in Admitted /\ target[c] = t /\ readAt'[c] = readAt[c],
         buckets'[t] = NoBucket <=> buckets[t] = NoBucket,
         buckets[t] # NoBucket => /\ buckets'[t].last = buckets[t].last
                                  /\ buckets'[t].tokens = buckets[t].tokens
  PROVE  RateOf(t)'
<1>1. RequestRateAt(t)'
  BY DEF RateOf, RequestRateAt
<1>2. CASE buckets[t] = NoBucket
  BY <1>1, <1>2 DEF RateOf
<1>3. CASE buckets[t] # NoBucket
  <2>1. PaidAt(t, buckets[t].last, buckets[t].tokens)'
    BY <1>3 DEF RateOf, PaidAt
  <2> QED BY <1>1, <1>3, <2>1 DEF RateOf
<1> QED BY <1>2, <1>3

\* A call that is admitted pays its token out of the refilled bucket.
LEMMA RateAdmit ==
  ASSUME TypeOK, NEW c \in Calls, Admit(c), NEW t \in Targets, t = target[c], RateOf(t),
         buckets[t] # NoBucket => buckets[t].last <= readAt[c]
  PROVE  RateOf(t)'
<1>0. PICK now \in 0..MaxClock : now = readAt[c]
  BY DEF TypeOK
<1>1. /\ LimiterTypeOK /\ now \in Nat /\ MaxClock \in Nat
      /\ \A e \in Calls : readAt[e] \in Nat
  BY CallsAssumption DEF TypeOK
<1>a. PICK ref \in Nat : ref = Refilled(t, now).tokens
  BY <1>1, RefilledType, BurstNat DEF BucketRecord
<1>2. c \notin Admitted /\ Admitted' = Admitted \cup {c} /\ target' = target /\ readAt' = readAt
  BY AdmitSets DEF Admit
<1>3. PICK new \in BucketRecord : /\ buckets' = [buckets EXCEPT ![t] = new]
                                  /\ new.tokens = ref - Token /\ new.last = now
  BY <1>0, <1>1, <1>a, AcquireEffect DEF Admit
<1>4. buckets'[t] = new /\ new # NoBucket
  BY <1>1, <1>3, LimiterAssumption DEF LimiterTypeOK
<1>5. /\ \A e \in Admitted : target[e] = t => readAt[e] <= now
      /\ PaidAt(t, now, ref)
  BY <1>0, <1>a, RefillPaid
<1>6. \A e \in Admitted' : target'[e] = t => readAt'[e] <= now
  BY <1>0, <1>1, <1>2, <1>5
<1>7. ref \in Nat /\ Burst \in Nat /\ Token \in Nat
  BY BurstNat, LimiterAssumption
<1>8. \A a, b : AdmittedIn(t, a, b)' =
        IF a <= now /\ now <= b THEN AdmittedIn(t, a, b) \cup {c} ELSE AdmittedIn(t, a, b)
  BY <1>0, <1>2 DEF AdmittedIn
<1>9. ASSUME NEW a \in 0..now
      PROVE  Token * Cardinality(AdmittedIn(t, a, now)') + (ref - Token) <= Burst + Refill * (now - a)
  <2> DEFINE n == Cardinality(AdmittedIn(t, a, now))
  <2>1. AdmittedIn(t, a, now)' = AdmittedIn(t, a, now) \cup {c} /\ c \notin AdmittedIn(t, a, now)
    BY <1>1, <1>2, <1>8 DEF AdmittedIn
  <2>2. n \in Nat /\ Cardinality(AdmittedIn(t, a, now)') = n + 1
    BY <2>1, WindowFinite, FS_AddElement
  <2>3. Token * n + ref <= Burst + Refill * (now - a)
    BY <1>5 DEF PaidAt
  <2>4. Token * (n + 1) = Token * n + Token /\ Token * n \in Nat
    BY <2>2, TokenTimes
  <2>5. Refill * (now - a) \in Nat
    BY <1>1, RefillNat
  <2> HIDE DEF n
  <2> QED BY <1>7, <2>2, <2>3, <2>4, <2>5
<1>10. PaidAt(t, buckets[t].last, buckets[t].tokens)'
  BY <1>3, <1>4, <1>9 DEF PaidAt
<1>11. RequestRateAt(t)'
  <2> SUFFICES ASSUME NEW a \in 0..MaxClock, NEW b \in a..MaxClock
               PROVE  Token * Cardinality(AdmittedIn(t, a, b)') <= Burst + Refill * (b - a)
    BY DEF RequestRateAt
  <2>1. a \in Nat /\ b \in Nat /\ a <= b /\ b - a \in Nat /\ Refill * (b - a) \in Nat
    BY <1>1, RefillNat
  <2>2. CASE ~(a <= now /\ now <= b)
    BY <1>8, <2>2 DEF RateOf, RequestRateAt
  <2>3. CASE a <= now /\ now <= b
    <3>1. AdmittedIn(t, a, b)' = AdmittedIn(t, a, now)'
      <4>1. AdmittedIn(t, a, b) = AdmittedIn(t, a, now)
        BY <1>1, <1>5, <2>1, <2>3 DEF AdmittedIn, Admitted
      <4> QED BY <1>1, <1>8, <2>3, <4>1 DEF AdmittedIn
    <3>2. a \in 0..now
      BY <1>1, <2>1, <2>3
    <3>3. Token * Cardinality(AdmittedIn(t, a, now)') + (ref - Token) <= Burst + Refill * (now - a)
      BY <1>9, <3>2
    <3>4. ref - Token \in Nat
      BY <1>3, <1>7 DEF BucketRecord
    <3>5. b - now \in Nat /\ now - a \in Nat /\ b - a = (b - now) + (now - a)
      BY <1>1, <2>1, <2>3
    <3>6. Refill * (b - a) = Refill * (b - now) + Refill * (now - a)
          /\ Refill * (b - now) \in Nat /\ Refill * (now - a) \in Nat
      BY ZenonT(40), <3>5, RefillAdds, RefillNat
    <3>7. Cardinality(AdmittedIn(t, a, now)') \in Nat
      <4>1. IsFiniteSet(AdmittedIn(t, a, now))
        BY WindowFinite
      <4>2. AdmittedIn(t, a, now)' = AdmittedIn(t, a, now) \cup {c}
        BY <1>1, <1>8, <2>3 DEF AdmittedIn
      <4>3. IsFiniteSet(AdmittedIn(t, a, now)')
        BY <4>1, <4>2, FS_AddElement
      <4> QED BY <4>3, FS_CardinalityType
    <3>8. Token * Cardinality(AdmittedIn(t, a, now)') \in Nat
      BY <3>7, TokenTimes
    <3> QED BY <1>7, <3>1, <3>3, <3>4, <3>6, <3>8
  <2> QED BY <2>2, <2>3
<1> QED BY <1>1, <1>3, <1>4, <1>6, <1>10, <1>11 DEF RateOf

\* A call that is refused leaves the refilled bucket behind.
LEMMA RateRefuse ==
  ASSUME TypeOK, NEW c \in Calls, Move(c, "timed", "refused"), RefuseRate(target[c], readAt[c]),
         UNCHANGED <<target, readAt>>, NEW t \in Targets, t = target[c], RateOf(t),
         buckets[t] # NoBucket => buckets[t].last <= readAt[c]
  PROVE  RateOf(t)'
<1> DEFINE new == Refilled(t, readAt[c])
<1>1. LimiterTypeOK /\ readAt[c] \in 0..MaxClock /\ readAt[c] \in Nat
  BY CallsAssumption DEF TypeOK
<1>2. buckets'[t] = new /\ new # NoBucket /\ new.last = readAt[c]
  BY <1>1, RefilledType, LimiterAssumption DEF RefuseRate, LimiterTypeOK
<1>3. Admitted' = Admitted
  BY DEF Admitted, Move, TypeOK
<1>4. \A a, b : AdmittedIn(t, a, b)' = AdmittedIn(t, a, b)
  BY <1>3 DEF AdmittedIn
<1>5. /\ \A e \in Admitted : target[e] = t => readAt[e] <= readAt[c]
      /\ PaidAt(t, readAt[c], new.tokens)
  BY <1>1, RefillPaid
<1> HIDE DEF new
<1>6. PaidAt(t, buckets[t].last, buckets[t].tokens)'
  BY <1>2, <1>4, <1>5 DEF PaidAt
<1>7. RequestRateAt(t)'
  BY <1>4 DEF RateOf, RequestRateAt
<1> QED BY <1>1, <1>2, <1>3, <1>5, <1>6, <1>7 DEF RateOf

LEMMA RateNext == TypeOK /\ RateInv /\ [Next]_vars => RateInv'
<1> SUFFICES ASSUME TypeOK, RateInv, [Next]_vars, NEW t \in Targets, t \notin disordered'
             PROVE  RateOf(t)'
  BY DEF RateInv
<1> USE DEF limiterVars
<1>1. LimiterTypeOK /\ \A c \in Calls : target[c] \in Targets /\ readAt[c] \in Nat
  BY CallsAssumption DEF TypeOK
<1>2. t \notin disordered
  BY DEF Next, Tick, ReadClock, Admit, Refuse, Return, Fail, FailAgain, NoteOrder, vars
<1>3. RateOf(t)
  BY <1>2 DEF RateInv
<1>4. ASSUME NEW c \in Calls, NoteOrder(c), target[c] = t
      PROVE  buckets[t] # NoBucket => buckets[t].last <= readAt[c]
  <2> SUFFICES ASSUME buckets[t] # NoBucket PROVE buckets[t].last <= readAt[c]
    OBVIOUS
  <2>1. ~(readAt[c] < buckets[t].last)
    BY <1>4 DEF NoteOrder
  <2>2. buckets[t].last \in Nat /\ readAt[c] \in Nat
    BY <1>1 DEF LimiterTypeOK, BucketRecord
  <2> QED BY <2>1, <2>2
<1>5. ASSUME Admitted' = Admitted, UNCHANGED <<target, buckets>>,
             \A c \in Admitted : readAt'[c] = readAt[c]
      PROVE  RateOf(t)'
  <2>1. \A a, b : AdmittedIn(t, a, b)' = AdmittedIn(t, a, b)
    BY <1>5 DEF AdmittedIn
  <2> QED BY <1>3, <1>5, <2>1, RateKept
<1>6. CASE Tick \/ UNCHANGED vars
  <2>1. Admitted' = Admitted /\ UNCHANGED <<target, buckets, readAt>>
    BY <1>6 DEF Tick, vars, Admitted
  <2> QED BY <1>5, <2>1
<1>7. ASSUME NEW c \in Calls, ReadClock(c) PROVE RateOf(t)'
  <2>1. Admitted' = Admitted /\ c \notin Admitted /\ UNCHANGED <<target, buckets>>
    BY <1>7 DEF ReadClock, Move, Admitted, TypeOK
  <2>2. \A e \in Admitted : readAt'[e] = readAt[e]
    BY <1>7, <2>1 DEF ReadClock
  <2> QED BY <1>5, <2>1, <2>2
<1>8. ASSUME NEW c \in Calls, Admit(c) PROVE RateOf(t)'
  <2>1. CASE target[c] = t
    BY <1>3, <1>4, <1>8, <2>1, RateAdmit DEF Admit
  <2>2. CASE target[c] # t
    <3>1. /\ Admitted' = Admitted \cup {c} /\ UNCHANGED <<target, readAt>>
          /\ buckets'[t] = buckets[t]
      BY <1>1, <1>8, <2>2, AdmitSets DEF Admit, Acquire, LimiterTypeOK
    <3>2. \A a, b : AdmittedIn(t, a, b)' = AdmittedIn(t, a, b)
      BY <2>2, <3>1 DEF AdmittedIn
    <3> QED BY <1>3, <2>2, <3>1, <3>2, RateKept
  <2> QED BY <2>1, <2>2
<1>9. ASSUME NEW c \in Calls, Refuse(c) PROVE RateOf(t)'
  <2>1. Move(c, "timed", "refused") /\ UNCHANGED <<target, readAt>> /\ Admitted' = Admitted
    BY <1>9 DEF Refuse, Move, Admitted, TypeOK
  <2>2. CASE RefuseBudget
    BY <1>5, <2>1, <2>2 DEF RefuseBudget
  <2>3. CASE RefuseRate(target[c], readAt[c]) /\ NoteOrder(c)
    <3>1. CASE target[c] = t
      BY <1>3, <1>4, <2>1, <2>3, <3>1, RateRefuse
    <3>2. CASE target[c] # t
      <4>1. buckets'[t] = buckets[t]
        BY <1>1, <2>3, <3>2 DEF RefuseRate, LimiterTypeOK
      <4>2. \A a, b : AdmittedIn(t, a, b)' = AdmittedIn(t, a, b)
        BY <2>1 DEF AdmittedIn
      <4> QED BY <1>3, <2>1, <4>1, <4>2, RateKept
    <3> QED BY <3>1, <3>2
  <2> QED BY <1>9, <2>2, <2>3 DEF Refuse
<1>10. ASSUME NEW c \in Calls, Return(c) \/ Fail(c) \/ FailAgain(c) PROVE RateOf(t)'
  <2>1. Admitted' = Admitted /\ UNCHANGED <<target, readAt>> /\ Release(target[c])
    BY <1>10, EndSets, FailAgainSets DEF Return, Fail, FailAgain
  <2>2. \A a, b : AdmittedIn(t, a, b)' = AdmittedIn(t, a, b)
    BY <2>1 DEF AdmittedIn
  <2>3. /\ buckets'[t] = NoBucket <=> buckets[t] = NoBucket
        /\ buckets[t] # NoBucket => /\ buckets'[t].last = buckets[t].last
                                    /\ buckets'[t].tokens = buckets[t].tokens
    <3>1. CASE /\ target[c] = t
               /\ buckets[t] # NoBucket /\ buckets[t].in_flight > 0
      <4>1. PICK b \in BucketRecord : /\ buckets' = [buckets EXCEPT ![t] = b]
                                      /\ b.tokens = buckets[t].tokens
                                      /\ b.last = buckets[t].last
        BY <1>1, <2>1, <3>1, ReleaseEffect
      <4> QED BY <1>1, <3>1, <4>1, LimiterAssumption DEF LimiterTypeOK
    <3>2. CASE ~(target[c] = t /\ buckets[t] # NoBucket /\ buckets[t].in_flight > 0)
      <4>1. buckets'[t] = buckets[t]
        BY <1>1, <2>1, <3>2 DEF Release, LimiterTypeOK
      <4> QED BY <4>1
    <3> QED BY <3>1, <3>2
  <2> QED BY <1>3, <2>1, <2>2, <2>3, RateKept
<1> QED BY <1>6, <1>7, <1>8, <1>9, <1>10 DEF Next

\* A target whose acquires presented clock values in order is sent no more in any window
\* than the burst and what the window refills (RequestRateInOrder).
THEOREM RateHolds == Spec => []RequestRateInOrder
<1>1. Init => RateInv
  <2> SUFFICES ASSUME Init, NEW t \in Targets PROVE RateOf(t)
    BY DEF RateInv
  <2>1. Admitted = {} /\ buckets[t] = NoBucket
    BY DEF Init, LimiterInit, Admitted
  <2>2. ASSUME NEW a \in 0..MaxClock, NEW b \in a..MaxClock
        PROVE  Token * Cardinality(AdmittedIn(t, a, b)) <= Burst + Refill * (b - a)
    <3>1. AdmittedIn(t, a, b) = {}
      BY <2>1 DEF AdmittedIn
    <3>2. Token * Cardinality(AdmittedIn(t, a, b)) = 0
      BY <3>1, FS_EmptySet, TokenTimes
    <3>3. b - a \in Nat
      BY CallsAssumption
    <3>4. Refill * (b - a) \in Nat
      BY <3>3, RefillNat
    <3> QED BY <3>2, <3>4, BurstNat
  <2> QED BY <2>1, <2>2 DEF RateOf, RequestRateAt
<1>2. RateInv => RequestRateInOrder
  BY DEF RateInv, RateOf, RequestRateInOrder
<1> QED BY <1>1, <1>2, RateNext, TypeCorrect, PTL DEF Spec
=============================================================================
