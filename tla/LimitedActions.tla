--------------------------- MODULE LimitedActions ---------------------------
(***************************************************************************)
(* The calls of the safety pipeline as the rate limiter sees them.  A call *)
(* reads the monotonic clock, then enters acquire with the value it read   *)
(* (pipeline.py:145: the argument is evaluated before the limiter's lock   *)
(* is taken); when admitted it runs its tool and gives its slot back, and  *)
(* when the tool or its parser fails it gives the slot back twice: in the  *)
(* except branch and again in the finally clause.                          *)
(*                                                                         *)
(* SafetyPipeline refines this specification.                              *)
(***************************************************************************)
EXTENDS RateLimiter, FiniteSets

CONSTANTS
  Calls,       \* the calls of SafetyPipeline.execute
  MaxClock     \* bound on the clock: the ticks an execution is followed for

ASSUME CallsAssumption == IsFiniteSet(Calls) /\ MaxClock \in Nat

Stages == {"idle", "timed", "holding", "failing", "returned", "failed", "refused"}

VARIABLES
  clock,       \* the monotonic clock, in ticks
  stage,       \* where each call is
  target,      \* the target each call acts on
  readAt,      \* the clock value each call read for acquire
  disordered   \* history: targets whose bucket was shown an older clock value

actionVars == <<clock, stage, target, readAt, disordered>>
vars == <<buckets, totalActions, clock, stage, target, readAt, disordered>>

Init ==
  /\ LimiterInit
  /\ clock = 0
  /\ stage = [c \in Calls |-> "idle"]
  /\ target \in [Calls -> Targets]
  /\ readAt = [c \in Calls |-> 0]
  /\ disordered = {}

Move(c, from, to) == stage[c] = from /\ stage' = [stage EXCEPT ![c] = to]

\* The argument self._monotonic() of acquire.
ReadClock(c) ==
  /\ Move(c, "idle", "timed")
  /\ readAt' = [readAt EXCEPT ![c] = clock]
  /\ UNCHANGED <<limiterVars, clock, target, disordered>>

\* The history variable notes a clock value older than the bucket's own.
NoteOrder(c) ==
  disordered' =
    IF buckets[target[c]] # NoBucket /\ readAt[c] < buckets[target[c]].last
      THEN disordered \cup {target[c]}
      ELSE disordered

\* acquire admits the call.
Admit(c) ==
  /\ Move(c, "timed", "holding")
  /\ Acquire(target[c], readAt[c])
  /\ NoteOrder(c)
  /\ UNCHANGED <<clock, target, readAt>>

\* acquire raises BudgetExceeded or RateLimited.
Refuse(c) ==
  /\ Move(c, "timed", "refused")
  /\ \/ RefuseBudget /\ UNCHANGED disordered
     \/ RefuseRate(target[c], readAt[c]) /\ NoteOrder(c)
  /\ UNCHANGED <<clock, target, readAt>>

\* Mutant: a return before the finally clause keeps the slot.
ReturnKeepsSlot(c) ==
  /\ Move(c, "holding", "returned")
  /\ UNCHANGED <<limiterVars, clock, target, readAt, disordered>>

\* The finally clause of a call whose tool ran and parsed.
Return(c) ==
  /\ Move(c, "holding", "returned")
  /\ Release(target[c])
  /\ UNCHANGED <<clock, target, readAt, disordered>>

\* The except branch of a call whose tool or parser raised.
Fail(c) ==
  /\ Move(c, "holding", "failing")
  /\ Release(target[c])
  /\ UNCHANGED <<clock, target, readAt, disordered>>

\* The finally clause of the same call: the second release.
FailAgain(c) ==
  /\ Move(c, "failing", "failed")
  /\ Release(target[c])
  /\ UNCHANGED <<clock, target, readAt, disordered>>

Tick ==
  /\ clock < MaxClock
  /\ clock' = clock + 1
  /\ UNCHANGED <<limiterVars, stage, target, readAt, disordered>>

Next ==
  \/ Tick
  \/ \E c \in Calls : \/ ReadClock(c) \/ Admit(c) \/ Refuse(c)
                      \/ Return(c) \/ Fail(c) \/ FailAgain(c)

Spec == Init /\ [][Next]_vars
-----------------------------------------------------------------------------
Admitted == {c \in Calls : stage[c] \in {"holding", "failing", "returned", "failed"}}
Holding(t) == {c \in Calls : stage[c] = "holding" /\ target[c] = t}
Failed(t) == {c \in Calls : stage[c] = "failed" /\ target[c] = t}

\* The calls admitted on target t with a clock value in the window a..b.
AdmittedIn(t, a, b) ==
  {c \in Admitted : target[c] = t /\ a <= readAt[c] /\ readAt[c] <= b}

\* The values every variable ranges over.
TypeOK ==
  /\ LimiterTypeOK
  /\ clock \in 0..MaxClock
  /\ stage \in [Calls -> Stages]
  /\ target \in [Calls -> Targets]
  /\ readAt \in [Calls -> 0..MaxClock]
  /\ disordered \subseteq Targets

\* The engagement-wide budget (_total_actions) counts exactly the calls the
\* limiter ever admitted, so that no interleaving of acquires, refusals and
\* releases lets more than max_total_actions of them through.
BudgetRespected ==
  /\ totalActions = Cardinality(Admitted)
  /\ Cardinality(Admitted) <= MaxTotalActions

\* in_flight never counts a call that holds no slot (so a bucket whose calls
\* have all ended is free again: the floor in release and the double release
\* lose slots, never leak them), and it misses at most one call per failed
\* call of the same target.
SlotAccounting ==
  \A t \in Targets :
    /\ InFlight(t) <= Cardinality(Holding(t))
    /\ Cardinality(Holding(t)) <= InFlight(t) + Cardinality(Failed(t))

\* How far the double release of failed calls can push the real concurrency
\* on a target: one call above the ceiling for each failed call, no further.
ConcurrencyBoundedByFailures ==
  \A t \in Targets :
    Cardinality(Holding(t)) <= MaxConcurrency + Cardinality(Failed(t))

\* The token bucket: over any window of the callers' clock a target is sent
\* at most the burst plus what the window refills.
RequestRateAt(t) ==
  \A a \in 0..MaxClock : \A b \in a..MaxClock :
    Token * Cardinality(AdmittedIn(t, a, b)) <= Burst + Refill * (b - a)

\* The bound holds for a target as long as every acquire on it presented a
\* clock value no older than the one before; in general it does not, because
\* a bucket whose time moved back is credited the same interval twice.
RequestRateInOrder == \A t \in Targets \ disordered : RequestRateAt(t)
=============================================================================
