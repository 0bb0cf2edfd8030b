--------------------------- MODULE SafetyPipeline ---------------------------
(***************************************************************************)
(* SafetyPipeline.execute (safety/pipeline.py), the one place a tool is    *)
(* ever run from, under concurrent callers, a kill switch that operators   *)
(* throw at any moment, approvals that are signed off (and signed off      *)
(* again) meanwhile, a clock that moves, tools that fail and lines of the  *)
(* audit file that cannot be written.                                      *)
(*                                                                         *)
(* One action per step of execute that reads or writes shared state; the   *)
(* checks that only look at the invocation (target in scope, command       *)
(* builds, flags and profile allow it) ride with the step before them.     *)
(* A dry run is a run whose process does nothing.                          *)
(***************************************************************************)
EXTENDS RateLimiter, KillSwitch, ApprovalStore, FiniteSets, Sequences

CONSTANTS
  Calls,        \* the calls of execute, each on a thread of its own
  Invocations,  \* what a call may be asked to run
  Flags,        \* what a token of a command may be, or be up to its "="
  Lower,        \* each of Flags in lower case
  Forbidden,    \* forbidden_flags of the tool
  Destructive,  \* DESTRUCTIVE_TOKENS of the profile guard
  Window,       \* the ticks inside an allowed time window
  MaxClock,     \* bound on the clock
  MaxLost       \* bound on the audit writes that fail

\* A token of a command, and its head: what stands before "=".
CommandToken == [whole : Flags, head : Flags]

\* What the gates look at in an invocation: the target and whether it is in
\* scope, whether the tool is active-validate, the approval id it carries,
\* whether its adapter builds a command (one that misses a parameter raises),
\* and the tokens of that.
InvocationRecord ==
  [target : Targets, inScope : BOOLEAN, active : BOOLEAN,
   approval : Requests \cup {NoOne}, builds : BOOLEAN, command : SUBSET CommandToken]

ASSUME PipelineAssumption ==
  /\ IsFiniteSet(Calls)
  /\ Lower \in [Flags -> Flags]
  /\ Invocations \subseteq InvocationRecord
  /\ MaxClock \in Nat
  /\ Window \subseteq Nat
  /\ MaxResets \in Nat
  /\ MaxLost \in Nat

VARIABLES
  pc,          \* the step each call is at
  inv,         \* the invocation of each call
  readAt,      \* the clock value each call read for acquire
  trail,       \* the audit events of each call on file, in order
  lost,        \* how many audit writes have failed
  denial,      \* the exception that denied the call
  clock,       \* the clock, in ticks
  approvedOnce,\* history: requests some named approver approved
  graceKill,   \* history: calls past the kill check when it was engaged
  graceRunner, \* history: calls past the runner's check when it was revoked
  disordered   \* history: targets whose bucket was shown an older clock

callVars == <<pc, inv, readAt, trail, lost, denial>>
historyVars == <<approvedOnce, graceKill, graceRunner, disordered>>
vars == <<limiterVars, killVars, approvalVars, callVars, clock, historyVars>>

Admittable == {"scope", "approval", "timing", "limit"}
Executing == {"exec", "runner", "spawning", "running", "failing"}
Unwinding == {"erring", "unwinding", "breaking", "leaving", "resulting"}
Ended == {"errored", "broken", "completed", "unrecorded"}
Terminal == {"denied", "raised"} \cup Ended
Steps == {"new", "kill", "denying"} \cup Admittable \cup Executing
           \cup Unwinding \cup Terminal

Reasons == {"KillSwitchEngaged", "OutOfScope", "OutOfWindow", "ApprovalRequired",
            "CommandRefused", "BudgetExceeded", "RateLimited"}

Init ==
  /\ LimiterInit
  /\ KillInit
  /\ ApprovalInit
  /\ pc = [c \in Calls |-> "new"]
  /\ inv \in [Calls -> Invocations]
  /\ readAt = [c \in Calls |-> 0]
  /\ trail = [c \in Calls |-> <<>>]
  /\ lost = 0
  /\ denial = [c \in Calls |-> "none"]
  /\ clock = 0
  /\ approvedOnce = {}
  /\ graceKill = Calls
  /\ graceRunner = Calls
  /\ disordered = {}
-----------------------------------------------------------------------------
(* One call of execute.                                                    *)

Goto(c, from, to) == pc[c] = from /\ pc' = [pc EXCEPT ![c] = to]

\* _audit: the event is on file, and the call goes on; or the write fails and
\* raises, which is met where the event was written.
Audit(c, from, event, to, onFailure) ==
  \/ /\ Goto(c, from, to)
     /\ trail' = [trail EXCEPT ![c] = Append(@, event)]
     /\ UNCHANGED lost
  \/ /\ lost < MaxLost
     /\ lost' = lost + 1
     /\ Goto(c, from, onFailure)
     /\ UNCHANGED trail

\* A gate raises a SafetyViolation.
Deny(c, from, reason) ==
  /\ Goto(c, from, "denying")
  /\ denial' = [denial EXCEPT ![c] = reason]

SharedUnchanged ==
  UNCHANGED <<limiterVars, killVars, approvalVars, clock, historyVars>>

Propose(c) ==
  /\ Audit(c, "new", "proposed", "kill", "raised")
  /\ UNCHANGED <<inv, readAt, denial>>
  /\ SharedUnchanged

\* Mutant: the check is gone.
CheckKillNever(c) ==
  /\ Goto(c, "kill", "scope")
  /\ UNCHANGED <<inv, readAt, trail, lost, denial>>
  /\ SharedUnchanged

\* 1. The kill switch is read under its lock.
CheckKill(c) ==
  /\ IF engaged THEN Deny(c, "kill", "KillSwitchEngaged")
                ELSE Goto(c, "kill", "scope") /\ UNCHANGED denial
  /\ UNCHANGED <<inv, readAt, trail, lost>>
  /\ SharedUnchanged

\* 2. and 3. The target's scope, then the time window at the present time.
CheckScope(c) ==
  /\ \/ ~inv[c].inScope /\ Deny(c, "scope", "OutOfScope")
     \/ inv[c].inScope /\ clock \notin Window /\ Deny(c, "scope", "OutOfWindow")
     \/ /\ inv[c].inScope /\ clock \in Window
        /\ Goto(c, "scope", "approval") /\ UNCHANGED denial
  /\ UNCHANGED <<inv, readAt, trail, lost>>
  /\ SharedUnchanged

\* 4. The approval of an active-validate tool, looked up by its id only.
Approved(c) == inv[c].active => IsApproved(inv[c].approval)

\* ToolAdapter.validate compares as written, ProfileGuard.check in lower case; no
\* rules of engagement name another profile than non_destructive.
NamesOf(token) == {token.whole, token.head}
Validated(cmd) == \A token \in cmd : NamesOf(token) \cap Forbidden = {}
Check(cmd) ==
  \A token \in cmd : {Lower[name] : name \in NamesOf(token)} \cap Destructive = {}

\* 5. and 5b. then the command; an exception that is no SafetyViolation
\* leaves execute with no further audit event.
CheckApproval(c) ==
  /\ \/ ~Approved(c) /\ Deny(c, "approval", "ApprovalRequired")
     \/ /\ Approved(c) /\ ~inv[c].builds
        /\ Goto(c, "approval", "raised") /\ UNCHANGED denial
     \/ /\ Approved(c) /\ inv[c].builds
        /\ ~(Validated(inv[c].command) /\ Check(inv[c].command))
        /\ Deny(c, "approval", "CommandRefused")
     \/ /\ Approved(c) /\ inv[c].builds
        /\ Validated(inv[c].command) /\ Check(inv[c].command)
        /\ Goto(c, "approval", "timing") /\ UNCHANGED denial
  /\ UNCHANGED <<inv, readAt, trail, lost>>
  /\ SharedUnchanged

\* 6. The argument of acquire is evaluated before acquire takes its lock.
ReadClock(c) ==
  /\ Goto(c, "timing", "limit")
  /\ readAt' = [readAt EXCEPT ![c] = clock]
  /\ UNCHANGED <<inv, trail, lost, denial>>
  /\ SharedUnchanged

NoteOrder(c) ==
  LET t == inv[c].target
  IN  disordered' = IF buckets[t] # NoBucket /\ readAt[c] < buckets[t].last
                      THEN disordered \cup {t} ELSE disordered

\* Mutant: acquire waits for a slot where it should raise.
AcquireSlotWaits(c) ==
  /\ Acquire(inv[c].target, readAt[c])
  /\ NoteOrder(c)
  /\ Goto(c, "limit", "exec")
  /\ UNCHANGED <<inv, readAt, trail, lost, denial, killVars, approvalVars, clock,
                 approvedOnce, graceKill, graceRunner>>

AcquireSlot(c) ==
  /\ \/ /\ Acquire(inv[c].target, readAt[c]) /\ NoteOrder(c)
        /\ Goto(c, "limit", "exec") /\ UNCHANGED denial
     \/ /\ RefuseBudget /\ UNCHANGED disordered
        /\ Deny(c, "limit", "BudgetExceeded")
     \/ /\ RefuseRate(inv[c].target, readAt[c]) /\ NoteOrder(c)
        /\ Deny(c, "limit", "RateLimited")
  /\ UNCHANGED <<inv, readAt, trail, lost, killVars, approvalVars, clock,
                 approvedOnce, graceKill, graceRunner>>

\* The except SafetyViolation branch.
AuditDenied(c) ==
  /\ Audit(c, "denying", "denied", "denied", "raised")
  /\ UNCHANGED <<inv, readAt, denial>>
  /\ SharedUnchanged

\* Mutant: a record that cannot be written does not stop the tool.
AuditExecBestEffort(c) ==
  /\ Audit(c, "exec", "exec", "runner", "runner")
  /\ UNCHANGED <<inv, readAt, denial>>
  /\ SharedUnchanged

\* 7. The start of the try block: a write that fails fails the call.
AuditExec(c) ==
  /\ Audit(c, "exec", "exec", "runner", "failing")
  /\ UNCHANGED <<inv, readAt, denial>>
  /\ SharedUnchanged

\* Mutant: the flag is not looked at.
EnterRunnerUnrevoked(c) ==
  /\ Goto(c, "runner", "spawning")
  /\ UNCHANGED <<inv, readAt, trail, lost, denial>>
  /\ SharedUnchanged

\* LocalSubprocessRunner.run: the revoked flag is looked at once ...
EnterRunner(c) ==
  /\ Goto(c, "runner", IF revoked THEN "failing" ELSE "spawning")
  /\ UNCHANGED <<inv, readAt, trail, lost, denial>>
  /\ SharedUnchanged

\* ... and then the process is started, unless its binary is missing.
Spawn(c) ==
  /\ \E next \in {"running", "failing"} : Goto(c, "spawning", next)
  /\ UNCHANGED <<inv, readAt, trail, lost, denial>>
  /\ SharedUnchanged

\* The process ends, by itself or by its timeout; its output parses and is
\* stored as evidence, or one of the two raises.
Finish(c) ==
  /\ \E next \in {"leaving", "failing"} : Goto(c, "running", next)
  /\ UNCHANGED <<inv, readAt, trail, lost, denial>>
  /\ SharedUnchanged

ReleaseStep(c, from, to) ==
  /\ Goto(c, from, to)
  /\ Release(inv[c].target)
  /\ UNCHANGED <<inv, readAt, trail, lost, denial, killVars, approvalVars, clock,
                 historyVars>>

\* The except branch releases, audits and returns ...
ReleaseOnError(c) == ReleaseStep(c, "failing", "erring")

AuditError(c) ==
  /\ Audit(c, "erring", "error", "unwinding", "breaking")
  /\ UNCHANGED <<inv, readAt, denial>>
  /\ SharedUnchanged

\* ... through the finally clause, which releases again; so it does when the
\* error could not be recorded and the exception leaves execute.
ReleaseAfterError(c) ==
  ReleaseStep(c, "unwinding", "errored") \/ ReleaseStep(c, "breaking", "broken")

\* Mutant: only the except branch releases.
ReleaseOnSuccessNot(c) ==
  /\ Goto(c, "leaving", "resulting")
  /\ UNCHANGED <<inv, readAt, trail, lost, denial>>
  /\ SharedUnchanged

\* The finally clause of a call that ran, and its last audit event.
ReleaseOnSuccess(c) == ReleaseStep(c, "leaving", "resulting")

AuditResult(c) ==
  /\ Audit(c, "resulting", "result", "completed", "unrecorded")
  /\ UNCHANGED <<inv, readAt, denial>>
  /\ SharedUnchanged

Gate(c) == CheckKill(c) \/ CheckScope(c) \/ CheckApproval(c) \/ AcquireSlot(c)

Run(c) == EnterRunner(c) \/ Spawn(c) \/ Finish(c)

Settle(c) == ReleaseOnError(c) \/ ReleaseAfterError(c) \/ ReleaseOnSuccess(c)

Record(c) == AuditDenied(c) \/ AuditExec(c) \/ AuditError(c) \/ AuditResult(c)

Step(c) == Gate(c) \/ ReadClock(c) \/ Run(c) \/ Settle(c) \/ Record(c)
-----------------------------------------------------------------------------
(* The callers' surroundings: operators, approvers and the clock.          *)

PastKillCheck == {c \in Calls : pc[c] \notin {"new", "kill"}}
PastRunnerCheck == {c \in Calls : pc[c] \notin {"new", "kill", "exec", "runner"} \cup Admittable}

OperatorEngages(o) ==
  /\ Engage(o)
  /\ graceKill' = PastKillCheck
  /\ UNCHANGED <<limiterVars, approvalVars, callVars, clock,
                 approvedOnce, graceRunner, disordered>>

OperatorRunsHooks(o) ==
  /\ RunHooks(o)
  /\ graceRunner' = IF revoked THEN graceRunner ELSE PastRunnerCheck
  /\ UNCHANGED <<limiterVars, approvalVars, callVars, clock,
                 approvedOnce, graceKill, disordered>>

OperatorResets ==
  /\ Reset
  /\ graceKill' = Calls
  /\ UNCHANGED <<limiterVars, approvalVars, callVars, clock,
                 approvedOnce, graceRunner, disordered>>

RequestApproval(r) ==
  /\ Create(r)
  /\ UNCHANGED <<limiterVars, killVars, callVars, clock, historyVars>>

ResolveApproval(r, d, name) ==
  /\ SignOff(r, d, name)
  /\ approvedOnce' = IF d = "approved" THEN approvedOnce \cup {r} ELSE approvedOnce
  /\ UNCHANGED <<limiterVars, killVars, callVars, clock,
                 graceKill, graceRunner, disordered>>

Tick ==
  /\ clock < MaxClock
  /\ clock' = clock + 1
  /\ UNCHANGED <<limiterVars, killVars, approvalVars, callVars, historyVars>>

Environment ==
  \/ Tick
  \/ OperatorResets
  \/ \E o \in Operators : OperatorEngages(o) \/ OperatorRunsHooks(o)
  \/ \E r \in Requests :
       \/ RequestApproval(r)
       \/ \E d \in Decisions, name \in Names : ResolveApproval(r, d, name)

Next == Environment \/ \E c \in Calls : Propose(c) \/ Step(c)

\* A thread inside execute keeps running (the tool itself is bounded by
\* run_timeout), and so does an operator inside engage.  Nobody has to call
\* execute, to throw or reset the switch or to answer a request.
Fairness ==
  /\ \A c \in Calls : WF_vars(Step(c))
  /\ \A o \in Operators : WF_vars(OperatorRunsHooks(o))

Spec == Init /\ [][Next]_vars
FairSpec == Spec /\ Fairness
-----------------------------------------------------------------------------
(* What the pipeline promises.                                             *)

Running == {c \in Calls : pc[c] = "running"}
PastGates == {c \in Calls : pc[c] \in Executing \cup Unwinding \cup Ended}

\* The values every variable ranges over.
TypeOK ==
  /\ LimiterTypeOK /\ KillTypeOK /\ ApprovalTypeOK
  /\ pc \in [Calls -> Steps]
  /\ inv \in [Calls -> Invocations]
  /\ readAt \in [Calls -> 0..MaxClock]
  /\ trail \in [Calls -> Seq({"proposed", "denied", "exec", "error", "result"})]
  /\ lost \in 0..MaxLost
  /\ denial \in [Calls -> Reasons \cup {"none"}]
  /\ clock \in 0..MaxClock
  /\ approvedOnce \subseteq Requests
  /\ graceKill \subseteq Calls /\ graceRunner \subseteq Calls
  /\ disordered \subseteq Targets

\* What the audit file tells of a call is what happened to it (FRS.md:166),
\* whichever of its writes fail: a tool is never at the runner, let alone run,
\* without its tool.exec on file, a denied call shows tool.denied and no
\* tool.exec, a call that returned shows the one of tool.error and tool.result
\* it ended with, and the events of a call that raised stop where it did.
TrailMatchesCall ==
  \A c \in Calls :
    /\ pc[c] \in {"runner", "spawning", "running", "leaving", "resulting", "unrecorded"}
         => trail[c] = <<"proposed", "exec">>
    /\ pc[c] = "denied" => trail[c] = <<"proposed", "denied">> /\ denial[c] # "none"
    /\ pc[c] = "errored"
         => trail[c] \in {<<"proposed", "error">>, <<"proposed", "exec", "error">>}
    /\ pc[c] = "broken" => trail[c] \in {<<"proposed">>, <<"proposed", "exec">>}
    /\ pc[c] = "completed" => trail[c] = <<"proposed", "exec", "result">>
    /\ denial[c] # "none" => c \notin PastGates

\* The tool of an active-validate call is run only under an id that a named
\* approver approved (build.py's gate and the pipeline's own check agree on
\* this, whatever denials are recorded for the id later).
ActiveRunsWereApproved ==
  \A c \in PastGates : inv[c].active => inv[c].approval \in approvedOnce

\* The budget of the engagement bounds the tools ever run.
BudgetRespected == Cardinality(PastGates) <= MaxTotalActions

\* An engaged kill switch lets through only calls that had passed its check
\* before: the number of tools still to start is fixed when it is engaged.
KillStopsNewCalls ==
  [][\A c \in Calls :
       engaged /\ c \notin Running /\ c \in Running' => c \in graceKill]_vars

\* Once the hook ran, only a call between the runner's check and the spawn
\* may still start a process, and no reset of the switch changes that.
RevocationStopsRunner ==
  [][\A c \in Calls :
       revoked /\ c \notin Running /\ c \in Running' => c \in graceRunner]_vars

\* What the limiter sees of the pipeline is LimitedActions: a slot is taken
\* once per admitted call and given back on every way out of the try block.
Stage(c) ==
  CASE pc[c] \in {"exec", "runner", "spawning", "running", "failing", "leaving"} -> "holding"
    [] pc[c] \in {"erring", "unwinding", "breaking"} -> "failing"
    [] pc[c] \in {"resulting", "completed", "unrecorded"} -> "returned"
    [] pc[c] \in {"errored", "broken"} -> "failed"
    [] pc[c] = "limit" -> "timed"
    [] pc[c] \in {"denying", "denied", "raised"} /\ denial[c] \in {"BudgetExceeded", "RateLimited"} -> "refused"
    [] OTHER -> "idle"

LimiterView ==
  INSTANCE LimitedActions WITH
    stage <- [c \in Calls |-> Stage(c)],
    target <- [c \in Calls |-> inv[c].target]

LimiterSpec == LimiterView!Spec

\* A call that entered execute gets out of it, whatever operators, approvers
\* and other calls do.
EveryCallEnds ==
  \A c \in Calls : pc[c] = "kill" ~> pc[c] \in Terminal

\* "the (N+1)-th concurrent action to one target beyond the cap is
\* RateLimited" (docs/FRS.md:184): no more tools in flight than the cap.
ConcurrencyCeiling ==
  \A t \in Targets : Cardinality({c \in Running : inv[c].target = t}) <= MaxConcurrency
=============================================================================
