------------------------ MODULE SafetyPipelineProofs ------------------------
(***************************************************************************)
(* Theorems about SafetyPipeline, for every set of calls, targets and      *)
(* invocations and every value of the other constants.                     *)
(***************************************************************************)
EXTENDS SafetyPipeline, SequenceTheorems, FiniteSetTheorems, TLAPS

\* The lemmas about the limiter hold of its view of the pipeline too.
LimiterLemmas ==
  INSTANCE LimitedActionsProofs WITH
    stage <- [c \in Calls |-> Stage(c)],
    target <- [c \in Calls |-> inv[c].target]

\* acquire and release keep the limiter's types.
LEMMA LimiterKeepsTypes ==
  ASSUME LimiterTypeOK, NEW t \in Targets, NEW now \in Nat
  PROVE  /\ Acquire(t, now) => LimiterTypeOK'
         /\ RefuseRate(t, now) => LimiterTypeOK'
         /\ Release(t) => LimiterTypeOK'
<1>1. LimiterLemmas!IsFiniteSet(Calls)
  BY PipelineAssumption DEF IsFiniteSet, LimiterLemmas!IsFiniteSet
<1>2. BucketRecord = LimiterLemmas!BucketRecord
  BY DEF BucketRecord, LimiterLemmas!BucketRecord, Burst, LimiterLemmas!Burst
<1>3. LimiterTypeOK = LimiterLemmas!LimiterTypeOK /\ LimiterTypeOK' = LimiterLemmas!LimiterTypeOK'
  BY <1>2 DEF LimiterTypeOK, LimiterLemmas!LimiterTypeOK
<1> USE DEF BudgetLeft, LimiterLemmas!BudgetLeft, BelowCeilings, LimiterLemmas!BelowCeilings,
            Refilled, LimiterLemmas!Refilled, BucketAt, LimiterLemmas!BucketAt,
            RefilledTokens, LimiterLemmas!RefilledTokens, Burst, LimiterLemmas!Burst
<1>4. Acquire(t, now) => LimiterLemmas!Acquire(t, now)
  BY DEF Acquire, LimiterLemmas!Acquire
<1>5. RefuseRate(t, now) => LimiterLemmas!RefuseRate(t, now)
  BY DEF RefuseRate, LimiterLemmas!RefuseRate
<1>6. Release(t) => LimiterLemmas!Release(t)
  BY DEF Release, LimiterLemmas!Release
<1> QED BY <1>1, <1>2, <1>3, <1>4, <1>5, <1>6, LimiterAssumption, PipelineAssumption,
        LimiterLemmas!AcquireType, LimiterLemmas!RefuseRateType, LimiterLemmas!ReleaseType

\* The variables of the shared objects keep their types while they do not move.
LEMMA SharedTypes ==
  ASSUME LimiterTypeOK, KillTypeOK, ApprovalTypeOK
  PROVE  /\ UNCHANGED limiterVars => LimiterTypeOK'
         /\ UNCHANGED killVars => KillTypeOK'
         /\ UNCHANGED approvalVars => ApprovalTypeOK'
BY DEF LimiterTypeOK, KillTypeOK, ApprovalTypeOK, limiterVars, killVars, approvalVars

\* Every variable starts with a value of its type.
LEMMA TypeInit == Init => TypeOK
<1> SUFFICES ASSUME Init PROVE TypeOK
  OBVIOUS
<1>1. LimiterTypeOK
  BY LimiterAssumption DEF Init, LimiterInit, LimiterTypeOK
<1>2. KillTypeOK /\ ApprovalTypeOK
  <2>1. resets \in 0..MaxResets
    BY PipelineAssumption DEF Init, KillInit
  <2>2. KillTypeOK
    BY <2>1 DEF Init, KillInit, KillTypeOK
  <2>3. ApprovalTypeOK
    BY DEF Init, ApprovalInit, ApprovalTypeOK
  <2> QED BY <2>2, <2>3
<1>3. readAt \in [Calls -> 0..MaxClock] /\ clock \in 0..MaxClock /\ lost \in 0..MaxLost
  BY PipelineAssumption DEF Init
<1>4. trail \in [Calls -> Seq({"proposed", "denied", "exec", "error", "result"})]
  BY DEF Init
<1> QED BY <1>1, <1>2, <1>3, <1>4 DEF Init, TypeOK, Steps

LEMMA AppendKeeps ==
  ASSUME NEW S, NEW s \in Seq(S), NEW x \in S
  PROVE  Append(s, x) \in Seq(S)
OBVIOUS

\* Writing an event, or failing to, keeps the trails sequences of events.
LEMMA AuditType ==
  ASSUME TypeOK, NEW c \in Calls,
         NEW event \in {"proposed", "denied", "exec", "error", "result"},
         NEW from, NEW to \in Steps, NEW onFailure \in Steps,
         Audit(c, from, event, to, onFailure)
  PROVE  /\ trail' \in [Calls -> Seq({"proposed", "denied", "exec", "error", "result"})]
         /\ lost' \in 0..MaxLost
         /\ pc' \in [Calls -> Steps]
<1>1. lost' \in 0..MaxLost
  BY PipelineAssumption DEF TypeOK, Audit
<1>2. pc' \in [Calls -> Steps]
  BY DEF TypeOK, Audit, Goto
<1>3. trail' \in [Calls -> Seq({"proposed", "denied", "exec", "error", "result"})]
  <2>1. trail \in [Calls -> Seq({"proposed", "denied", "exec", "error", "result"})]
    BY DEF TypeOK
  <2>2. trail' = [trail EXCEPT ![c] = Append(@, event)] \/ trail' = trail
    BY DEF Audit
  <2>3. Append(trail[c], event) \in Seq({"proposed", "denied", "exec", "error", "result"})
    BY <2>1, AppendKeeps
  <2> QED BY <2>1, <2>2, <2>3, Zenon
<1> QED BY <1>1, <1>2, <1>3

\* A step of one call keeps the types.
LEMMA TypeStep ==
  ASSUME TypeOK, NEW c \in Calls, Propose(c) \/ Step(c)
  PROVE  TypeOK'
<1> USE DEF Goto, Deny
<1> DEFINE StepTypes == pc' \in [Calls -> Steps] /\ denial' \in [Calls -> Reasons \cup {"none"}]
<1>0. inv[c].target \in Targets /\ readAt[c] \in Nat
  BY PipelineAssumption DEF TypeOK, InvocationRecord
<1>1. CASE Propose(c)
  BY <1>1, AuditType, SharedTypes DEF Propose, TypeOK, Steps, Terminal, SharedUnchanged, historyVars
<1>2. CASE CheckKill(c)
  BY <1>2, SharedTypes DEF CheckKill, TypeOK, Steps, Admittable, Reasons, SharedUnchanged, historyVars
<1>3. CASE CheckScope(c)
  BY <1>3, SharedTypes DEF CheckScope, TypeOK, Steps, Admittable, Reasons, SharedUnchanged, historyVars
<1>4. CASE CheckApproval(c)
  BY <1>4, SharedTypes DEF CheckApproval, TypeOK, Steps, Admittable, Terminal, Reasons, SharedUnchanged, historyVars
<1>5. CASE ReadClock(c)
  BY <1>5, SharedTypes DEF ReadClock, TypeOK, Steps, Admittable, SharedUnchanged, historyVars
<1>6. CASE AcquireSlot(c)
  <2>1. LimiterTypeOK'
    BY <1>0, <1>6, LimiterKeepsTypes, SharedTypes DEF AcquireSlot, RefuseBudget, TypeOK
  <2>2. disordered' \subseteq Targets
    BY <1>0, <1>6 DEF AcquireSlot, NoteOrder, TypeOK
  <2>3. StepTypes
    BY <1>6 DEF AcquireSlot, TypeOK, Steps, Executing, Reasons
  <2> QED BY <1>6, <2>1, <2>2, <2>3, SharedTypes DEF AcquireSlot, TypeOK
<1>7. CASE AuditDenied(c)
  BY <1>7, AuditType, SharedTypes DEF AuditDenied, TypeOK, Steps, Terminal, SharedUnchanged, historyVars
<1>8. CASE AuditExec(c)
  BY <1>8, AuditType, SharedTypes DEF AuditExec, TypeOK, Steps, Executing, SharedUnchanged, historyVars
<1>9. CASE Run(c)
  BY <1>9, SharedTypes DEF Run, EnterRunner, Spawn, Finish, TypeOK, Steps, Executing, Unwinding, Ended,
     SharedUnchanged, historyVars
<1>10. CASE Settle(c)
  BY <1>0, <1>10, LimiterKeepsTypes, SharedTypes
     DEF Settle, ReleaseOnError, ReleaseAfterError, ReleaseOnSuccess, ReleaseStep, TypeOK,
         Steps, Unwinding, Terminal, Ended, historyVars
<1>11. CASE AuditError(c)
  BY <1>11, AuditType, SharedTypes DEF AuditError, TypeOK, Steps, Unwinding, SharedUnchanged, historyVars
<1>12. CASE AuditResult(c)
  BY <1>12, AuditType, SharedTypes DEF AuditResult, TypeOK, Steps, Terminal, Ended, SharedUnchanged, historyVars
<1> QED BY <1>1, <1>2, <1>3, <1>4, <1>5, <1>6, <1>7, <1>8, <1>9, <1>10, <1>11, <1>12
        DEF Step, Gate, Record

\* A step of an operator, an approver or the clock keeps the types.
LEMMA TypeEnvironment ==
  ASSUME TypeOK, Environment
  PROVE  TypeOK'
<1>1. CASE Tick
  BY <1>1, SharedTypes, PipelineAssumption DEF Tick, TypeOK, callVars, historyVars
<1>2. CASE OperatorResets
  <2>1. resets' \in 0..MaxResets
    BY <1>2, PipelineAssumption DEF OperatorResets, Reset, KillTypeOK, TypeOK
  <2>2. KillTypeOK'
    BY <1>2, <2>1 DEF OperatorResets, Reset, KillTypeOK, TypeOK
  <2> QED BY <1>2, <2>2, SharedTypes DEF OperatorResets, TypeOK, callVars
<1>3. ASSUME NEW o \in Operators, OperatorEngages(o) PROVE TypeOK'
  BY <1>3, SharedTypes DEF OperatorEngages, Engage, KillTypeOK, TypeOK, callVars, PastKillCheck
<1>4. ASSUME NEW o \in Operators, OperatorRunsHooks(o) PROVE TypeOK'
  BY <1>4, SharedTypes DEF OperatorRunsHooks, RunHooks, KillTypeOK, TypeOK, callVars, PastRunnerCheck
<1>5. ASSUME NEW r \in Requests, RequestApproval(r) PROVE TypeOK'
  BY <1>5, SharedTypes DEF RequestApproval, Create, ApprovalTypeOK, TypeOK, callVars, historyVars
<1>6. ASSUME NEW r \in Requests, NEW d \in Decisions, NEW name \in Names, ResolveApproval(r, d, name)
      PROVE TypeOK'
  BY <1>6, SharedTypes DEF ResolveApproval, SignOff, Resolve, ApprovalTypeOK, TypeOK, callVars
<1> QED BY <1>1, <1>2, <1>3, <1>4, <1>5, <1>6 DEF Environment

LEMMA TypeStutter == TypeOK /\ UNCHANGED vars => TypeOK'
BY SharedTypes DEF TypeOK, vars, callVars, historyVars

\* Type correctness of SafetyPipeline.execute and of what it shares.
THEOREM TypeCorrect == Spec => []TypeOK
<1>1. TypeOK /\ [Next]_vars => TypeOK'
  BY TypeStep, TypeEnvironment, TypeStutter DEF Next
<1> QED BY TypeInit, <1>1, PTL DEF Spec
-----------------------------------------------------------------------------
\* The inductive form of TrailMatchesCall: what a call has appended at every
\* step, and that only a denied call has a denial.
Proposed == {"kill", "scope", "approval", "timing", "limit", "exec", "denying"}
InSandbox == {"runner", "spawning", "running", "leaving", "resulting", "unrecorded"}

TrailFits(c) ==
  /\ pc[c] = "new" => trail[c] = <<>>
  /\ pc[c] \in Proposed => trail[c] = <<"proposed">>
  /\ pc[c] \in InSandbox => trail[c] = <<"proposed", "exec">>
  /\ pc[c] \in {"failing", "erring", "breaking", "broken"}
       => trail[c] \in {<<"proposed">>, <<"proposed", "exec">>}
  /\ pc[c] = "denied" => trail[c] = <<"proposed", "denied">>
  /\ pc[c] \in {"unwinding", "errored"}
       => trail[c] \in {<<"proposed", "error">>, <<"proposed", "exec", "error">>}
  /\ pc[c] = "completed" => trail[c] = <<"proposed", "exec", "result">>
  /\ pc[c] \in {"denying", "denied"} => denial[c] # "none"
  /\ denial[c] # "none" => pc[c] \in {"denying", "denied", "raised"}

TrailInv == \A c \in Calls : TrailFits(c)

Events == {"proposed", "denied", "exec", "error", "result"}

\* Append on the trails of one and of two events.
LEMMA AppendSecond ==
  ASSUME NEW a \in Events, NEW b \in Events
  PROVE  Append(<<a>>, b) = <<a, b>>
<1>1. <<a>> \in Seq(Events) /\ <<a, b>> \in Seq(Events)
  OBVIOUS
<1>2. Append(<<a>>, b) \in Seq(Events) /\ Len(Append(<<a>>, b)) = 2 /\ Len(<<a, b>>) = 2
  BY <1>1, AppendProperties
<1>3. \A i \in 1..2 : Append(<<a>>, b)[i] = <<a, b>>[i]
  BY <1>1, AppendProperties
<1> QED BY <1>1, <1>2, <1>3, SeqEqual

LEMMA AppendThird ==
  ASSUME NEW a \in Events, NEW b \in Events, NEW c \in Events
  PROVE  Append(<<a, b>>, c) = <<a, b, c>>
<1>1. <<a, b>> \in Seq(Events) /\ <<a, b, c>> \in Seq(Events)
  OBVIOUS
<1>2. Append(<<a, b>>, c) \in Seq(Events) /\ Len(Append(<<a, b>>, c)) = 3 /\ Len(<<a, b, c>>) = 3
  BY <1>1, AppendProperties
<1>3. \A i \in 1..3 : Append(<<a, b>>, c)[i] = <<a, b, c>>[i]
  BY <1>1, AppendProperties
<1> QED BY <1>1, <1>2, <1>3, SeqEqual

\* Steps that append an event, and what the trail is then.
LEMMA Appended ==
  /\ Append(<<>>, "proposed") = <<"proposed">>
  /\ Append(<<"proposed">>, "denied") = <<"proposed", "denied">>
  /\ Append(<<"proposed">>, "exec") = <<"proposed", "exec">>
  /\ Append(<<"proposed">>, "error") = <<"proposed", "error">>
  /\ Append(<<"proposed", "exec">>, "error") = <<"proposed", "exec", "error">>
  /\ Append(<<"proposed", "exec">>, "result") = <<"proposed", "exec", "result">>
<1>1. Append(<<>>, "proposed") = <<"proposed">>
  OBVIOUS
<1>2. Append(<<"proposed">>, "denied") = <<"proposed", "denied">>
      /\ Append(<<"proposed">>, "exec") = <<"proposed", "exec">>
      /\ Append(<<"proposed">>, "error") = <<"proposed", "error">>
  BY AppendSecond DEF Events
<1>3. Append(<<"proposed", "exec">>, "error") = <<"proposed", "exec", "error">>
      /\ Append(<<"proposed", "exec">>, "result") = <<"proposed", "exec", "result">>
  BY AppendThird DEF Events
<1> QED BY <1>1, <1>2, <1>3

\* Writing one event, or failing to, moves one call and no denial.
LEMMA TrailMoves ==
  ASSUME TypeOK, TrailInv, NEW c \in Calls, TrailFits(c)',
         \A d \in Calls : d # c => pc'[d] = pc[d] /\ trail'[d] = trail[d] /\ denial'[d] = denial[d]
  PROVE  TrailInv'
<1>1. ASSUME NEW d \in Calls, d # c PROVE TrailFits(d)'
  BY <1>1 DEF TrailInv, TrailFits
<1> QED BY <1>1 DEF TrailInv

\* A step of a call keeps its trail and its denial in accord with its pc; the
\* other calls are not touched.
LEMMA TrailStep ==
  ASSUME TypeOK, TrailInv, NEW c \in Calls, Propose(c) \/ Step(c)
  PROVE  TrailInv'
<1> USE DEF Goto, Deny, Proposed, InSandbox
<1>0. pc \in [Calls -> Steps] /\ trail \in [Calls -> Seq({"proposed", "denied", "exec", "error", "result"})]
      /\ denial \in [Calls -> Reasons \cup {"none"}] /\ TrailFits(c)
  BY DEF TypeOK, TrailInv
<1>a. ASSUME Propose(c) \/ Record(c)
      PROVE  /\ UNCHANGED denial
             /\ \A d \in Calls : d # c => pc'[d] = pc[d] /\ trail'[d] = trail[d] /\ denial'[d] = denial[d]
  BY <1>0, <1>a DEF Propose, Record, AuditDenied, AuditExec, AuditError, AuditResult, Audit
<1>1. CASE Propose(c)
  <2>1. TrailFits(c)'
    BY <1>0, <1>1, Appended DEF Propose, Audit, TrailFits
  <2> QED BY <1>1, <1>a, <2>1, TrailMoves
<1>2. CASE CheckKill(c)
  BY <1>0, <1>2 DEF CheckKill, TrailInv, TrailFits
<1>3. CASE CheckScope(c)
  BY <1>0, <1>3 DEF CheckScope, TrailInv, TrailFits
<1>4. CASE CheckApproval(c)
  BY <1>0, <1>4 DEF CheckApproval, TrailInv, TrailFits
<1>5. CASE ReadClock(c)
  BY <1>0, <1>5 DEF ReadClock, TrailInv, TrailFits
<1>6. CASE AcquireSlot(c)
  BY <1>0, <1>6 DEF AcquireSlot, TrailInv, TrailFits
<1>7. CASE Run(c)
  <2>1. CASE EnterRunner(c)
    BY <1>0, <2>1 DEF EnterRunner, TrailInv, TrailFits
  <2>2. CASE Spawn(c)
    BY ZenonT(40), <1>0, <2>2 DEF Spawn, TrailInv, TrailFits
  <2>3. CASE Finish(c)
    BY ZenonT(40), <1>0, <2>3 DEF Finish, TrailInv, TrailFits
  <2> QED BY <1>7, <2>1, <2>2, <2>3 DEF Run
<1>8. CASE Settle(c)
  BY <1>0, <1>8 DEF Settle, ReleaseOnError, ReleaseAfterError, ReleaseOnSuccess, ReleaseStep,
                    TrailInv, TrailFits
<1>9. CASE AuditDenied(c)
  <2>1. trail[c] = <<"proposed">> /\ pc[c] = "denying" /\ denial[c] # "none"
    BY <1>0, <1>9 DEF AuditDenied, Audit, TrailFits
  <2>2. \/ pc'[c] = "denied" /\ trail'[c] = <<"proposed", "denied">>
        \/ pc'[c] = "raised" /\ trail'[c] = trail[c]
    BY <1>0, <1>9, <2>1, Appended DEF AuditDenied, Audit
  <2>3. TrailFits(c)'
    BY <1>9, <1>a, <2>1, <2>2 DEF Record, TrailFits
  <2> QED BY <1>9, <1>a, <2>3, TrailMoves DEF Record
<1>10. CASE AuditExec(c)
  <2>1. trail[c] = <<"proposed">> /\ pc[c] = "exec" /\ denial[c] = "none"
    BY <1>0, <1>10 DEF AuditExec, Audit, TrailFits
  <2>2. \/ pc'[c] = "runner" /\ trail'[c] = <<"proposed", "exec">>
        \/ pc'[c] = "failing" /\ trail'[c] = trail[c]
    BY <1>0, <1>10, <2>1, Appended DEF AuditExec, Audit
  <2>3. TrailFits(c)'
    BY <1>10, <1>a, <2>1, <2>2 DEF Record, TrailFits
  <2> QED BY <1>10, <1>a, <2>3, TrailMoves DEF Record
<1>11. CASE AuditError(c)
  <2>1. trail[c] \in {<<"proposed">>, <<"proposed", "exec">>} /\ pc[c] = "erring" /\ denial[c] = "none"
    BY <1>0, <1>11 DEF AuditError, Audit, TrailFits
  <2>2. \/ pc'[c] = "unwinding" /\ trail'[c] = Append(trail[c], "error")
        \/ pc'[c] = "breaking" /\ trail'[c] = trail[c]
    BY <1>0, <1>11 DEF AuditError, Audit
  <2>3. Append(trail[c], "error") \in {<<"proposed", "error">>, <<"proposed", "exec", "error">>}
    BY <2>1, Appended
  <2>4. TrailFits(c)'
    BY <1>11, <1>a, <2>1, <2>2, <2>3 DEF Record, TrailFits
  <2> QED BY <1>11, <1>a, <2>4, TrailMoves DEF Record
<1>12. CASE AuditResult(c)
  <2>1. trail[c] = <<"proposed", "exec">> /\ pc[c] = "resulting" /\ denial[c] = "none"
    BY <1>0, <1>12 DEF AuditResult, Audit, TrailFits
  <2>2. \/ pc'[c] = "completed" /\ trail'[c] = <<"proposed", "exec", "result">>
        \/ pc'[c] = "unrecorded" /\ trail'[c] = trail[c]
    BY <1>0, <1>12, <2>1, Appended DEF AuditResult, Audit
  <2>3. TrailFits(c)'
    BY <1>12, <1>a, <2>1, <2>2 DEF Record, TrailFits
  <2> QED BY <1>12, <1>a, <2>3, TrailMoves DEF Record
<1> QED BY <1>1, <1>2, <1>3, <1>4, <1>5, <1>6, <1>7, <1>8, <1>9, <1>10, <1>11, <1>12
        DEF Step, Gate, Record

\* Nobody but its own thread moves a call.
LEMMA EnvironmentKeepsCalls == Environment \/ UNCHANGED vars => UNCHANGED callVars
BY DEF Environment, Tick, OperatorResets, OperatorEngages, OperatorRunsHooks,
       RequestApproval, ResolveApproval, vars

\* Trails and denials agree with the calls in every reachable state.
LEMMA TrailInvariant == Spec => []TrailInv
<1>1. Init => TrailInv
  BY DEF Init, TrailInv, TrailFits, Proposed, InSandbox
<1>2. TypeOK /\ TrailInv /\ [Next]_vars => TrailInv'
  <2>1. ASSUME TrailInv, UNCHANGED callVars PROVE TrailInv'
    BY <2>1 DEF TrailInv, TrailFits, callVars
  <2> QED BY <2>1, TrailStep, EnvironmentKeepsCalls DEF Next
<1> QED BY TypeCorrect, <1>1, <1>2, PTL DEF Spec

\* The audit log tells of every call what happened to it (TrailMatchesCall).
THEOREM TrailsMatch == Spec => []TrailMatchesCall
<1>1. TrailInv => TrailMatchesCall
  BY DEF TrailInv, TrailFits, TrailMatchesCall, Proposed, InSandbox, PastGates, Executing, Unwinding, Ended
<1> QED BY TrailInvariant, <1>1, PTL
-----------------------------------------------------------------------------
\* The inductive form of ActiveRunsWereApproved: what the store shows approved
\* was approved by a named approver, and so was every active call beyond the
\* approval gate, whatever happened to its request afterwards.
PastApproval == {"timing", "limit"} \cup Executing \cup Unwinding \cup Ended

ApprovalInv ==
  /\ \A r \in Requests : decision[r] = "approved" => r \in approvedOnce
  /\ \A c \in Calls : pc[c] \in PastApproval /\ inv[c].active => inv[c].approval \in approvedOnce

\* A call passes the approval gate only on what the store shows at that moment.
LEMMA ApprovalStep ==
  ASSUME TypeOK, ApprovalInv, NEW c \in Calls, Propose(c) \/ Step(c)
  PROVE  ApprovalInv'
<1> USE DEF Goto, Deny, PastApproval, Executing, Unwinding, Ended
<1>0. pc \in [Calls -> Steps]
  BY DEF TypeOK
<1>1. CASE Propose(c)
  BY <1>0, <1>1 DEF Propose, Audit, ApprovalInv, SharedUnchanged, approvalVars, historyVars
<1>2. CASE CheckKill(c)
  BY <1>0, <1>2 DEF CheckKill, ApprovalInv, SharedUnchanged, approvalVars, historyVars
<1>3. CASE CheckScope(c)
  BY <1>0, <1>3 DEF CheckScope, ApprovalInv, SharedUnchanged, approvalVars, historyVars
<1>4. CASE CheckApproval(c)
  BY <1>0, <1>4 DEF CheckApproval, Approved, IsApproved, ApprovalInv, SharedUnchanged, approvalVars, historyVars
<1>5. CASE ReadClock(c)
  BY <1>0, <1>5 DEF ReadClock, ApprovalInv, SharedUnchanged, approvalVars, historyVars
<1>6. CASE AcquireSlot(c)
  BY <1>0, <1>6 DEF AcquireSlot, ApprovalInv, approvalVars
<1>7. CASE Run(c)
  BY <1>0, <1>7 DEF Run, EnterRunner, Spawn, Finish, ApprovalInv, SharedUnchanged, approvalVars, historyVars
<1>8. CASE Settle(c)
  BY <1>0, <1>8 DEF Settle, ReleaseOnError, ReleaseAfterError, ReleaseOnSuccess, ReleaseStep,
                    ApprovalInv, approvalVars, historyVars
<1>9. CASE Record(c)
  BY <1>0, <1>9 DEF Record, AuditDenied, AuditExec, AuditError, AuditResult, Audit,
                    ApprovalInv, SharedUnchanged, approvalVars, historyVars
<1> QED BY <1>1, <1>2, <1>3, <1>4, <1>5, <1>6, <1>7, <1>8, <1>9 DEF Step, Gate

\* Only a sign-off makes a request approved, and the history remembers it.
LEMMA ApprovalEnvironment ==
  ASSUME TypeOK, ApprovalInv, Environment
  PROVE  ApprovalInv'
<1>0. decision \in [Requests -> {"absent", "pending"} \cup Decisions] /\ UNCHANGED callVars
  BY EnvironmentKeepsCalls DEF TypeOK, ApprovalTypeOK
<1>1. CASE UNCHANGED <<approvalVars, approvedOnce>>
  BY <1>0, <1>1 DEF ApprovalInv, callVars, approvalVars
<1>2. ASSUME NEW r \in Requests, RequestApproval(r) PROVE ApprovalInv'
  BY <1>0, <1>2 DEF RequestApproval, Create, ApprovalInv, callVars, historyVars
<1>3. ASSUME NEW r \in Requests, NEW d \in Decisions, NEW name \in Names, ResolveApproval(r, d, name)
      PROVE ApprovalInv'
  BY <1>0, <1>3 DEF ResolveApproval, SignOff, Resolve, ApprovalInv, callVars
<1> QED BY <1>1, <1>2, <1>3 DEF Environment, Tick, OperatorResets, OperatorEngages,
                                OperatorRunsHooks, historyVars

\* The tool of an active-validate call runs only under an id that a named
\* approver approved (ActiveRunsWereApproved).
THEOREM ActiveRunsApproved == Spec => []ActiveRunsWereApproved
<1>1. Init => ApprovalInv
  BY DEF Init, ApprovalInit, ApprovalInv, PastApproval, Executing, Unwinding, Ended
<1>2. TypeOK /\ ApprovalInv /\ [Next]_vars => ApprovalInv'
  <2>1. ASSUME ApprovalInv, UNCHANGED vars PROVE ApprovalInv'
    BY <2>1 DEF ApprovalInv, vars, approvalVars, callVars, historyVars
  <2> QED BY <2>1, ApprovalStep, ApprovalEnvironment DEF Next
<1>3. ApprovalInv => ActiveRunsWereApproved
  BY DEF ApprovalInv, ActiveRunsWereApproved, PastApproval, PastGates
<1> QED BY TypeCorrect, <1>1, <1>2, <1>3, PTL DEF Spec
-----------------------------------------------------------------------------
\* The inductive form of BudgetRespected: the counter of the limiter counts
\* the calls it admitted.
BudgetInv == totalActions = Cardinality(PastGates)

LEMMA AdmittedFinite == IsFiniteSet(PastGates)
BY PipelineAssumption, FS_Subset DEF PastGates

\* Only acquire admits a call, and it counts it; no later step moves a call
\* out of the admitted ones or moves the counter.
LEMMA BudgetStep ==
  ASSUME TypeOK, BudgetInv, NEW c \in Calls, Propose(c) \/ Step(c)
  PROVE  BudgetInv'
<1> USE DEF Goto, Deny
<1>0. pc \in [Calls -> Steps] /\ inv[c].target \in Targets /\ readAt[c] \in Nat /\ LimiterTypeOK
  BY PipelineAssumption DEF TypeOK, InvocationRecord
<1>1. ASSUME totalActions' = totalActions, PastGates' = PastGates PROVE BudgetInv'
  BY <1>1 DEF BudgetInv
<1>2. CASE Propose(c)
  <2>1. PastGates' = PastGates
    BY <1>0, <1>2 DEF Propose, Audit, PastGates, Executing, Unwinding, Ended
  <2> QED BY <1>1, <1>2, <2>1 DEF Propose, SharedUnchanged, limiterVars
<1>3. CASE CheckKill(c) \/ CheckScope(c) \/ CheckApproval(c) \/ ReadClock(c)
  <2>1. PastGates' = PastGates
    BY <1>0, <1>3 DEF CheckKill, CheckScope, CheckApproval, ReadClock, PastGates, Executing, Unwinding, Ended
  <2> QED BY <1>1, <1>3, <2>1
          DEF CheckKill, CheckScope, CheckApproval, ReadClock, SharedUnchanged, limiterVars
<1>4. CASE AcquireSlot(c)
  <2>1. CASE Goto(c, "limit", "exec") /\ Acquire(inv[c].target, readAt[c])
    <3>1. PastGates' = PastGates \cup {c} /\ c \notin PastGates
      BY <1>0, <2>1 DEF PastGates, Executing, Unwinding, Ended
    <3>2. Cardinality(PastGates') = Cardinality(PastGates) + 1
      BY <3>1, AdmittedFinite, FS_AddElement
    <3> QED BY <2>1, <3>2 DEF Acquire, BudgetInv
  <2>2. CASE pc[c] = "limit" /\ pc' = [pc EXCEPT ![c] = "denying"] /\ totalActions' = totalActions
    <3>1. PastGates' = PastGates
      BY <1>0, <2>2 DEF PastGates, Executing, Unwinding, Ended
    <3> QED BY <1>1, <2>2, <3>1
  <2> QED BY <1>4, <2>1, <2>2 DEF AcquireSlot, RefuseBudget, RefuseRate, limiterVars
<1>5. CASE Run(c)
  <2>1. PastGates' = PastGates
    BY <1>0, <1>5 DEF Run, EnterRunner, Spawn, Finish, PastGates, Executing, Unwinding, Ended
  <2> QED BY <1>1, <1>5, <2>1 DEF Run, EnterRunner, Spawn, Finish, SharedUnchanged, limiterVars
<1>6. CASE Settle(c)
  <2>1. PastGates' = PastGates
    BY <1>0, <1>6 DEF Settle, ReleaseOnError, ReleaseAfterError, ReleaseOnSuccess, ReleaseStep,
                      PastGates, Executing, Unwinding, Ended
  <2>2. Release(inv[c].target)
    BY <1>6 DEF Settle, ReleaseOnError, ReleaseAfterError, ReleaseOnSuccess, ReleaseStep
  <2> QED BY <1>1, <2>1, <2>2 DEF Release
<1>7. CASE Record(c)
  <2>1. PastGates' = PastGates
    BY <1>0, <1>7 DEF Record, AuditDenied, AuditExec, AuditError, AuditResult, Audit,
                      PastGates, Executing, Unwinding, Ended
  <2> QED BY <1>1, <1>7, <2>1 DEF Record, AuditDenied, AuditExec, AuditError, AuditResult, Audit,
                                  SharedUnchanged, limiterVars
<1> QED BY <1>2, <1>3, <1>4, <1>5, <1>6, <1>7 DEF Step, Gate

\* The budget of the engagement bounds the tools ever run (BudgetRespected).
THEOREM BudgetHolds == Spec => []BudgetRespected
<1>1. Init => BudgetInv
  <2> SUFFICES ASSUME Init PROVE BudgetInv
    OBVIOUS
  <2>1. PastGates = {}
    BY DEF Init, PastGates, Executing, Unwinding, Ended
  <2> QED BY <2>1, FS_EmptySet DEF Init, LimiterInit, BudgetInv
<1>2. TypeOK /\ BudgetInv /\ [Next]_vars => BudgetInv'
  <2>1. ASSUME BudgetInv, UNCHANGED callVars, UNCHANGED limiterVars PROVE BudgetInv'
    BY <2>1 DEF BudgetInv, PastGates, callVars, limiterVars
  <2>2. Environment \/ UNCHANGED vars => UNCHANGED limiterVars
    BY DEF Environment, Tick, OperatorResets, OperatorEngages, OperatorRunsHooks,
           RequestApproval, ResolveApproval, vars
  <2> QED BY <2>1, <2>2, BudgetStep, EnvironmentKeepsCalls DEF Next
<1>3. TypeOK /\ BudgetInv => BudgetRespected
  BY LimiterAssumption DEF TypeOK, LimiterTypeOK, BudgetInv, BudgetRespected
<1> QED BY TypeCorrect, <1>1, <1>2, <1>3, PTL DEF Spec
-----------------------------------------------------------------------------
\* While the switch is engaged, whoever is between its check and the end of
\* the tool was already past the check when it was engaged; and whoever is
\* past the runner's check, once that is revoked, was so when it was revoked.
PastKill == Admittable \cup Executing

KillInv ==
  /\ engaged => \A c \in Calls : pc[c] \in PastKill => c \in graceKill
  /\ revoked => \A c \in Calls : pc[c] \in {"spawning", "running"} => c \in graceRunner

\* No step of a call gets past the switch's check while it is engaged, nor past
\* the runner's once it is revoked; calls change none of the kill variables.
LEMMA KillStep ==
  ASSUME TypeOK, KillInv, NEW c \in Calls, Propose(c) \/ Step(c)
  PROVE  KillInv' /\ UNCHANGED <<killVars, graceKill, graceRunner>>
<1> USE DEF Goto, Deny, PastKill, Admittable, Executing
<1>0. pc \in [Calls -> Steps]
  BY DEF TypeOK
<1>1. CASE Propose(c)
  BY <1>0, <1>1 DEF Propose, Audit, KillInv, SharedUnchanged, killVars, historyVars
<1>2. CASE CheckKill(c)
  BY <1>0, <1>2 DEF CheckKill, KillInv, SharedUnchanged, killVars, historyVars
<1>3. CASE CheckScope(c)
  BY <1>0, <1>3 DEF CheckScope, KillInv, SharedUnchanged, killVars, historyVars
<1>4. CASE CheckApproval(c)
  BY <1>0, <1>4 DEF CheckApproval, KillInv, SharedUnchanged, killVars, historyVars
<1>5. CASE ReadClock(c)
  BY <1>0, <1>5 DEF ReadClock, KillInv, SharedUnchanged, killVars, historyVars
<1>6. CASE AcquireSlot(c)
  BY <1>0, <1>6 DEF AcquireSlot, KillInv, killVars
<1>7. CASE Run(c)
  BY <1>0, <1>7 DEF Run, EnterRunner, Spawn, Finish, KillInv, SharedUnchanged, killVars, historyVars
<1>8. CASE Settle(c)
  BY <1>0, <1>8 DEF Settle, ReleaseOnError, ReleaseAfterError, ReleaseOnSuccess, ReleaseStep,
                    KillInv, killVars, historyVars
<1>9. CASE Record(c)
  BY <1>0, <1>9 DEF Record, AuditDenied, AuditExec, AuditError, AuditResult, Audit,
                    KillInv, SharedUnchanged, killVars, historyVars
<1> QED BY <1>1, <1>2, <1>3, <1>4, <1>5, <1>6, <1>7, <1>8, <1>9 DEF Step, Gate

\* Engaging the switch, running its hook and resetting it keep the invariant:
\* the two grace sets are taken at those moments.
LEMMA KillEnvironment ==
  ASSUME TypeOK, KillInv, Environment
  PROVE  KillInv'
<1> USE DEF PastKill, Admittable, Executing
<1>0. UNCHANGED callVars
  BY EnvironmentKeepsCalls
<1>1. CASE UNCHANGED <<killVars, graceKill, graceRunner>>
  BY <1>0, <1>1 DEF KillInv, killVars, callVars
<1>2. CASE OperatorResets
  BY <1>0, <1>2 DEF OperatorResets, Reset, KillInv, callVars
<1>3. ASSUME NEW o \in Operators, OperatorEngages(o) PROVE KillInv'
  BY <1>0, <1>3 DEF OperatorEngages, Engage, PastKillCheck, KillInv, callVars
<1>4. ASSUME NEW o \in Operators, OperatorRunsHooks(o) PROVE KillInv'
  BY <1>0, <1>4 DEF OperatorRunsHooks, RunHooks, PastRunnerCheck, KillInv, callVars
<1> QED BY <1>1, <1>2, <1>3, <1>4 DEF Environment, Tick, RequestApproval, ResolveApproval, historyVars

\* The kill invariant holds in every reachable state.
LEMMA KillInvariant == Spec => []KillInv
<1>1. Init => KillInv
  BY DEF Init, KillInit, KillInv
<1>2. TypeOK /\ KillInv /\ [Next]_vars => KillInv'
  <2>1. ASSUME KillInv, UNCHANGED vars PROVE KillInv'
    BY <2>1 DEF KillInv, vars, killVars, callVars, historyVars
  <2> QED BY <2>1, KillStep, KillEnvironment DEF Next
<1> QED BY TypeCorrect, <1>1, <1>2, PTL DEF Spec

\* A step that starts a process is the spawn of a call past the runner's check.
LEMMA OnlySpawnStarts ==
  ASSUME TypeOK, [Next]_vars, NEW c \in Calls, c \notin Running, c \in Running'
  PROVE  pc[c] = "spawning"
<1> USE DEF Goto, Deny, Running
<1>0. pc \in [Calls -> Steps]
  BY DEF TypeOK
<1>1. ~(UNCHANGED callVars)
  BY DEF callVars
<1>2. PICK d \in Calls : Propose(d) \/ Step(d)
  BY <1>1, EnvironmentKeepsCalls DEF Next
<1>3. CASE Propose(d) \/ Gate(d) \/ ReadClock(d)
  BY <1>0, <1>3 DEF Propose, Audit, Gate, CheckKill, CheckScope, CheckApproval, AcquireSlot, ReadClock
<1>4. CASE Run(d)
  BY <1>0, <1>4 DEF Run, EnterRunner, Spawn, Finish
<1>5. CASE Settle(d)
  BY <1>0, <1>5 DEF Settle, ReleaseOnError, ReleaseAfterError, ReleaseOnSuccess, ReleaseStep
<1>6. CASE Record(d)
  BY <1>0, <1>6 DEF Record, AuditDenied, AuditExec, AuditError, AuditResult, Audit
<1> QED BY <1>2, <1>3, <1>4, <1>5, <1>6 DEF Step

\* An engaged switch lets only calls start that had passed its check before
\* (KillStopsNewCalls).
THEOREM KillStops == Spec => KillStopsNewCalls
<1>1. TypeOK /\ KillInv /\ [Next]_vars =>
        [\A c \in Calls : engaged /\ c \notin Running /\ c \in Running' => c \in graceKill]_vars
  BY OnlySpawnStarts DEF KillInv, PastKill, Executing
<1> QED BY TypeCorrect, KillInvariant, <1>1, PTL DEF Spec, KillStopsNewCalls

\* A revoked runner starts only the processes of calls that were past its
\* check when it was revoked (RevocationStopsRunner).
THEOREM RevocationStops == Spec => RevocationStopsRunner
<1>1. TypeOK /\ KillInv /\ [Next]_vars =>
        [\A c \in Calls : revoked /\ c \notin Running /\ c \in Running' => c \in graceRunner]_vars
  BY OnlySpawnStarts DEF KillInv
<1> QED BY TypeCorrect, KillInvariant, <1>1, PTL DEF Spec, RevocationStopsRunner
-----------------------------------------------------------------------------
\* The stage the limiter sees of every call, and the target of every call.
StageMap == [c \in Calls |-> Stage(c)]
TargetMap == [c \in Calls |-> inv[c].target]

\* A step that moves one call, and its denial if any, moves its stage only.
LEMMA StageMoves ==
  ASSUME TypeOK, NEW c \in Calls,
         \A d \in Calls : d # c => pc'[d] = pc[d] /\ denial'[d] = denial[d]
  PROVE  StageMap' = [StageMap EXCEPT ![c] = Stage(c)']
<1>1. \A d \in Calls : d # c => Stage(d)' = Stage(d)
  BY DEF Stage
<1> QED BY <1>1 DEF StageMap

\* A step of a call that the limiter takes no part in.
LEMMA SameStage ==
  ASSUME TypeOK, NEW c \in Calls, Stage(c)' = Stage(c),
         \A d \in Calls : d # c => pc'[d] = pc[d] /\ denial'[d] = denial[d],
         UNCHANGED <<limiterVars, inv, readAt, clock, disordered>>
  PROVE  UNCHANGED LimiterView!vars
<1>1. UNCHANGED StageMap
  BY StageMoves DEF StageMap
<1>2. UNCHANGED TargetMap
  BY DEF TargetMap
<1> QED BY <1>1, <1>2 DEF LimiterView!vars, StageMap, TargetMap, limiterVars

\* A step of a call is a step of LimitedActions or none: the slot is taken in
\* acquire, and given back in the except branch and in the finally clause.
LEMMA LimiterStep ==
  ASSUME TypeOK, TrailInv, NEW c \in Calls, Propose(c) \/ Step(c)
  PROVE  LimiterView!Next \/ UNCHANGED LimiterView!vars
<1> USE DEF Goto, Deny
<1>0. /\ pc \in [Calls -> Steps] /\ denial \in [Calls -> Reasons \cup {"none"}]
      /\ denial[c] # "none" => pc[c] \in {"denying", "denied", "raised"}
  BY DEF TypeOK, TrailInv, TrailFits
<1>a. UNCHANGED inv => UNCHANGED TargetMap
  BY DEF TargetMap
<1>b. TargetMap[c] = inv[c].target /\ StageMap[c] = Stage(c)
  BY DEF TargetMap, StageMap
<1>1. CASE Propose(c) \/ CheckKill(c) \/ CheckScope(c) \/ CheckApproval(c)
  <2>1. Stage(c)' = Stage(c)
    BY <1>0, <1>1 DEF Propose, Audit, CheckKill, CheckScope, CheckApproval, Stage
  <2> QED BY <1>0, <1>1, <2>1, SameStage
          DEF Propose, Audit, CheckKill, CheckScope, CheckApproval, SharedUnchanged, historyVars
<1>2. CASE ReadClock(c)
  <2>1. Stage(c) = "idle" /\ Stage(c)' = "timed"
    BY <1>0, <1>2 DEF ReadClock, Stage
  <2>2. StageMap' = [StageMap EXCEPT ![c] = "timed"]
    BY <1>0, <1>2, <2>1, StageMoves DEF ReadClock
  <2>3. LimiterView!ReadClock(c)
    BY <1>2, <1>a, <1>b, <2>1, <2>2
       DEF ReadClock, LimiterView!ReadClock, LimiterView!Move, StageMap, TargetMap,
           SharedUnchanged, historyVars, limiterVars, LimiterView!limiterVars
  <2> QED BY <2>3 DEF LimiterView!Next
<1>3. CASE AcquireSlot(c)
  <2>1. Stage(c) = "timed"
    BY <1>0, <1>3 DEF AcquireSlot, Stage
  <2>2. CASE Acquire(inv[c].target, readAt[c]) /\ NoteOrder(c) /\ Goto(c, "limit", "exec") /\ UNCHANGED denial
    <3>1. StageMap' = [StageMap EXCEPT ![c] = "holding"]
      <4>1. Stage(c)' = "holding"
        BY <1>0, <2>2 DEF Stage
      <4> QED BY <1>0, <2>2, <4>1, StageMoves
    <3>2. LimiterView!Admit(c)
      BY <1>3, <1>a, <1>b, <2>1, <2>2, <3>1
         DEF AcquireSlot, NoteOrder, LimiterView!Admit, LimiterView!Move, LimiterView!NoteOrder,
             StageMap, TargetMap, Acquire, LimiterView!Acquire, BudgetLeft, LimiterView!BudgetLeft,
             BelowCeilings, LimiterView!BelowCeilings, Refilled, LimiterView!Refilled,
             BucketAt, LimiterView!BucketAt, RefilledTokens, LimiterView!RefilledTokens,
             Burst, LimiterView!Burst
    <3> QED BY <3>2 DEF LimiterView!Next
  <2>3. CASE \/ RefuseBudget /\ UNCHANGED disordered /\ Deny(c, "limit", "BudgetExceeded")
             \/ RefuseRate(inv[c].target, readAt[c]) /\ NoteOrder(c) /\ Deny(c, "limit", "RateLimited")
    <3>1. StageMap' = [StageMap EXCEPT ![c] = "refused"]
      <4>1. Stage(c)' = "refused"
        BY <1>0, <2>3 DEF Stage
      <4> QED BY <1>0, <2>3, <4>1, StageMoves
    <3>2. LimiterView!Refuse(c)
      BY <1>3, <1>a, <1>b, <2>1, <2>3, <3>1
         DEF AcquireSlot, NoteOrder, LimiterView!Refuse, LimiterView!Move, LimiterView!NoteOrder,
             StageMap, TargetMap, RefuseBudget, LimiterView!RefuseBudget,
             RefuseRate, LimiterView!RefuseRate, BudgetLeft, LimiterView!BudgetLeft,
             BelowCeilings, LimiterView!BelowCeilings, Refilled, LimiterView!Refilled,
             BucketAt, LimiterView!BucketAt, RefilledTokens, LimiterView!RefilledTokens,
             Burst, LimiterView!Burst, limiterVars, LimiterView!limiterVars
    <3> QED BY <3>2 DEF LimiterView!Next
  <2> QED BY <1>3, <2>2, <2>3 DEF AcquireSlot
<1>4. CASE Run(c) \/ Record(c)
  <2>1. Stage(c)' = Stage(c)
    BY <1>0, <1>4 DEF Run, EnterRunner, Spawn, Finish, Record, AuditDenied, AuditExec,
                      AuditError, AuditResult, Audit, Stage
  <2> QED BY <1>0, <1>4, <2>1, SameStage
          DEF Run, EnterRunner, Spawn, Finish, Record, AuditDenied, AuditExec,
              AuditError, AuditResult, Audit, SharedUnchanged, historyVars
<1>5. CASE Settle(c)
  <2>1. UNCHANGED <<inv, readAt, clock, disordered>> /\ LimiterView!Release(TargetMap[c])
    BY <1>5, <1>b DEF Settle, ReleaseOnError, ReleaseAfterError, ReleaseOnSuccess, ReleaseStep,
                      historyVars, Release, LimiterView!Release
  <2>2. \A d \in Calls : d # c => pc'[d] = pc[d] /\ denial'[d] = denial[d]
    BY <1>0, <1>5 DEF Settle, ReleaseOnError, ReleaseAfterError, ReleaseOnSuccess, ReleaseStep
  <2>3. CASE ReleaseOnError(c)
    <3>1. Stage(c) = "holding" /\ Stage(c)' = "failing"
      BY <1>0, <2>3 DEF ReleaseOnError, ReleaseStep, Stage
    <3>2. LimiterView!Fail(c)
      BY <1>a, <1>b, <2>1, <2>2, <3>1, StageMoves
         DEF LimiterView!Fail, LimiterView!Move, StageMap, TargetMap
    <3> QED BY <3>2 DEF LimiterView!Next
  <2>4. CASE ReleaseAfterError(c)
    <3>1. Stage(c) = "failing" /\ Stage(c)' = "failed"
      BY <1>0, <2>4 DEF ReleaseAfterError, ReleaseStep, Stage
    <3>2. LimiterView!FailAgain(c)
      BY <1>a, <1>b, <2>1, <2>2, <3>1, StageMoves
         DEF LimiterView!FailAgain, LimiterView!Move, StageMap, TargetMap
    <3> QED BY <3>2 DEF LimiterView!Next
  <2>5. CASE ReleaseOnSuccess(c)
    <3>1. Stage(c) = "holding" /\ Stage(c)' = "returned"
      BY <1>0, <2>5 DEF ReleaseOnSuccess, ReleaseStep, Stage
    <3>2. LimiterView!Return(c)
      BY <1>a, <1>b, <2>1, <2>2, <3>1, StageMoves
         DEF LimiterView!Return, LimiterView!Move, StageMap, TargetMap
    <3> QED BY <3>2 DEF LimiterView!Next
  <2> QED BY <1>5, <2>3, <2>4, <2>5 DEF Settle
<1> QED BY <1>1, <1>2, <1>3, <1>4, <1>5 DEF Step, Gate

\* Operators and approvers are nothing to the limiter; the clock is its clock.
LEMMA LimiterEnvironment ==
  ASSUME Environment \/ UNCHANGED vars
  PROVE  LimiterView!Next \/ UNCHANGED LimiterView!vars
<1>1. UNCHANGED StageMap /\ UNCHANGED TargetMap /\ UNCHANGED <<readAt, limiterVars, disordered>>
  BY EnvironmentKeepsCalls DEF StageMap, TargetMap, Stage, callVars, Environment, Tick,
     OperatorResets, OperatorEngages, OperatorRunsHooks, RequestApproval, ResolveApproval,
     vars, historyVars
<1>2. CASE Tick
  BY <1>1, <1>2 DEF Tick, LimiterView!Tick, LimiterView!Next, StageMap, TargetMap,
     limiterVars, LimiterView!limiterVars
<1>3. CASE UNCHANGED clock
  BY <1>1, <1>3 DEF LimiterView!vars, StageMap, TargetMap, limiterVars
<1> QED BY <1>2, <1>3 DEF Environment, OperatorResets, OperatorEngages, OperatorRunsHooks,
                          RequestApproval, ResolveApproval, vars

\* SafetyPipeline implements LimitedActions (LimiterSpec): every way through
\* execute takes one slot at most and settles it on the way out.
THEOREM ImplementsLimitedActions == Spec => LimiterSpec
<1>1. Init => LimiterView!Init
  BY PipelineAssumption DEF Init, LimiterInit, InvocationRecord, Stage,
     LimiterView!Init, LimiterView!LimiterInit
<1>2. TypeOK /\ TrailInv /\ [Next]_vars => [LimiterView!Next]_(LimiterView!vars)
  BY LimiterStep, LimiterEnvironment DEF Next
<1> QED BY TypeCorrect, TrailInvariant, <1>1, <1>2, PTL DEF Spec, LimiterSpec, LimiterView!Spec
=============================================================================
