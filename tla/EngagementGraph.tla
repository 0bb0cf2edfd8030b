-------------------------- MODULE EngagementGraph --------------------------
(***************************************************************************)
(* An engagement run by the graph: the engine (graph/engine.py), the nodes *)
(* and routes (graph/build.py), the planners (llm/planner.py), the latest  *)
(* checkpoint (graph/checkpoint.py, graph/state.py) and the approvals they *)
(* share.  A driver is a thread inside CompiledGraph.invoke or resume for  *)
(* the one thread id of the engagement; it keeps its own AgentState.  The  *)
(* checkpointer is the SQLite one, which every program of the repository   *)
(* uses: rows are keyed by step, and a second put at a step replaces it.   *)
(*                                                                         *)
(* What recon, scan and validate find comes from the tools, and is chosen  *)
(* freely; a denied tool finds nothing.                                    *)
(***************************************************************************)
EXTENDS ApprovalStore, Integers, FiniteSets

CONSTANTS
  Drivers,      \* threads that run or resume the engagement
  Items,        \* what can be validated: a tool and its target
  NoItem,       \* a validate proposal without a target
  NoPending,    \* pending_approval is None
  NoDecision,   \* last_decision is None
  Nothing,      \* no checkpoint yet
  Mode,         \* the mode of the rules of engagement
  UseLLM,       \* LLMPlanner or RulePlanner
  MaxActions,   \* state.max_actions
  MaxSteps,     \* bound on the allowed steps of one recon or scan flow
  MaxFaults,    \* bound on exceptions in a node and on process crashes
  MaxOverlaps   \* bound on resumes while another driver runs

Phases == {"recon", "scan", "correlate"}
Actions == Phases \cup {"validate", "report"}
Findings == {"none", "low", "high"}

ASSUME GraphAssumption ==
  /\ Mode \in {"black_box", "gray_box", "white_box"}
  /\ UseLLM \in BOOLEAN
  /\ MaxActions \in Nat /\ MaxSteps \in Nat /\ MaxFaults \in Nat
  /\ MaxOverlaps \in Nat
  /\ NoItem \notin Items

ASSUME DriversFinite == IsFiniteSet(Drivers)

VARIABLES
  node,       \* the node each driver is at
  status,     \* what each driver is doing there
  state,      \* its AgentState
  behind,     \* checkpoint rows written beyond the step the driver is at
  saved,      \* the last row of the thread's checkpoint history
  issued,     \* request ids handed out (uuid4: never twice)
  faults,     \* exceptions and crashes so far
  overlaps,   \* resumes while another driver ran, so far
  asked,      \* history: the item each request was created for
  approvedOnce,\* history: requests a named approver approved
  executed,   \* history: how often each phase ran in this engagement run
  toolRuns    \* history: how often each request's tool was run, per item

driverVars == <<node, status, state, behind>>
historyVars == <<asked, approvedOnce, executed, toolRuns>>
vars == <<approvalVars, driverVars, saved, issued, faults, overlaps, historyVars>>

\* The fields of AgentState that steer the run.  did is the set of actions
\* in plan_history, findings the worst severity in the ledger.
InitialState ==
  [did |-> {}, decision |-> NoDecision, assets |-> FALSE, findings |-> "none",
   spent |-> 0, pending |-> NoPending]

\* actions_spent, told apart up to the budget the planner compares it with.
Spend(st, n) == IF st.spent + n < MaxActions THEN st.spent + n ELSE MaxActions

Init ==
  /\ ApprovalInit
  /\ node = [d \in Drivers |-> "planner"]
  /\ status = [d \in Drivers |-> "idle"]
  /\ state = [d \in Drivers |-> InitialState]
  /\ behind = [d \in Drivers |-> 0]
  /\ saved = Nothing
  /\ issued = {}
  /\ faults = 0
  /\ overlaps = 0
  /\ asked = [r \in Requests |-> NoItem]
  /\ approvedOnce = {}
  /\ executed = [p \in Phases |-> 0]
  /\ toolRuns = [r \in Requests |-> [i \in Items |-> 0]]
-----------------------------------------------------------------------------
(* The planners.                                                           *)

Propose(action, item) == [action |-> action, item |-> item]

\* _already_did: plan_history holds the action.
AlreadyDid(st, action) == action \in st.did

\* RulePlanner.decide; the first high finding of the ledger may be any item.
RuleDecisions(st) ==
  IF st.spent >= MaxActions
    THEN {Propose("report", NoItem)}
  ELSE IF Mode # "white_box" /\ ~st.assets /\ ~AlreadyDid(st, "recon")
    THEN {Propose("recon", NoItem)}
  ELSE IF st.findings = "none" /\ ~AlreadyDid(st, "scan")
    THEN {Propose("scan", NoItem)}
  ELSE IF st.findings # "none" /\ ~AlreadyDid(st, "correlate")
    THEN {Propose("correlate", NoItem)}
  ELSE IF Mode # "white_box" /\ ~AlreadyDid(st, "validate") /\ st.findings = "high"
    THEN {Propose("validate", i) : i \in Items}
  ELSE {Propose("report", NoItem)}

\* What LLMClient.chat comes back with: an LLMError, for an endpoint that is not
\* reached, answers in another shape or with nothing; or content, that is a JSON
\* object or is not.  (What chat does not catch is Raise.)
Replies ==
  [kind : {"LLMError", "text"}]
    \cup [kind : {"object"}, action : Actions \cup {"other"}, active : BOOLEAN,
          item : Items \cup {NoItem}]

\* LLMPlanner._validate: an unknown action, or a validate whose tool is not an active
\* one of the registry, becomes a report; the target stands as it is.
Checked(reply) ==
  IF reply.action \in Phases THEN Propose(reply.action, NoItem)
  ELSE IF reply.action = "validate" /\ reply.active THEN Propose("validate", reply.item)
  ELSE Propose("report", NoItem)

\* LLMPlanner.decide: an unreadable answer, a stage that already ran and a report the
\* model itself asks for too early go to the fallback.
Decide(st, reply) ==
  LET early == \/ Mode # "white_box" /\ ~AlreadyDid(st, "recon")
               \/ ~AlreadyDid(st, "scan")
  IN  IF \/ reply.kind # "object"
         \/ reply.action \in Phases /\ AlreadyDid(st, reply.action)
         \/ reply.action = "report" /\ early
        THEN RuleDecisions(st)
        ELSE {Checked(reply)}

LLMDecisions(st) == UNION {Decide(st, reply) : reply \in Replies}

PlannerDecisions(st) == IF UseLLM THEN LLMDecisions(st) ELSE RuleDecisions(st)

\* route_from_planner, route_from_gate and the static edges.
RouteFromPlanner(st) ==
  IF st.decision.action = "validate" THEN "approval_gate" ELSE st.decision.action

RouteFromGate(st) ==
  IF st.pending # NoPending /\ st.pending.decision = "approved"
    THEN "validate" ELSE "planner"

\* Mutant: the report goes back to the planner as every other stage does.
EdgeReportBack(n) == IF n = "END" THEN "END" ELSE "planner"

Edge(n) == IF n = "report" THEN "END" ELSE "planner"

\* _next
NextNode(n, st) ==
  CASE n = "planner" -> RouteFromPlanner(st)
    [] n = "approval_gate" -> RouteFromGate(st)
    [] OTHER -> Edge(n)
-----------------------------------------------------------------------------
(* The nodes: a driver that is to enter a node runs its function.          *)

AtNode(d, n) == status[d] = "enter" /\ node[d] = n

\* The function returned: the state is changed and not yet saved.
Ran(d, st) ==
  /\ state' = [state EXCEPT ![d] = st]
  /\ status' = [status EXCEPT ![d] = "ran"]
  /\ UNCHANGED <<node, behind, saved, faults, overlaps>>

\* Mutant: the plan history gets the model's answer besides what replaced it.
PlannerRecordsAnswer(d) ==
  /\ AtNode(d, "planner")
  /\ \E dec \in PlannerDecisions(state[d]), answer \in Actions :
       Ran(d, [state[d] EXCEPT !.decision = dec, !.did = @ \cup {dec.action, answer}])
  /\ UNCHANGED <<approvalVars, issued, historyVars>>

Planner(d) ==
  /\ AtNode(d, "planner")
  /\ \E dec \in PlannerDecisions(state[d]) :
       Ran(d, [state[d] EXCEPT !.decision = dec, !.did = @ \cup {dec.action}])
  /\ UNCHANGED <<approvalVars, issued, historyVars>>

CountPhase(p) ==
  /\ executed' = [executed EXCEPT ![p] = @ + 1]
  /\ UNCHANGED <<approvalVars, issued, asked, approvedOnce, toolRuns>>

\* recon_node and ReconFlow.run: n allowed steps; assets only from those.
Recon(d) ==
  /\ AtNode(d, "recon")
  /\ \E n \in 0..MaxSteps, found \in BOOLEAN :
       /\ found => n > 0
       /\ Ran(d, [state[d] EXCEPT !.spent = Spend(state[d], n), !.assets = @ \/ found])
  /\ CountPhase("recon")

\* The ledger keeps the worst severity of a finding.
Worse(a, b) ==
  IF "high" \in {a, b} THEN "high" ELSE IF "low" \in {a, b} THEN "low" ELSE "none"

\* scan_node and ScanFlow.run.
Scan(d) ==
  /\ AtNode(d, "scan")
  /\ \E n \in 0..MaxSteps, f \in Findings :
       /\ f # "none" => n > 0
       /\ Ran(d, [state[d] EXCEPT !.spent = Spend(state[d], n), !.findings = Worse(@, f)])
  /\ CountPhase("scan")

\* correlate_node rewrites what the report shows, nothing that steers.
Correlate(d) ==
  /\ AtNode(d, "correlate")
  /\ Ran(d, state[d])
  /\ CountPhase("correlate")

\* approval_gate_node: an item without a target is stored as such.
GateItem(d) ==
  IF state[d].decision = NoDecision THEN NoItem ELSE state[d].decision.item

\* GraphInterrupt: the driver saves and returns.
Interrupted(d, st) ==
  /\ state' = [state EXCEPT ![d] = st]
  /\ status' = [status EXCEPT ![d] = "parking"]
  /\ UNCHANGED <<node, behind, saved, faults, overlaps>>

\* No pending approval: a request is created and the run interrupted.
GateRequests(d) ==
  /\ AtNode(d, "approval_gate")
  /\ state[d].pending = NoPending
  /\ \E r \in Requests \ issued :
       /\ Create(r)
       /\ issued' = issued \cup {r}
       /\ asked' = [asked EXCEPT ![r] = GateItem(d)]
       /\ Interrupted(d, [state[d] EXCEPT !.pending =
            [request |-> r, item |-> GateItem(d), decision |-> "pending"]])
  /\ UNCHANGED <<approvedOnce, executed, toolRuns>>

\* Mutant: the waiting request takes over what the planner proposed last.
GateWaitsRefreshed(d) ==
  /\ AtNode(d, "approval_gate")
  /\ state[d].pending # NoPending
  /\ decision[state[d].pending.request] \notin Decisions
  /\ Interrupted(d, [state[d] EXCEPT !.pending.item = GateItem(d)])
  /\ UNCHANGED <<approvalVars, issued, historyVars>>

\* The pending one is looked up again: unknown or unresolved, still waiting;
GateWaits(d) ==
  /\ AtNode(d, "approval_gate")
  /\ state[d].pending # NoPending
  /\ decision[state[d].pending.request] \notin Decisions
  /\ Interrupted(d, state[d])
  /\ UNCHANGED <<approvalVars, issued, historyVars>>

\* Mutant: a request the store does not know counts as resolved.
GateResolvesUnknown(d) ==
  /\ AtNode(d, "approval_gate")
  /\ state[d].pending # NoPending
  /\ decision[state[d].pending.request] # "pending"
  /\ Ran(d, [state[d] EXCEPT
              !.pending.decision = decision[state[d].pending.request]])
  /\ UNCHANGED <<approvalVars, issued, historyVars>>

\* resolved, its decision is copied into the state.
GateResolves(d) ==
  /\ AtNode(d, "approval_gate")
  /\ state[d].pending # NoPending
  /\ decision[state[d].pending.request] \in Decisions
  /\ Ran(d, [state[d] EXCEPT
              !.pending.decision = decision[state[d].pending.request]])
  /\ UNCHANGED <<approvalVars, issued, historyVars>>

HasTarget(st) == st.pending # NoPending /\ st.pending.item # NoItem

\* validate_node: without a target, or re-entered with nothing pending, the
\* intent is recorded;
RecordIntent(d) ==
  /\ AtNode(d, "validate")
  /\ ~HasTarget(state[d])
  /\ Ran(d, [state[d] EXCEPT !.pending = NoPending])
  /\ UNCHANGED <<approvalVars, issued, historyVars>>

\* What is run: the tool and target of the pending request.
ValidatedItem(d) == state[d].pending.item

RunTool(d) ==
  toolRuns' = [toolRuns EXCEPT ![state[d].pending.request][ValidatedItem(d)] = @ + 1]

\* Mutant: the request is not cleared.
ValidatedKeepingPending(st) == [st EXCEPT !.spent = Spend(st, 1)]

\* One action spent, and the request cleared.
Validated(st) == [st EXCEPT !.spent = Spend(st, 1), !.pending = NoPending]

\* otherwise ValidateFlow.run takes the tool of the pending request through the
\* pipeline, which asks the store again and may deny it for other reasons too.
Validate(d) ==
  /\ AtNode(d, "validate")
  /\ HasTarget(state[d])
  /\ \/ UNCHANGED toolRuns
     \/ IsApproved(state[d].pending.request) /\ RunTool(d)
  /\ Ran(d, Validated(state[d]))
  /\ UNCHANGED <<approvalVars, issued, asked, approvedOnce, executed>>

\* report_node reads the state; nothing it writes steers.
Report(d) ==
  /\ AtNode(d, "report")
  /\ Ran(d, state[d])
  /\ UNCHANGED <<approvalVars, issued, historyVars>>
-----------------------------------------------------------------------------
(* The engine.                                                             *)

Running(d) == status[d] \in {"loaded", "enter", "ran", "parking"}

\* Orchestrator.run: a new state; the history of the thread may hold the rows of
\* an earlier run.
Begin(d) ==
  /\ ~Running(d)
  /\ status' = [status EXCEPT ![d] = "loaded"]
  /\ state' = [state EXCEPT ![d] = InitialState]
  /\ node' = [node EXCEPT ![d] = "planner"]
  /\ executed' = [p \in Phases |-> 0]
  /\ UNCHANGED <<approvalVars, behind, saved, issued, faults, overlaps, asked,
                 approvedOnce, toolRuns>>

\* The first thing a process of cli.py or a job of api/service.py does.
Start(d) == (\A e \in Drivers : status[e] = "idle") /\ Begin(d)

\* to_checkpoint leaves last_decision out,
ToCheckpoint(st) ==
  [did |-> st.did, assets |-> st.assets, findings |-> st.findings,
   spent |-> st.spent, pending |-> st.pending]

\* Mutant: the plan history is not read back.
FromCheckpointNoHistory(row) ==
  [InitialState EXCEPT !.assets = row.assets, !.findings = row.findings,
                       !.spent = row.spent, !.pending = row.pending]

\* and from_checkpoint leaves it at None.
FromCheckpoint(row) ==
  [InitialState EXCEPT !.did = row.did, !.assets = row.assets,
                       !.findings = row.findings, !.spent = row.spent,
                       !.pending = row.pending]

\* CompiledGraph.resume: from the last row, whatever node wrote it and whoever
\* else is running.
Resume(d) ==
  /\ ~Running(d)
  /\ saved # Nothing
  /\ IF \E e \in Drivers : Running(e)
       THEN overlaps < MaxOverlaps /\ overlaps' = overlaps + 1
       ELSE UNCHANGED overlaps
  /\ status' = [status EXCEPT ![d] = "loaded"]
  /\ state' = [state EXCEPT ![d] = FromCheckpoint(saved.state)]
  /\ node' = [node EXCEPT ![d] = saved.node]
  /\ UNCHANGED <<approvalVars, behind, saved, issued, faults, historyVars>>

\* invoke: its step is the length of the history now; no function is
\* registered for the END row of a finished run.
Invoke(d) ==
  /\ status[d] = "loaded"
  /\ status' = [status EXCEPT ![d] = IF node[d] = "END" THEN "raised" ELSE "enter"]
  /\ behind' = [behind EXCEPT ![d] = 0]
  /\ UNCHANGED <<approvalVars, node, state, saved, issued, faults, overlaps, historyVars>>

\* SqliteCheckpointer.put at the driver's step: a new row that the other drivers
\* have not seen, or one in the place of a row another driver wrote there.
Put(d, n) ==
  /\ saved' = IF behind[d] <= 1
                THEN [node |-> n, state |-> ToCheckpoint(state[d])]
                ELSE saved
  /\ behind' = IF behind[d] = 0
                 THEN [e \in Drivers |->
                        IF e # d /\ Running(e) /\ status[e] # "loaded"
                          THEN behind[e] + 1 ELSE behind[e]]
                 ELSE [behind EXCEPT ![d] = @ - 1]
  /\ UNCHANGED <<approvalVars, state, issued, faults, overlaps, historyVars>>

\* After a node: save, then take the edge or the route.
Advance(d) ==
  /\ status[d] = "ran"
  /\ Put(d, node[d])
  /\ LET next == NextNode(node[d], state[d])
     IN  /\ node' = [node EXCEPT ![d] = next]
         /\ status' = [status EXCEPT ![d] = "enter"]

\* The END row, and InvokeResult("complete").
Complete(d) ==
  /\ AtNode(d, "END")
  /\ Put(d, "END")
  /\ status' = [status EXCEPT ![d] = "complete"]
  /\ UNCHANGED node

\* The row of an interrupted node, and InvokeResult("interrupted").
Park(d) ==
  /\ status[d] = "parking"
  /\ Put(d, node[d])
  /\ status' = [status EXCEPT ![d] = "parked"]
  /\ UNCHANGED node

\* An exception of a node or of put leaves invoke; the state is gone.
Raise(d) ==
  /\ status[d] \in {"enter", "ran", "parking"}
  /\ faults < MaxFaults
  /\ faults' = faults + 1
  /\ status' = [status EXCEPT ![d] = "raised"]
  /\ UNCHANGED <<approvalVars, node, state, behind, saved, issued, overlaps, historyVars>>

\* The process dies; what is on disk is the checkpoint file.
Crash ==
  /\ \E d \in Drivers : status[d] # "idle"
  /\ faults < MaxFaults
  /\ faults' = faults + 1
  /\ status' = [d \in Drivers |-> "idle"]
  /\ decision' = [r \in Requests |-> "absent"]
  /\ approver' = [r \in Requests |-> NoOne]
  /\ UNCHANGED <<node, state, behind, saved, issued, overlaps, historyVars>>

\* Orchestrator.approve, by a person who may or may not be a named approver.
Approve(r, verdict, name) ==
  /\ SignOff(r, verdict, name)
  /\ approvedOnce' = IF verdict = "approved" THEN approvedOnce \cup {r} ELSE approvedOnce
  /\ UNCHANGED <<driverVars, saved, issued, faults, overlaps, asked, executed, toolRuns>>

Step(d) ==
  \/ Invoke(d) \/ Planner(d) \/ Recon(d) \/ Scan(d) \/ Correlate(d)
  \/ GateRequests(d) \/ GateWaits(d) \/ GateResolves(d)
  \/ RecordIntent(d) \/ Validate(d) \/ Report(d)
  \/ Advance(d) \/ Park(d) \/ Complete(d)

Next ==
  \/ \E d \in Drivers : Start(d) \/ Resume(d) \/ Step(d) \/ Raise(d)
  \/ Crash
  \/ \E r \in Requests, verdict \in Decisions, name \in Names : Approve(r, verdict, name)

Spec == Init /\ [][Next]_vars
-----------------------------------------------------------------------------
Nodes == {"planner", "recon", "scan", "correlate", "approval_gate", "validate",
          "report", "END"}

Decided ==
  {Propose(a, NoItem) : a \in Actions} \cup {Propose("validate", i) : i \in Items}

Pendings ==
  [request : Requests, item : Items \cup {NoItem},
   decision : {"pending"} \cup Decisions]

States ==
  [did : SUBSET Actions, decision : Decided \cup {NoDecision}, assets : BOOLEAN,
   findings : Findings, spent : 0..MaxActions, pending : Pendings \cup {NoPending}]

Rows ==
  [did : SUBSET Actions, assets : BOOLEAN, findings : Findings,
   spent : 0..MaxActions, pending : Pendings \cup {NoPending}]

\* Every variable keeps its type; a driver lags the checkpoint history by a
\* number of rows.
TypeOK ==
  /\ ApprovalTypeOK
  /\ node \in [Drivers -> Nodes]
  /\ status \in [Drivers -> {"idle", "loaded", "enter", "ran", "parking",
                             "parked", "complete", "raised"}]
  /\ state \in [Drivers -> States]
  /\ behind \in [Drivers -> Nat]
  /\ saved \in [node : Nodes, state : Rows] \cup {Nothing}
  /\ issued \subseteq Requests
  /\ faults \in 0..MaxFaults
  /\ overlaps \in 0..MaxOverlaps
  /\ asked \in [Requests -> Items \cup {NoItem}]
  /\ approvedOnce \subseteq Requests
  /\ executed \in [Phases -> Nat]
  /\ toolRuns \in [Requests -> [Items -> Nat]]

\* A sign-off is good for one run of what was signed off: a tool is run for a
\* request only on the tool and target the request was created for, not on what
\* the planner proposed meanwhile or an older state says, only after a named
\* approver approved it, and once, but for one run more for each exception, crash
\* or resume of a running engagement (approval_gate_node, validate_node and the
\* pipeline's own check).
RunsSignedOff ==
  \A r \in Requests, i \in Items :
    /\ toolRuns[r][i] > 0 => i = asked[r] /\ r \in approvedOnce
    /\ toolRuns[r][i] <= 1 + faults + overlaps

\* The request a driver or the checkpoint waits for is the one that was created
\* for its item, so that an approver signs off what will be run.
PendingMatchesRequest ==
  LET Matches(st) == st.pending # NoPending =>
        st.pending.request \in issued /\ st.pending.item = asked[st.pending.request]
  IN  /\ \A d \in Drivers : Matches(state[d])
      /\ saved # Nothing => Matches(saved.state)

\* Recon, scan and correlate are one-shot stages (llm/planner.py:131-134): a run
\* repeats one only after an exception, a crash or a resume of a running
\* engagement, once for each.
PhasesRunOnce == \A p \in Phases : executed[p] <= 1 + faults + overlaps

\* Without an exception, a crash or a second driver a completed engagement has run
\* every phase its plan history claims, which the planner, the report and the
\* reader go by.  With one it need not have: the planner's row counts the chosen
\* phase, and a resume goes back to the planner.
HistoryRightWithoutFaults ==
  faults = 0 /\ overlaps = 0 =>
    \A d \in Drivers : status[d] = "complete" =>
      \A p \in Phases \cap state[d].did : executed[p] > 0
=============================================================================
