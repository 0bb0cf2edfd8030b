------------------------ MODULE EngagementGraphProofs ------------------------
(***************************************************************************)
(* Theorems about EngagementGraph, for any drivers, items, requests, mode, *)
(* planner and bounds: the types, the request a run waits for, what tools  *)
(* are run for, and what the plan history says of a run without faults.    *)
(* At the end those about ControlPlane, for any roles and approvers: its   *)
(* calls keep what the graph keeps, so the lemmas carry over, but for a    *)
(* start of an engagement that runs already, which only it makes.          *)
(***************************************************************************)
EXTENDS ControlPlane, FiniteSetTheorems, TLAPS

-----------------------------------------------------------------------------
(* What the operators of the nodes make of a state.                        *)

LEMMA StateFields ==
  ASSUME NEW st \in States
  PROVE  /\ st.did \subseteq Actions /\ st.decision \in Decided \cup {NoDecision}
         /\ st.assets \in BOOLEAN /\ st.findings \in Findings
         /\ st.spent \in 0..MaxActions /\ st.pending \in Pendings \cup {NoPending}
         /\ st = [did |-> st.did, decision |-> st.decision, assets |-> st.assets,
                  findings |-> st.findings, spent |-> st.spent, pending |-> st.pending]
BY DEF States

LEMMA PendingFields ==
  ASSUME NEW p \in Pendings
  PROVE  /\ p.request \in Requests /\ p.item \in Items \cup {NoItem}
         /\ p.decision \in {"pending"} \cup Decisions
BY DEF Pendings

LEMMA SpendType ==
  ASSUME NEW st \in States, NEW n \in Nat
  PROVE  Spend(st, n) \in 0..MaxActions
BY StateFields, GraphAssumption DEF Spend

LEMMA InitialStateType == InitialState \in States /\ InitialState.pending = NoPending
BY GraphAssumption DEF InitialState, States, Findings

LEMMA StepType ==
  ASSUME NEW st \in States, NEW n \in Nat, NEW found \in BOOLEAN, NEW f \in Findings
  PROVE  /\ [st EXCEPT !.spent = Spend(st, n), !.assets = @ \/ found] \in States
         /\ [st EXCEPT !.spent = Spend(st, n), !.findings = Worse(@, f)] \in States
<1>1. Spend(st, n) \in 0..MaxActions
  BY SpendType
<1>2. Worse(st.findings, f) \in Findings
  BY DEF Worse, Findings
<1>3. (st.assets \/ found) \in BOOLEAN
  OBVIOUS
<1> HIDE DEF Spend, Worse
<1> QED BY <1>1, <1>2, <1>3 DEF States

LEMMA PendingTypes ==
  ASSUME NEW st \in States, NEW p \in Pendings \cup {NoPending}, NEW n \in Nat
  PROVE  /\ [st EXCEPT !.pending = p] \in States
         /\ [st EXCEPT !.pending = p].pending = p
         /\ Validated(st) \in States /\ Validated(st).pending = NoPending
<1>1. Spend(st, n) \in 0..MaxActions /\ Spend(st, 1) \in 0..MaxActions
  BY SpendType
<1> HIDE DEF Spend
<1> QED BY <1>1 DEF States, Validated

LEMMA DecisionTypes ==
  ASSUME NEW st \in States, NEW dec \in PlannerDecisions(st)
  PROVE  /\ dec \in Decided /\ dec.action \in Actions
         /\ [st EXCEPT !.decision = dec, !.did = @ \cup {dec.action}] \in States
<1>1. RuleDecisions(st) \subseteq Decided
  BY DEF RuleDecisions, Decided, Actions, Phases
<1>2. ASSUME NEW reply \in Replies PROVE Decide(st, reply) \subseteq Decided
  <2>1. CASE Decide(st, reply) = RuleDecisions(st)
    BY <1>1, <2>1
  <2>2. CASE Decide(st, reply) = {Checked(reply)} /\ reply.kind = "object"
    <3>1. reply.item \in Items \cup {NoItem}
      BY <2>2 DEF Replies
    <3>2. Checked(reply) \in Decided
      BY <3>1 DEF Checked, Decided, Actions, Propose
    <3> QED BY <2>2, <3>2
  <2> QED BY <2>1, <2>2 DEF Decide
<1>3. dec \in Decided
  BY <1>1, <1>2 DEF PlannerDecisions, LLMDecisions
<1>4. dec.action \in Actions
  BY <1>3 DEF Decided, Propose, Actions
<1> QED BY <1>3, <1>4 DEF States

LEMMA RowTypes ==
  /\ \A st \in States : ToCheckpoint(st) \in Rows /\ ToCheckpoint(st).pending = st.pending
                          /\ ToCheckpoint(st).did = st.did
  /\ \A row \in Rows : FromCheckpoint(row) \in States /\ FromCheckpoint(row).pending = row.pending
                         /\ FromCheckpoint(row).did = row.did
BY DEF States, Rows, ToCheckpoint, FromCheckpoint, InitialState
-----------------------------------------------------------------------------
(* Types.                                                                  *)

\* After the planner there is a decision to route by, and nothing runs at the end.
DecidedInv ==
  \A d \in Drivers :
    /\ status[d] = "ran" /\ node[d] = "planner" => state[d].decision \in Decided
    /\ status[d] = "ran" => node[d] # "END"

TypeInv == TypeOK /\ DecidedInv

LEMMA RouteTypes ==
  ASSUME NEW st \in States, NEW n \in Nodes \ {"END"},
         n = "planner" => st.decision \in Decided
  PROVE  NextNode(n, st) \in Nodes
<1>1. st.decision \in Decided => st.decision.action \in Actions
  BY DEF Decided, Propose, Actions
<1> QED BY <1>1 DEF NextNode, RouteFromPlanner, RouteFromGate, Edge, Nodes, Actions, Phases

LEMMA TypesInit == Init => TypeInv
BY GraphAssumption, InitialStateType
   DEF Init, ApprovalInit, ApprovalTypeOK, TypeInv, TypeOK, DecidedInv, Nodes

\* What a node may do to a driver: its function returns or is interrupted.
LEMMA TypesRan ==
  ASSUME TypeInv, NEW d \in Drivers, NEW st \in States, Ran(d, st) \/ Interrupted(d, st),
         AtNode(d, node[d]), node[d] # "END", node[d] = "planner" => st.decision \in Decided
  PROVE  /\ node' \in [Drivers -> Nodes] /\ state' \in [Drivers -> States]
         /\ status' \in [Drivers -> {"idle", "loaded", "enter", "ran", "parking",
                                     "parked", "complete", "raised"}]
         /\ behind' \in [Drivers -> Nat]
         /\ saved' \in [node : Nodes, state : Rows] \cup {Nothing}
         /\ faults' \in 0..MaxFaults /\ overlaps' \in 0..MaxOverlaps
         /\ DecidedInv'
<1> USE DEF TypeInv, TypeOK
<1>1. /\ state' = [state EXCEPT ![d] = st]
      /\ \E s \in {"ran", "parking"} : status' = [status EXCEPT ![d] = s]
      /\ UNCHANGED <<node, behind, saved, faults, overlaps>>
  BY DEF Ran, Interrupted
<1>2. DecidedInv'
  BY <1>1 DEF DecidedInv
<1> QED BY <1>1, <1>2

LEMMA TypesPut ==
  ASSUME TypeInv, NEW d \in Drivers, NEW n \in Nodes, Put(d, n)
  PROVE  /\ saved' \in [node : Nodes, state : Rows] \cup {Nothing}
         /\ behind' \in [Drivers -> Nat]
         /\ UNCHANGED <<approvalVars, state, issued, faults, overlaps, historyVars>>
<1> USE DEF TypeInv, TypeOK
<1>1. ToCheckpoint(state[d]) \in Rows
  BY RowTypes
<1>2. saved' \in [node : Nodes, state : Rows] \cup {Nothing}
  BY <1>1 DEF Put
<1>3. CASE behind[d] = 0
  BY <1>2, <1>3 DEF Put
<1>4. CASE behind[d] # 0
  <2>1. behind[d] \in Nat /\ behind[d] - 1 \in Nat
    BY <1>4
  <2>2. behind' = [behind EXCEPT ![d] = @ - 1]
    BY <1>4 DEF Put
  <2> QED BY <1>2, <2>1, <2>2 DEF Put
<1> QED BY <1>3, <1>4

LEMMA TypesNext == TypeInv /\ [Next]_vars => TypeInv'
<1> SUFFICES ASSUME TypeInv, [Next]_vars PROVE TypeInv'
  OBVIOUS
<1> USE DEF approvalVars, driverVars, historyVars
<1>1. TypeOK /\ ApprovalTypeOK /\ DecidedInv
  BY DEF TypeInv, TypeOK
<1>2. ASSUME NEW d \in Drivers, Planner(d) PROVE TypeInv'
  <2>1. PICK dec \in PlannerDecisions(state[d]) :
          Ran(d, [state[d] EXCEPT !.decision = dec, !.did = @ \cup {dec.action}])
    BY <1>2 DEF Planner
  <2> DEFINE st == [state[d] EXCEPT !.decision = dec, !.did = @ \cup {dec.action}]
  <2>2. st \in States /\ dec \in Decided /\ state[d] \in States
    BY <1>1, DecisionTypes DEF TypeOK
  <2>3. st.decision = dec
    BY <2>2 DEF States
  <2>4. Ran(d, st) /\ AtNode(d, node[d]) /\ node[d] = "planner" /\ st.decision \in Decided
    BY <1>2, <2>1, <2>2, <2>3 DEF Planner, AtNode
  <2> HIDE DEF st
  <2> QED BY <1>1, <1>2, <2>2, <2>4, TypesRan DEF TypeInv, TypeOK, Planner, ApprovalTypeOK
<1>3. ASSUME NEW d \in Drivers, Recon(d) \/ Scan(d) PROVE TypeInv'
  <2>1. PICK st \in States : Ran(d, st)
    <3> DEFINE Reconned(n, found) ==
                 [state[d] EXCEPT !.spent = Spend(state[d], n), !.assets = @ \/ found]
               Scanned(n, f) ==
                 [state[d] EXCEPT !.spent = Spend(state[d], n), !.findings = Worse(@, f)]
    <3>1. CASE Recon(d)
      <4>1. PICK n \in 0..MaxSteps, found \in BOOLEAN : Ran(d, Reconned(n, found))
        BY <3>1 DEF Recon
      <4>2. n \in Nat /\ "none" \in Findings /\ state[d] \in States
        BY <1>1, GraphAssumption DEF TypeOK, Findings
      <4>3. Reconned(n, found) \in States
        BY <4>2, StepType
      <4> HIDE DEF Reconned
      <4> QED BY <4>1, <4>3
    <3>2. CASE Scan(d)
      <4>1. PICK n \in 0..MaxSteps, f \in Findings : Ran(d, Scanned(n, f))
        BY <3>2 DEF Scan
      <4>2. n \in Nat /\ TRUE \in BOOLEAN /\ state[d] \in States
        BY <1>1, GraphAssumption DEF TypeOK
      <4>3. Scanned(n, f) \in States
        BY <4>2, StepType
      <4> HIDE DEF Scanned
      <4> QED BY <4>1, <4>3
    <3> QED BY <1>3, <3>1, <3>2
  <2>2. PICK p \in Phases : CountPhase(p)
    BY <1>3 DEF Recon, Scan, Phases
  <2>3. AtNode(d, node[d]) /\ node[d] \notin {"planner", "END"}
    BY <1>3 DEF Recon, Scan, AtNode
  <2>4. executed' \in [Phases -> Nat] /\ UNCHANGED <<approvalVars, issued, asked, approvedOnce, toolRuns>>
    BY <1>1, <2>2 DEF CountPhase, TypeOK
  <2> QED BY <1>1, <2>1, <2>3, <2>4, TypesRan DEF TypeInv, TypeOK, ApprovalTypeOK
<1>4. ASSUME NEW d \in Drivers, Correlate(d) PROVE TypeInv'
  <2>1. AtNode(d, node[d]) /\ node[d] \notin {"planner", "END"} /\ state[d] \in States /\ Ran(d, state[d])
    BY <1>1, <1>4 DEF Correlate, AtNode, TypeOK
  <2>2. executed' \in [Phases -> Nat] /\ UNCHANGED <<approvalVars, issued, asked, approvedOnce, toolRuns>>
    BY <1>1, <1>4 DEF Correlate, CountPhase, TypeOK, Phases
  <2> QED BY <1>1, <2>1, <2>2, TypesRan DEF TypeInv, TypeOK, ApprovalTypeOK
<1>5. ASSUME NEW d \in Drivers, GateRequests(d) PROVE TypeInv'
  <2>1. PICK r \in Requests \ issued :
          /\ Create(r)
          /\ issued' = issued \cup {r}
          /\ asked' = [asked EXCEPT ![r] = GateItem(d)]
          /\ Interrupted(d, [state[d] EXCEPT !.pending =
               [request |-> r, item |-> GateItem(d), decision |-> "pending"]])
    BY <1>5 DEF GateRequests
  <2> DEFINE p == [request |-> r, item |-> GateItem(d), decision |-> "pending"]
  <2>2. GateItem(d) \in Items \cup {NoItem}
    BY <1>1, StateFields DEF GateItem, TypeOK, Decided, Propose
  <2>3. p \in Pendings
    BY <2>2 DEF Pendings
  <2>4. [state[d] EXCEPT !.pending = p] \in States
    BY <1>1, <2>3, PendingTypes DEF TypeOK
  <2>5. AtNode(d, node[d]) /\ node[d] \notin {"planner", "END"}
    BY <1>5 DEF GateRequests, AtNode
  <2>6. asked' \in [Requests -> Items \cup {NoItem}] /\ issued' \subseteq Requests
    BY <1>1, <2>1, <2>2 DEF TypeOK
  <2>7. ApprovalTypeOK'
    BY <1>1, <2>1 DEF ApprovalTypeOK, Create
  <2>8. UNCHANGED <<approvedOnce, executed, toolRuns>>
    BY <1>5 DEF GateRequests
  <2>9. Interrupted(d, [state[d] EXCEPT !.pending = p])
    BY <2>1
  <2> HIDE DEF p
  <2> QED BY <1>1, <2>4, <2>5, <2>6, <2>7, <2>8, <2>9, TypesRan DEF TypeInv, TypeOK
<1>6. ASSUME NEW d \in Drivers, GateWaits(d) \/ Report(d) PROVE TypeInv'
  <2>1. /\ AtNode(d, node[d]) /\ node[d] \notin {"planner", "END"} /\ state[d] \in States
        /\ Ran(d, state[d]) \/ Interrupted(d, state[d])
        /\ UNCHANGED <<approvalVars, issued, historyVars>>
    BY <1>1, <1>6 DEF GateWaits, Report, AtNode, TypeOK
  <2> QED BY <1>1, <2>1, TypesRan DEF TypeInv, TypeOK, ApprovalTypeOK
<1>7. ASSUME NEW d \in Drivers, GateResolves(d) PROVE TypeInv'
  <2>1. state[d] \in States /\ state[d].pending \in Pendings
    BY <1>1, <1>7, StateFields DEF GateResolves, TypeOK
  <2>2. [state[d] EXCEPT !.pending.decision = decision[state[d].pending.request]] \in States
    BY <1>7, <2>1 DEF GateResolves, States, Pendings
  <2>3. AtNode(d, node[d]) /\ node[d] \notin {"planner", "END"} /\ UNCHANGED <<approvalVars, issued, historyVars>>
    BY <1>7 DEF GateResolves, AtNode
  <2> QED BY <1>1, <1>7, <2>2, <2>3, TypesRan DEF TypeInv, TypeOK, ApprovalTypeOK, GateResolves
<1>8. ASSUME NEW d \in Drivers, RecordIntent(d) PROVE TypeInv'
  <2>1. [state[d] EXCEPT !.pending = NoPending] \in States
    BY <1>1, PendingTypes DEF TypeOK
  <2>2. AtNode(d, node[d]) /\ node[d] \notin {"planner", "END"} /\ UNCHANGED <<approvalVars, issued, historyVars>>
    BY <1>8 DEF RecordIntent, AtNode
  <2> QED BY <1>1, <1>8, <2>1, <2>2, TypesRan DEF TypeInv, TypeOK, ApprovalTypeOK, RecordIntent
<1>9. ASSUME NEW d \in Drivers, Validate(d) PROVE TypeInv'
  <2>1. Validated(state[d]) \in States
    BY <1>1, PendingTypes DEF TypeOK
  <2>2. AtNode(d, node[d]) /\ node[d] \notin {"planner", "END"}
    BY <1>9 DEF Validate, AtNode
  <2>3. toolRuns' \in [Requests -> [Items -> Nat]]
    <3>1. state[d].pending.request \in Requests /\ ValidatedItem(d) \in Items
      BY <1>1, <1>9, StateFields, PendingFields DEF Validate, HasTarget, ValidatedItem, TypeOK
    <3>2. CASE RunTool(d)
      BY <1>1, <3>1, <3>2 DEF RunTool, TypeOK
    <3> QED BY <1>1, <1>9, <3>2 DEF Validate, TypeOK
  <2>4. Ran(d, Validated(state[d])) /\ UNCHANGED <<approvalVars, issued, asked, approvedOnce, executed>>
    BY <1>9 DEF Validate
  <2> QED BY <1>1, <2>1, <2>2, <2>3, <2>4, TypesRan DEF TypeInv, TypeOK, ApprovalTypeOK
<1>10. ASSUME NEW d \in Drivers, Start(d) PROVE TypeInv'
  <2>1. status' = [status EXCEPT ![d] = "loaded"] /\ state' = [state EXCEPT ![d] = InitialState]
        /\ node' = [node EXCEPT ![d] = "planner"] /\ executed' = [p \in Phases |-> 0]
        /\ UNCHANGED <<approvalVars, behind, saved, issued, faults, overlaps, asked, approvedOnce, toolRuns>>
    BY <1>10 DEF Start, Begin
  <2>2. InitialState \in States
    BY InitialStateType
  <2>3. DecidedInv'
    BY <1>1, <2>1 DEF DecidedInv, TypeOK
  <2> QED BY <1>1, <2>1, <2>2, <2>3 DEF TypeInv, TypeOK, ApprovalTypeOK, Nodes
<1>11. ASSUME NEW d \in Drivers, Resume(d) PROVE TypeInv'
  <2>1. saved.node \in Nodes /\ FromCheckpoint(saved.state) \in States
    BY <1>1, <1>11, RowTypes DEF TypeOK, Resume
  <2>2. overlaps' \in 0..MaxOverlaps
    BY <1>1, <1>11, GraphAssumption DEF TypeOK, Resume
  <2>3. status' = [status EXCEPT ![d] = "loaded"]
        /\ state' = [state EXCEPT ![d] = FromCheckpoint(saved.state)]
        /\ node' = [node EXCEPT ![d] = saved.node]
        /\ UNCHANGED <<approvalVars, behind, saved, issued, faults, historyVars>>
    BY <1>11 DEF Resume
  <2>4. DecidedInv'
    BY <1>1, <2>3 DEF DecidedInv, TypeOK
  <2> QED BY <1>1, <2>1, <2>2, <2>3, <2>4 DEF TypeInv, TypeOK, ApprovalTypeOK
<1>12. ASSUME NEW d \in Drivers, Invoke(d) PROVE TypeInv'
  <2>1. UNCHANGED <<approvalVars, node, state, saved, issued, faults, overlaps, historyVars>>
        /\ behind' = [behind EXCEPT ![d] = 0]
        /\ \E s \in {"raised", "enter"} : status' = [status EXCEPT ![d] = s]
    BY <1>12 DEF Invoke
  <2>2. DecidedInv'
    BY <1>1, <2>1 DEF DecidedInv, TypeOK
  <2> QED BY <1>1, <2>1, <2>2 DEF TypeInv, TypeOK, ApprovalTypeOK
<1>13. ASSUME NEW d \in Drivers, Advance(d) PROVE TypeInv'
  <2>1. NextNode(node[d], state[d]) \in Nodes
    BY <1>1, <1>13, RouteTypes DEF Advance, DecidedInv, TypeOK
  <2>2. Put(d, node[d]) /\ node[d] \in Nodes
    BY <1>1, <1>13 DEF Advance, TypeOK
  <2>3. node' = [node EXCEPT ![d] = NextNode(node[d], state[d])]
        /\ status' = [status EXCEPT ![d] = "enter"]
    BY <1>13 DEF Advance
  <2>4. /\ saved' \in [node : Nodes, state : Rows] \cup {Nothing}
        /\ behind' \in [Drivers -> Nat]
        /\ UNCHANGED <<approvalVars, state, issued, faults, overlaps, historyVars>>
    BY <2>2, TypesPut
  <2>5. DecidedInv'
    BY <1>1, <2>3, <2>4 DEF DecidedInv, TypeOK
  <2> QED BY <1>1, <2>1, <2>3, <2>4, <2>5 DEF TypeInv, TypeOK, ApprovalTypeOK
<1>14. ASSUME NEW d \in Drivers, Park(d) \/ Complete(d) PROVE TypeInv'
  <2>1. PICK n \in Nodes : Put(d, n)
    BY <1>1, <1>14 DEF Park, Complete, TypeOK, Nodes
  <2>2. UNCHANGED node /\ \E s \in {"parked", "complete"} : status' = [status EXCEPT ![d] = s]
    BY <1>14 DEF Park, Complete
  <2>3. /\ saved' \in [node : Nodes, state : Rows] \cup {Nothing}
        /\ behind' \in [Drivers -> Nat]
        /\ UNCHANGED <<approvalVars, state, issued, faults, overlaps, historyVars>>
    BY <2>1, TypesPut
  <2>4. DecidedInv'
    BY <1>1, <2>2, <2>3 DEF DecidedInv, TypeOK
  <2> QED BY <1>1, <2>2, <2>3, <2>4 DEF TypeInv, TypeOK, ApprovalTypeOK
<1>15. ASSUME NEW d \in Drivers, Raise(d) PROVE TypeInv'
  <2>1. faults' \in 0..MaxFaults /\ status' = [status EXCEPT ![d] = "raised"]
        /\ UNCHANGED <<approvalVars, node, state, behind, saved, issued, overlaps, historyVars>>
    BY <1>1, <1>15, GraphAssumption DEF Raise, TypeOK
  <2>2. DecidedInv'
    BY <1>1, <2>1 DEF DecidedInv, TypeOK
  <2> QED BY <1>1, <2>1, <2>2 DEF TypeInv, TypeOK, ApprovalTypeOK
<1>16. ASSUME Crash PROVE TypeInv'
  <2>1. faults' \in 0..MaxFaults /\ status' = [d \in Drivers |-> "idle"]
        /\ UNCHANGED <<node, state, behind, saved, issued, overlaps, historyVars>>
    BY <1>1, <1>16, GraphAssumption DEF Crash, TypeOK
  <2>2. ApprovalTypeOK'
    BY <1>16 DEF Crash, ApprovalTypeOK
  <2>3. DecidedInv'
    BY <2>1 DEF DecidedInv
  <2> QED BY <1>1, <2>1, <2>2, <2>3 DEF TypeInv, TypeOK
<1>17. ASSUME NEW r \in Requests, NEW verdict \in Decisions, NEW name \in Names,
              Approve(r, verdict, name)
       PROVE  TypeInv'
  <2>1. ApprovalTypeOK'
    BY <1>1, <1>17 DEF Approve, SignOff, Resolve, ApprovalTypeOK
  <2>2. approvedOnce' \subseteq Requests
    BY <1>1, <1>17 DEF Approve, TypeOK
  <2>3. UNCHANGED <<driverVars, saved, issued, faults, overlaps, asked, executed, toolRuns>>
    BY <1>17 DEF Approve
  <2>4. DecidedInv'
    BY <1>1, <2>3 DEF DecidedInv
  <2> QED BY <1>1, <2>1, <2>2, <2>3, <2>4 DEF TypeInv, TypeOK
<1>18. CASE UNCHANGED vars
  BY <1>1, <1>18 DEF vars, TypeInv, TypeOK, ApprovalTypeOK, DecidedInv
<1> QED BY <1>2, <1>3, <1>4, <1>5, <1>6, <1>7, <1>8, <1>9, <1>10, <1>11, <1>12, <1>13,
           <1>14, <1>15, <1>16, <1>17, <1>18 DEF Next, Step

LEMMA TypeInvHolds == Spec => []TypeInv
BY TypesInit, TypesNext, PTL DEF Spec

\* Every variable keeps its type.
THEOREM GraphTypesHold == Spec => []TypeOK
BY TypeInvHolds, PTL DEF TypeInv
-----------------------------------------------------------------------------
(* What is waited for, signed off and run.                                 *)

\* A pending approval, of a driver or of a row.
Fits(pending) == pending # NoPending => pending.request \in issued
                                          /\ pending.item = asked[pending.request]

AllFit == /\ \A d \in Drivers : Fits(state[d].pending)
          /\ saved # Nothing => Fits(saved.state.pending)

\* What the store calls approved was approved by a named approver, and a tool was run
\* for nothing else and on nothing else.
SignedInv ==
  /\ \A r \in Requests : decision[r] = "approved" => r \in approvedOnce
  /\ \A r \in Requests, i \in Items :
       toolRuns[r][i] > 0 => r \in issued /\ i = asked[r] /\ r \in approvedOnce

OrderInv == TypeInv /\ AllFit /\ SignedInv

LEMMA FitIsMatch == AllFit <=> PendingMatchesRequest
BY DEF AllFit, Fits, PendingMatchesRequest

LEMMA OrderInit == Init => OrderInv
<1> SUFFICES ASSUME Init PROVE OrderInv
  OBVIOUS
<1>1. AllFit
  BY InitialStateType DEF Init, AllFit, Fits
<1>2. SignedInv
  BY DEF Init, ApprovalInit, SignedInv
<1> QED BY <1>1, <1>2, TypesInit DEF OrderInv

\* A step that hands no request out, approves none and runs no tool keeps the invariant
\* when what its driver and its row wait for was waited for before.
LEMMA OrderQuiet ==
  ASSUME OrderInv, UNCHANGED <<issued, asked, approvedOnce, toolRuns>>,
         \A r \in Requests : decision'[r] = "approved" => decision[r] = "approved",
         \A d \in Drivers : Fits(state'[d].pending),
         saved' # Nothing => Fits(saved'.state.pending)
  PROVE  AllFit' /\ SignedInv'
<1>1. AllFit'
  BY DEF AllFit, Fits
<1>2. SignedInv'
  BY DEF OrderInv, SignedInv
<1> QED BY <1>1, <1>2

\* A node that changed its driver's state, with what it waits for.
LEMMA OrderRan ==
  ASSUME OrderInv, NEW d \in Drivers, NEW st, Ran(d, st) \/ Interrupted(d, st), Fits(st.pending)
  PROVE  (\A e \in Drivers : Fits(state'[e].pending)) /\ (saved' # Nothing => Fits(saved'.state.pending))
<1>1. state' = [state EXCEPT ![d] = st] /\ saved' = saved /\ state \in [Drivers -> States]
  BY DEF Ran, Interrupted, OrderInv, TypeInv, TypeOK
<1> QED BY <1>1 DEF OrderInv, AllFit

LEMMA OrderPut ==
  ASSUME OrderInv, NEW d \in Drivers, NEW n, Put(d, n)
  PROVE  /\ \A e \in Drivers : Fits(state'[e].pending)
         /\ saved' # Nothing => Fits(saved'.state.pending)
         /\ UNCHANGED <<issued, asked, approvedOnce, toolRuns, decision>>
<1>1. ToCheckpoint(state[d]).pending = state[d].pending
  BY RowTypes DEF OrderInv, TypeInv, TypeOK
<1>2. saved' = saved \/ saved'.state = ToCheckpoint(state[d])
  BY DEF Put
<1>3. state' = state /\ UNCHANGED <<issued, asked, approvedOnce, toolRuns, decision>>
  BY DEF Put, approvalVars, historyVars
<1> QED BY <1>1, <1>2, <1>3 DEF OrderInv, AllFit

LEMMA OrderNext == OrderInv /\ [Next]_vars => OrderInv'
<1> SUFFICES ASSUME OrderInv, [Next]_vars PROVE AllFit' /\ SignedInv'
  BY TypesNext DEF OrderInv
<1> USE DEF approvalVars, driverVars, historyVars
<1>1. /\ TypeOK /\ ApprovalTypeOK /\ AllFit /\ SignedInv
      /\ \A d \in Drivers : state[d] \in States /\ Fits(state[d].pending)
  BY DEF OrderInv, TypeInv, TypeOK, AllFit
<1>2. ASSUME NEW d \in Drivers, Planner(d) \/ Recon(d) \/ Scan(d) \/ Correlate(d) \/ Report(d)
                                  \/ GateWaits(d) \/ GateResolves(d) \/ RecordIntent(d)
      PROVE  AllFit' /\ SignedInv'
  <2>1. UNCHANGED <<issued, asked, approvedOnce, toolRuns, decision>>
    BY <1>2 DEF Planner, Recon, Scan, Correlate, Report, GateWaits, GateResolves, RecordIntent,
                CountPhase
  <2>2. PICK st \in States : (Ran(d, st) \/ Interrupted(d, st)) /\ Fits(st.pending)
    <3>1. CASE Planner(d)
      <4>1. PICK dec \in PlannerDecisions(state[d]) :
              Ran(d, [state[d] EXCEPT !.decision = dec, !.did = @ \cup {dec.action}])
        BY <3>1 DEF Planner
      <4> DEFINE st == [state[d] EXCEPT !.decision = dec, !.did = @ \cup {dec.action}]
      <4>2. st \in States
        BY <1>1, DecisionTypes
      <4>3. st.pending = state[d].pending
        BY <1>1 DEF States
      <4> QED BY <1>1, <4>1, <4>2, <4>3
    <3>2. CASE Recon(d)
      <4>1. PICK n \in 0..MaxSteps, found \in BOOLEAN :
              Ran(d, [state[d] EXCEPT !.spent = Spend(state[d], n), !.assets = @ \/ found])
        BY <3>2 DEF Recon
      <4> DEFINE st == [state[d] EXCEPT !.spent = Spend(state[d], n), !.assets = @ \/ found]
      <4>2. n \in Nat /\ "none" \in Findings
        BY GraphAssumption DEF Findings
      <4>3. st \in States
        BY <1>1, <4>2, StepType
      <4>4. st.pending = state[d].pending
        BY <1>1 DEF States
      <4> QED BY <1>1, <4>1, <4>3, <4>4
    <3>3. CASE Scan(d)
      <4>1. PICK n \in 0..MaxSteps, f \in Findings :
              Ran(d, [state[d] EXCEPT !.spent = Spend(state[d], n), !.findings = Worse(@, f)])
        BY <3>3 DEF Scan
      <4> DEFINE st == [state[d] EXCEPT !.spent = Spend(state[d], n), !.findings = Worse(@, f)]
      <4>2. n \in Nat /\ TRUE \in BOOLEAN
        BY GraphAssumption
      <4>3. st \in States
        BY <1>1, <4>2, StepType
      <4>4. st.pending = state[d].pending
        BY <1>1 DEF States
      <4> QED BY <1>1, <4>1, <4>3, <4>4
    <3>4. CASE Correlate(d) \/ Report(d) \/ GateWaits(d)
      BY <1>1, <3>4 DEF Correlate, Report, GateWaits
    <3>5. CASE GateResolves(d)
      <4> DEFINE st == [state[d] EXCEPT !.pending.decision = decision[state[d].pending.request]]
      <4>1. state[d].pending \in Pendings /\ state[d].pending # NoPending
        BY <1>1, <3>5, StateFields DEF GateResolves
      <4>2. st \in States
        BY <1>1, <3>5, <4>1 DEF GateResolves, States, Pendings
      <4>3. st.pending.request = state[d].pending.request /\ st.pending.item = state[d].pending.item
        BY <1>1, <4>1 DEF States, Pendings
      <4>4. Fits(st.pending)
        BY <1>1, <4>1, <4>3 DEF Fits
      <4>5. Ran(d, st)
        BY <3>5 DEF GateResolves
      <4> HIDE DEF st
      <4> QED BY <4>2, <4>4, <4>5
    <3>6. CASE RecordIntent(d)
      <4> DEFINE st == [state[d] EXCEPT !.pending = NoPending]
      <4>1. st \in States /\ st.pending = NoPending
        BY <1>1, PendingTypes
      <4> QED BY <3>6, <4>1 DEF RecordIntent, Fits
    <3> QED BY <1>2, <3>1, <3>2, <3>3, <3>4, <3>5, <3>6
  <2> QED BY <2>1, <2>2, OrderRan, OrderQuiet
<1>3. ASSUME NEW d \in Drivers, GateRequests(d) PROVE AllFit' /\ SignedInv'
  <2> DEFINE p(r) == [request |-> r, item |-> GateItem(d), decision |-> "pending"]
  <2>1. PICK r \in Requests \ issued :
          /\ Create(r)
          /\ issued' = issued \cup {r}
          /\ asked' = [asked EXCEPT ![r] = GateItem(d)]
          /\ Interrupted(d, [state[d] EXCEPT !.pending = p(r)])
    BY <1>3 DEF GateRequests
  <2>2. asked'[r] = GateItem(d) /\ \A q \in Requests : q # r => asked'[q] = asked[q]
    BY <1>1, <2>1 DEF TypeOK
  <2>3. issued \subseteq Requests /\ r \notin issued
    BY <1>1, <2>1 DEF TypeOK
  <2>4. state' = [state EXCEPT ![d] = [state[d] EXCEPT !.pending = p(r)]] /\ saved' = saved
    BY <2>1 DEF Interrupted
  <2>5. state'[d].pending = p(r) /\ \A e \in Drivers : e # d => state'[e] = state[e]
    BY <1>1, <2>4 DEF TypeOK, States
  <2>6. AllFit'
    <3>1. ASSUME NEW e \in Drivers PROVE Fits(state[e].pending)'
      <4>1. CASE e = d
        BY <2>1, <2>2, <2>5, <4>1 DEF Fits
      <4>2. CASE e # d
        BY <1>1, <2>1, <2>2, <2>3, <2>5, <4>2 DEF Fits
      <4> QED BY <4>1, <4>2
    <3>2. saved' # Nothing => Fits(saved.state.pending)'
      BY <1>1, <2>1, <2>2, <2>3, <2>4 DEF Fits, AllFit
    <3> QED BY <3>1, <3>2 DEF AllFit
  <2>7. SignedInv'
    <3>1. UNCHANGED <<approvedOnce, toolRuns>>
      BY <1>3 DEF GateRequests
    <3>2. \A q \in Requests : decision'[q] = "approved" => decision[q] = "approved"
      BY <1>1, <2>1 DEF Create, ApprovalTypeOK
    <3> QED BY <1>1, <2>1, <2>2, <2>3, <3>1, <3>2 DEF SignedInv
  <2> QED BY <2>6, <2>7
<1>4. ASSUME NEW d \in Drivers, Validate(d) PROVE AllFit' /\ SignedInv'
  <2>1. Ran(d, Validated(state[d])) /\ Validated(state[d]).pending = NoPending
    BY <1>1, <1>4, PendingTypes DEF Validate
  <2>2. UNCHANGED <<approvalVars, issued, asked, approvedOnce>>
    BY <1>4 DEF Validate
  <2>3. AllFit'
    BY <2>1, <2>2, OrderRan DEF AllFit, Fits
  <2>4. SignedInv'
    <3>1. CASE UNCHANGED toolRuns
      BY <1>1, <2>2, <3>1 DEF SignedInv
    <3>2. CASE IsApproved(state[d].pending.request) /\ RunTool(d)
      <4> DEFINE r == state[d].pending.request
                 i == state[d].pending.item
      <4>1. r \in Requests /\ r \in issued /\ i = asked[r] /\ i \in Items
        BY <1>1, <1>4, StateFields, PendingFields DEF Validate, HasTarget, Fits
      <4>2. r \in approvedOnce
        BY <1>1, <3>2 DEF IsApproved, SignedInv
      <4>3. toolRuns' = [toolRuns EXCEPT ![r][i] = @ + 1]
        BY <3>2 DEF RunTool, ValidatedItem
      <4> HIDE DEF r, i
      <4>4. \A q \in Requests, k \in Items : ~(q = r /\ k = i) => toolRuns'[q][k] = toolRuns[q][k]
        BY <1>1, <4>1, <4>3 DEF TypeOK
      <4> QED BY <1>1, <2>2, <4>1, <4>2, <4>4 DEF SignedInv
    <3> QED BY <1>4, <3>1, <3>2 DEF Validate
  <2> QED BY <2>3, <2>4
<1>5. ASSUME NEW d \in Drivers, Start(d) \/ Resume(d) PROVE AllFit' /\ SignedInv'
  <2>1. UNCHANGED <<approvalVars, saved, issued, asked, approvedOnce, toolRuns>>
    BY <1>5 DEF Start, Begin, Resume
  <2>2. PICK st : state' = [state EXCEPT ![d] = st] /\ Fits(st.pending)
    <3>1. CASE Start(d)
      BY <3>1, InitialStateType DEF Start, Begin, Fits
    <3>2. CASE Resume(d)
      <4>1. saved # Nothing /\ saved.state \in Rows
        BY <1>1, <3>2 DEF Resume, TypeOK
      <4> QED BY <1>1, <3>2, <4>1, RowTypes DEF Resume, AllFit
    <3> QED BY <1>5, <3>1, <3>2
  <2>3. \A e \in Drivers : Fits(state'[e].pending)
    BY <1>1, <2>2 DEF TypeOK
  <2> QED BY <1>1, <2>1, <2>3, OrderQuiet DEF AllFit
<1>6. ASSUME NEW d \in Drivers, Advance(d) \/ Park(d) \/ Complete(d) PROVE AllFit' /\ SignedInv'
  <2>1. PICK n : Put(d, n)
    BY <1>6 DEF Advance, Park, Complete
  <2> QED BY <2>1, OrderPut, OrderQuiet
<1>7. ASSUME \/ \E d \in Drivers : Invoke(d) \/ Raise(d)
             \/ Crash
             \/ UNCHANGED vars
      PROVE  AllFit' /\ SignedInv'
  <2>1. UNCHANGED <<state, saved, issued, asked, approvedOnce, toolRuns>>
    BY <1>7 DEF Invoke, Raise, Crash, vars
  <2>2. \A r \in Requests : decision'[r] = "approved" => decision[r] = "approved"
    BY <1>7 DEF Invoke, Raise, Crash, vars
  <2> QED BY <1>1, <2>1, <2>2, OrderQuiet DEF AllFit
<1>8. ASSUME NEW r \in Requests, NEW verdict \in Decisions, NEW name \in Names,
             Approve(r, verdict, name)
      PROVE  AllFit' /\ SignedInv'
  <2>1. UNCHANGED <<state, saved, issued, asked, toolRuns>>
    BY <1>8 DEF Approve
  <2>2. decision' = [decision EXCEPT ![r] = verdict]
    BY <1>8 DEF Approve, SignOff, Resolve
  <2>3. approvedOnce' = IF verdict = "approved" THEN approvedOnce \cup {r} ELSE approvedOnce
    BY <1>8 DEF Approve
  <2>4. SignedInv'
    BY <1>1, <2>1, <2>2, <2>3 DEF SignedInv, ApprovalTypeOK
  <2> QED BY <1>1, <2>1, <2>4 DEF AllFit, Fits
<1> QED BY <1>2, <1>3, <1>4, <1>5, <1>6, <1>7, <1>8 DEF Next, Step

LEMMA OrderInvHolds == Spec => []OrderInv
BY OrderInit, OrderNext, PTL DEF Spec

\* PendingMatchesRequest: the request a driver or the checkpoint waits for is the one
\* that was created for its item, whoever resumes, crashes or overwrites rows meanwhile.
THEOREM PendingRequestMatches == Spec => []PendingMatchesRequest
BY OrderInvHolds, FitIsMatch, PTL DEF OrderInv
-----------------------------------------------------------------------------
(* What the plan history says of a run without faults.                     *)

\* The phase the plan history holds though it has not run yet.
Chosen(d) ==
  IF status[d] = "enter" THEN {node[d]}
  ELSE IF status[d] = "ran" /\ node[d] = "planner" THEN {state[d].decision.action}
  ELSE {}

HasRun(did) == \A p \in Phases \cap did : executed[p] > 0

\* As long as nothing failed and nobody resumed a running engagement: one driver runs and
\* writes the last row; its history holds what ran and what it is about to run; and once
\* nobody runs, or who runs will find that there is nothing left to do, so does the row.
AloneInv ==
  /\ \A d, e \in Drivers : Running(d) /\ Running(e) => d = e
  /\ \A d \in Drivers : status[d] \in {"enter", "ran", "parking"} => behind[d] = 0
  /\ \A d \in Drivers : status[d] \in {"loaded", "enter", "ran", "parking", "complete"} =>
       HasRun(state[d].did \ Chosen(d))
  /\ saved # Nothing /\ (\A d \in Drivers : Running(d) => status[d] = "loaded" /\ node[d] = "END")
       => HasRun(saved.state.did)

HistoryInv == TypeInv /\ (faults = 0 /\ overlaps = 0 => AloneInv)

LEMMA HistoryInit == Init => HistoryInv
<1> SUFFICES ASSUME Init PROVE AloneInv
  BY TypesInit DEF HistoryInv
<1> QED BY DEF Init, AloneInv, Running

\* A node but the planner leaves the plan history alone.
LEMMA DidKept ==
  ASSUME TypeInv, NEW d \in Drivers,
         \/ Recon(d) \/ Scan(d) \/ Correlate(d) \/ Report(d) \/ GateRequests(d)
         \/ GateWaits(d) \/ GateResolves(d) \/ RecordIntent(d) \/ Validate(d)
  PROVE  /\ state'[d].did = state[d].did
         /\ \A e \in Drivers : e # d => state'[e] = state[e]
         /\ \E s \in {"ran", "parking"} : status' = [status EXCEPT ![d] = s]
         /\ AtNode(d, node[d]) /\ node[d] \notin {"planner", "END"}
         /\ UNCHANGED <<node, behind, saved, faults, overlaps>>
<1>1. state[d] \in States /\ state \in [Drivers -> States]
  BY DEF TypeInv, TypeOK
<1>2. AtNode(d, node[d]) /\ node[d] \notin {"planner", "END"}
  BY DEF Recon, Scan, Correlate, Report, GateRequests, GateWaits, GateResolves, RecordIntent,
         Validate, AtNode
<1>3. PICK st : (Ran(d, st) \/ Interrupted(d, st)) /\ st.did = state[d].did
  <2>1. CASE Recon(d)
    <3>1. PICK n \in 0..MaxSteps, found \in BOOLEAN :
            Ran(d, [state[d] EXCEPT !.spent = Spend(state[d], n), !.assets = @ \/ found])
      BY <2>1 DEF Recon
    <3> DEFINE st == [state[d] EXCEPT !.spent = Spend(state[d], n), !.assets = @ \/ found]
    <3>2. st.did = state[d].did
      BY <1>1 DEF States
    <3> QED BY <3>1, <3>2
  <2>2. CASE Scan(d)
    <3>1. PICK n \in 0..MaxSteps, f \in Findings :
            Ran(d, [state[d] EXCEPT !.spent = Spend(state[d], n), !.findings = Worse(@, f)])
      BY <2>2 DEF Scan
    <3> DEFINE st == [state[d] EXCEPT !.spent = Spend(state[d], n), !.findings = Worse(@, f)]
    <3>2. st.did = state[d].did
      BY <1>1 DEF States
    <3> QED BY <3>1, <3>2
  <2>3. CASE Correlate(d) \/ Report(d) \/ GateWaits(d)
    BY <2>3 DEF Correlate, Report, GateWaits
  <2>4. CASE GateRequests(d)
    BY <1>1, <2>4 DEF GateRequests, States
  <2>5. CASE GateResolves(d)
    BY <1>1, <2>5 DEF GateResolves, States
  <2>6. CASE RecordIntent(d)
    BY <1>1, <2>6 DEF RecordIntent, States
  <2>7. CASE Validate(d)
    <3>1. Validated(state[d]).did = state[d].did
      BY <1>1 DEF Validated, States
    <3> QED BY <2>7, <3>1 DEF Validate
  <2> QED BY <2>1, <2>2, <2>3, <2>4, <2>5, <2>6, <2>7
<1>4. /\ state' = [state EXCEPT ![d] = st]
      /\ \E s \in {"ran", "parking"} : status' = [status EXCEPT ![d] = s]
      /\ UNCHANGED <<node, behind, saved, faults, overlaps>>
  BY <1>3 DEF Ran, Interrupted
<1> QED BY <1>1, <1>2, <1>3, <1>4

\* The row of the one driver that runs is the last one.
LEMMA AlonePut ==
  ASSUME TypeInv, AloneInv, NEW d \in Drivers, NEW n \in Nodes, Put(d, n),
         status[d] \in {"enter", "ran", "parking"}
  PROVE  /\ saved' # Nothing => saved'.state.did = state[d].did
         /\ \A e \in Drivers : status[e] \in {"enter", "ran", "parking"} => behind'[e] = 0
         /\ UNCHANGED <<state, faults, overlaps, executed>>
<1>1. behind[d] = 0 /\ \A e \in Drivers : Running(e) => e = d
  BY DEF AloneInv, Running
<1>2. saved' = [node |-> n, state |-> ToCheckpoint(state[d])]
  BY <1>1 DEF Put
<1>3. behind' = [e \in Drivers |-> behind[e]]
  BY <1>1 DEF Put
<1>4. ToCheckpoint(state[d]).did = state[d].did
  BY RowTypes DEF TypeInv, TypeOK
<1>5. \A e \in Drivers : status[e] \in {"enter", "ran", "parking"} => behind[e] = 0
  BY DEF AloneInv
<1> QED BY <1>2, <1>3, <1>4, <1>5 DEF Put, historyVars

LEMMA HistoryNext == HistoryInv /\ [Next]_vars => HistoryInv'
<1> SUFFICES ASSUME HistoryInv, [Next]_vars, faults' = 0, overlaps' = 0 PROVE AloneInv'
  BY TypesNext DEF HistoryInv
<1> USE DEF approvalVars, driverVars, historyVars
<1>1. TypeInv /\ TypeOK /\ faults \in Nat /\ overlaps \in Nat
  BY GraphAssumption DEF HistoryInv, TypeInv, TypeOK
<1>2. ASSUME NEW d \in Drivers, Planner(d) PROVE AloneInv'
  <2>1. PICK dec \in PlannerDecisions(state[d]) :
          Ran(d, [state[d] EXCEPT !.decision = dec, !.did = @ \cup {dec.action}])
    BY <1>2 DEF Planner
  <2> DEFINE st == [state[d] EXCEPT !.decision = dec, !.did = @ \cup {dec.action}]
  <2>2. state[d] \in States /\ st.decision = dec /\ st.did = state[d].did \cup {dec.action}
    BY <1>1 DEF TypeOK, States
  <2>3. state' = [state EXCEPT ![d] = st] /\ status' = [status EXCEPT ![d] = "ran"]
        /\ UNCHANGED <<node, behind, saved, faults, overlaps, executed>>
    BY <1>2, <2>1 DEF Planner, Ran
  <2> HIDE DEF st
  <2>4. AloneInv /\ status[d] = "enter" /\ node[d] = "planner"
    BY <1>2, <2>3 DEF HistoryInv, Planner, AtNode
  <2>5. HasRun(state[d].did)
    BY <2>4 DEF AloneInv, HasRun, Chosen, Phases
  <2>6. HasRun(state[d].did \ Chosen(d))'
    BY <1>1, <2>2, <2>3, <2>4, <2>5 DEF HasRun, Chosen, TypeOK
  <2>7. ASSUME NEW e \in Drivers, e # d PROVE UNCHANGED <<state[e], status[e], node[e], behind[e]>>
    BY <1>1, <2>3, <2>7 DEF TypeOK
  <2>8. status'[d] = "ran"
    BY <1>1, <2>3 DEF TypeOK
  <2> QED BY <2>3, <2>4, <2>6, <2>7, <2>8 DEF AloneInv, HasRun, Chosen, Running
<1>3. ASSUME NEW d \in Drivers,
             \/ Recon(d) \/ Scan(d) \/ Correlate(d) \/ Report(d) \/ GateRequests(d)
             \/ GateWaits(d) \/ GateResolves(d) \/ RecordIntent(d) \/ Validate(d)
      PROVE  AloneInv'
  <2>1. /\ state'[d].did = state[d].did
        /\ \A e \in Drivers : e # d => state'[e] = state[e]
        /\ \E s \in {"ran", "parking"} : status' = [status EXCEPT ![d] = s]
        /\ status[d] = "enter" /\ node[d] \notin {"planner", "END"}
        /\ UNCHANGED <<node, behind, saved, faults, overlaps>>
    BY <1>1, <1>3, DidKept DEF AtNode
  <2>2. AloneInv
    BY <2>1 DEF HistoryInv
  <2>3. /\ \A p \in Phases : executed[p] > 0 => executed'[p] > 0
        /\ node[d] \in Phases => executed'[node[d]] > 0
    <3>1. CASE node[d] \in Phases
      <4>1. CountPhase(node[d])
        BY <1>3, <3>1 DEF Recon, Scan, Correlate, Report, GateRequests, GateWaits, GateResolves,
                          RecordIntent, Validate, AtNode, Phases
      <4> QED BY <1>1, <3>1, <4>1 DEF CountPhase, TypeOK
    <3>2. CASE node[d] \notin Phases
      <4>1. UNCHANGED executed
        BY <1>3, <3>2 DEF Recon, Scan, Correlate, Report, GateRequests, GateWaits, GateResolves,
                          RecordIntent, Validate, AtNode, Phases
      <4> QED BY <3>2, <4>1
    <3> QED BY <3>1, <3>2
  <2>4. HasRun(state[d].did \ {node[d]})
    BY <2>1, <2>2 DEF AloneInv, Chosen
  <2>5. HasRun(state[d].did)'
    BY <2>1, <2>3, <2>4 DEF HasRun
  <2>6. status'[d] \in {"ran", "parking"} /\ \A e \in Drivers : e # d => status'[e] = status[e]
    BY <1>1, <2>1 DEF TypeOK
  <2>7. \A e \in Drivers : status'[e] \in {"loaded", "enter", "ran", "parking", "complete"} =>
          HasRun(state[e].did \ Chosen(e))'
    <3>1. TAKE e \in Drivers
    <3>2. CASE e = d
      BY <2>5, <3>2 DEF HasRun
    <3>3. CASE e # d
      BY <2>1, <2>2, <2>3, <2>6, <3>3 DEF AloneInv, HasRun, Chosen
    <3> QED BY <3>2, <3>3
  <2> QED BY <2>1, <2>2, <2>6, <2>7 DEF AloneInv, Running
<1>4. ASSUME NEW d \in Drivers, Start(d) \/ Resume(d) PROVE AloneInv'
  <2>1. \A e \in Drivers : ~Running(e)
    <3>1. CASE Start(d)
      BY <3>1 DEF Start, Running
    <3>2. CASE Resume(d)
      BY <1>1, <3>2 DEF Resume
    <3> QED BY <1>4, <3>1, <3>2
  <2>2. AloneInv /\ UNCHANGED <<behind, saved, faults, overlaps>>
    BY <1>1, <1>4, <2>1 DEF HistoryInv, Start, Begin, Resume
  <2>3. status'[d] = "loaded" /\ \A e \in Drivers : e # d =>
           status'[e] = status[e] /\ node'[e] = node[e] /\ state'[e] = state[e]
    BY <1>1, <1>4 DEF Start, Begin, Resume, TypeOK
  <2>4. CASE Start(d)
    <3>1. state'[d].did = {} /\ node'[d] = "planner"
      BY <1>1, <2>4 DEF Start, Begin, InitialState, TypeOK
    <3>2. \A e \in Drivers : e # d => status'[e] = "idle"
      BY <2>3, <2>4 DEF Start
    <3>3. HasRun(state[d].did \ Chosen(d))'
      BY <3>1 DEF HasRun
    <3> QED BY <2>2, <2>3, <3>1, <3>2, <3>3 DEF AloneInv, Running
  <2>5. CASE Resume(d)
    <3>1. saved # Nothing /\ saved.state \in Rows /\ UNCHANGED executed
          /\ state' = [state EXCEPT ![d] = FromCheckpoint(saved.state)]
      BY <1>1, <2>5 DEF Resume, TypeOK
    <3>2. state'[d].did = saved.state.did
      BY <1>1, <3>1, RowTypes DEF TypeOK
    <3>3. HasRun(saved.state.did)
      BY <2>1, <2>2, <3>1 DEF AloneInv
    <3>4. HasRun(saved.state.did)' /\ HasRun(state[d].did \ Chosen(d))'
      BY <2>2, <3>1, <3>2, <3>3 DEF HasRun
    <3>5. \A e \in Drivers : e # d /\ status'[e] \in {"loaded", "enter", "ran", "parking", "complete"}
            => HasRun(state[e].did \ Chosen(e))'
      BY <2>2, <2>3, <3>1 DEF AloneInv, HasRun, Chosen
    <3> QED BY <2>1, <2>2, <2>3, <3>4, <3>5 DEF AloneInv, Running
  <2> QED BY <1>4, <2>4, <2>5
<1>5. ASSUME NEW d \in Drivers, Invoke(d) PROVE AloneInv'
  <2>1. /\ AloneInv /\ status[d] = "loaded"
        /\ status' = [status EXCEPT ![d] = IF node[d] = "END" THEN "raised" ELSE "enter"]
        /\ behind' = [behind EXCEPT ![d] = 0]
        /\ UNCHANGED <<node, state, saved, executed>>
    BY <1>5 DEF HistoryInv, Invoke
  <2>2. /\ status'[d] = (IF node[d] = "END" THEN "raised" ELSE "enter") /\ behind'[d] = 0
        /\ \A e \in Drivers : e # d => status'[e] = status[e] /\ behind'[e] = behind[e]
    BY <1>1, <2>1 DEF TypeOK
  <2>3. \A e \in Drivers : e # d => ~Running(e)
    BY <2>1 DEF AloneInv, Running
  <2>4. HasRun(state[d].did \ Chosen(d))'
    <3>1. HasRun(state[d].did)
      BY <2>1 DEF AloneInv, Chosen, HasRun
    <3> QED BY <2>1, <3>1 DEF HasRun
  <2>5. \A e \in Drivers : e # d /\ status'[e] \in {"loaded", "enter", "ran", "parking", "complete"}
          => HasRun(state[e].did \ Chosen(e))'
    BY <2>1, <2>2 DEF AloneInv, HasRun, Chosen
  <2>6. saved' # Nothing /\ ~Running(d)' => HasRun(saved.state.did)'
    <3>1. ~Running(d)' => node[d] = "END"
      BY <2>2 DEF Running
    <3>2. node[d] = "END" => \A e \in Drivers : Running(e) => status[e] = "loaded" /\ node[e] = "END"
      BY <2>1, <2>3
    <3> QED BY <2>1, <3>1, <3>2 DEF AloneInv, HasRun
  <2>7. Running(d)' => status'[d] = "enter"
    BY <2>2 DEF Running
  <2> QED BY <2>1, <2>2, <2>3, <2>4, <2>5, <2>6, <2>7 DEF AloneInv, Running
<1>6. ASSUME NEW d \in Drivers, Advance(d) \/ Park(d) \/ Complete(d) PROVE AloneInv'
  <2>1. PICK n \in Nodes : Put(d, n)
    BY <1>1, <1>6 DEF Advance, Park, Complete, TypeOK, Nodes
  <2>2. status[d] \in {"enter", "ran", "parking"}
    BY <1>6 DEF Advance, Park, Complete, AtNode
  <2>3. AloneInv
    BY <2>1 DEF HistoryInv, Put
  <2>4. /\ saved' # Nothing => saved'.state.did = state[d].did
        /\ \A e \in Drivers : status[e] \in {"enter", "ran", "parking"} => behind'[e] = 0
        /\ UNCHANGED <<state, faults, overlaps, executed>>
    BY <1>1, <2>1, <2>2, <2>3, AlonePut
  <2>5. \A e \in Drivers : e # d => ~Running(e) /\ status'[e] = status[e] /\ node'[e] = node[e]
    BY <1>1, <1>6, <2>2, <2>3 DEF AloneInv, Running, Advance, Park, Complete, TypeOK
  <2>6. HasRun(state[d].did \ Chosen(d))
    BY <2>2, <2>3 DEF AloneInv
  <2>7. HasRun(state[d].did \ Chosen(d))' /\ (status'[d] # "enter" => HasRun(state[d].did)')
    <3>1. CASE Advance(d)
      <4>1. status[d] = "ran" /\ status'[d] = "enter" /\ node'[d] = NextNode(node[d], state[d])
        BY <1>1, <3>1 DEF Advance, TypeOK
      <4>2. Phases \cap Chosen(d) \subseteq Chosen(d)'
        BY <4>1 DEF Chosen, NextNode, RouteFromPlanner, Phases
      <4> QED BY <2>4, <2>6, <4>1, <4>2 DEF HasRun
    <3>2. CASE Park(d) \/ Complete(d)
      <4>1. Phases \cap Chosen(d) = {}
        BY <3>2 DEF Park, Complete, AtNode, Chosen, Phases
      <4> QED BY <2>4, <2>6, <4>1 DEF HasRun
    <3> QED BY <1>6, <3>1, <3>2
  <2>8. \A e \in Drivers : e # d /\ status'[e] \in {"loaded", "enter", "ran", "parking", "complete"}
          => HasRun(state[e].did \ Chosen(e))'
    BY <2>3, <2>4, <2>5 DEF AloneInv, HasRun, Chosen
  <2>9. status'[d] \in {"enter", "parked", "complete"}
        /\ (status'[d] = "enter" => status[d] \in {"enter", "ran", "parking"} /\ Running(d)')
    BY <1>1, <1>6, <2>2 DEF Advance, Park, Complete, TypeOK, Running
  <2>10. saved' # Nothing /\ status'[d] # "enter" => HasRun(saved.state.did)'
    BY <2>4, <2>7 DEF HasRun
  <2> QED BY <2>2, <2>4, <2>5, <2>7, <2>8, <2>9, <2>10 DEF AloneInv, Running
<1>7. ASSUME (\E d \in Drivers : Raise(d)) \/ Crash PROVE FALSE
  BY <1>1, <1>7 DEF Raise, Crash
<1>8. ASSUME (\E r \in Requests, verdict \in Decisions, name \in Names : Approve(r, verdict, name))
               \/ UNCHANGED vars
      PROVE  AloneInv'
  <2>1. UNCHANGED <<node, status, state, behind, saved, faults, overlaps, executed>>
    BY <1>8 DEF Approve, vars
  <2> QED BY <2>1 DEF HistoryInv, AloneInv, HasRun, Chosen, Running
<1> QED BY <1>2, <1>3, <1>4, <1>5, <1>6, <1>7, <1>8 DEF Next, Step

\* HistoryRightWithoutFaults: without an exception, a crash or a second driver a completed
\* engagement has run every phase its plan history claims.
THEOREM HistoryRight == Spec => []HistoryRightWithoutFaults
<1>1. Spec => []HistoryInv
  BY HistoryInit, HistoryNext, PTL DEF Spec
<1>2. HistoryInv => HistoryRightWithoutFaults
  BY DEF HistoryInv, AloneInv, HasRun, Chosen, HistoryRightWithoutFaults
<1> QED BY <1>1, <1>2, PTL
-----------------------------------------------------------------------------
(* How often a phase or an approved tool is run: tokens.  Who may still run *)
(* it without a further fault or overlap holds a token; the last row holds  *)
(* one while no driver is going to write over it.                           *)

LEMMA CountTokens ==
  ASSUME NEW F \in SUBSET Drivers, NEW G \in SUBSET Drivers
  PROVE  /\ Cardinality(F) \in Nat /\ Cardinality(G) \in Nat
         /\ G \subseteq F => Cardinality(G) <= Cardinality(F)
         /\ \A d \in Drivers : G \subseteq F \cup {d} => Cardinality(G) <= Cardinality(F) + 1
         /\ \A d \in F : G \subseteq F \ {d} => Cardinality(G) <= Cardinality(F) - 1
         /\ G = {} => Cardinality(G) = 0
<1>1. IsFiniteSet(F) /\ IsFiniteSet(G)
  BY FS_Subset, DriversFinite
<1>2. Cardinality(F) \in Nat /\ Cardinality(G) \in Nat
  BY <1>1, FS_CardinalityType
<1>3. G \subseteq F => Cardinality(G) <= Cardinality(F)
  BY <1>1, FS_Subset
<1>4. ASSUME NEW d \in Drivers, G \subseteq F \cup {d} PROVE Cardinality(G) <= Cardinality(F) + 1
  <2>1. IsFiniteSet(F \cup {d}) /\ Cardinality(F \cup {d}) <= Cardinality(F) + 1
    <3>1. /\ IsFiniteSet(F \cup {d})
          /\ Cardinality(F \cup {d}) = IF d \in F THEN Cardinality(F) ELSE Cardinality(F) + 1
      BY <1>1, FS_AddElement
    <3> QED BY <1>2, <3>1
  <2>2. Cardinality(G) <= Cardinality(F \cup {d})
    BY <1>4, <2>1, FS_Subset
  <2>3. Cardinality(F \cup {d}) \in Nat
    BY <2>1, FS_CardinalityType
  <2> QED BY <1>2, <2>1, <2>2, <2>3
<1>5. ASSUME NEW d \in F, G \subseteq F \ {d} PROVE Cardinality(G) <= Cardinality(F) - 1
  <2>1. IsFiniteSet(F \ {d}) /\ Cardinality(F \ {d}) = Cardinality(F) - 1
    BY <1>1, FS_RemoveElement
  <2>2. Cardinality(G) <= Cardinality(F \ {d})
    BY <1>5, <2>1, FS_Subset
  <2> QED BY <1>2, <2>1, <2>2
<1>6. G = {} => Cardinality(G) = 0
  BY FS_EmptySet
<1> QED BY <1>2, <1>3, <1>4, <1>5, <1>6

\* A driver that will write the last row, or write over it.
Owner(d) ==
  \/ status[d] = "loaded" /\ node[d] # "END"
  \/ status[d] \in {"enter", "ran", "parking"} /\ behind[d] <= 1

Orphaned == \A d \in Drivers : ~Owner(d)

\* A driver that goes on; who resumed a finished run does not.
Live(d) == Running(d) /\ ~(status[d] = "loaded" /\ node[d] = "END")

\* Who may run a phase: did not choose it yet, or is about to run it.
NextUp(d) == IF status[d] = "loaded" THEN {node[d]} ELSE Chosen(d)
MayRun(p) == {d \in Drivers : Live(d) /\ (p \notin state[d].did \/ p \in NextUp(d))}
RowMayRun(p) ==
  /\ Orphaned /\ saved # Nothing /\ saved.node # "END"
  /\ p \notin saved.state.did \/ p = saved.node

\* Who may run the tool of a request: holds it as pending.
IsFor(pending, r) == pending # NoPending /\ pending.request = r
MayUse(r) == {d \in Drivers : Live(d) /\ IsFor(state[d].pending, r)}
RowMayUse(r) ==
  /\ Orphaned /\ saved # Nothing /\ saved.node # "END"
  /\ IsFor(saved.state.pending, r)

One(row) == IF row THEN 1 ELSE 0

\* A phase is in the plan history when its node is reached, and only the gate parks.
DidInv ==
  /\ \A d \in Drivers :
       /\ status[d] \in {"loaded", "enter", "ran"} /\ node[d] \in Phases => node[d] \in state[d].did
       /\ status[d] = "ran" /\ node[d] = "planner" => state[d].decision.action \in state[d].did
       /\ status[d] = "parking" => node[d] = "approval_gate"
  /\ saved # Nothing /\ saved.node \in Phases => saved.node \in saved.state.did

PhaseInv ==
  \A p \in Phases :
    executed[p] + Cardinality(MayRun(p)) + One(RowMayRun(p)) <= 1 + faults + overlaps

UseInv ==
  \A r \in Requests, i \in Items :
    toolRuns[r][i] + Cardinality(MayUse(r)) + One(RowMayUse(r)) <= 1 + faults + overlaps

LEMMA DidInit == Init => DidInv
BY DEF Init, DidInv, Phases

\* The planner never proposes a stage its history holds.
LEMMA PlannerProposesNew ==
  ASSUME NEW st \in States, NEW dec \in PlannerDecisions(st), dec.action \in Phases
  PROVE  dec.action \notin st.did
<1>1. ASSUME NEW x \in RuleDecisions(st), x.action \in Phases PROVE x.action \notin st.did
  BY <1>1 DEF RuleDecisions, Propose, AlreadyDid, Phases
<1>2. ASSUME NEW reply \in Replies, NEW x \in Decide(st, reply), x.action \in Phases
      PROVE  x.action \notin st.did
  <2>1. CASE x \in RuleDecisions(st)
    BY <1>1, <1>2, <2>1
  <2>2. CASE x = Checked(reply) /\ ~(reply.action \in Phases /\ AlreadyDid(st, reply.action))
    <3>1. reply.action \in Phases /\ x.action = reply.action
      BY <1>2, <2>2 DEF Checked, Propose, Phases
    <3> QED BY <2>2, <3>1 DEF AlreadyDid
  <2> QED BY <1>2, <2>1, <2>2 DEF Decide
<1> QED BY <1>1, <1>2 DEF PlannerDecisions, LLMDecisions

LEMMA DidNext == TypeInv /\ DidInv /\ [Next]_vars => DidInv'
<1> SUFFICES ASSUME TypeInv, DidInv, [Next]_vars PROVE DidInv'
  OBVIOUS
<1> USE DEF approvalVars, driverVars, historyVars
<1>1. TypeOK
  BY DEF TypeInv
<1>2. ASSUME NEW d \in Drivers, Planner(d) PROVE DidInv'
  <2>1. PICK dec \in PlannerDecisions(state[d]) :
          Ran(d, [state[d] EXCEPT !.decision = dec, !.did = @ \cup {dec.action}])
    BY <1>2 DEF Planner
  <2> DEFINE st == [state[d] EXCEPT !.decision = dec, !.did = @ \cup {dec.action}]
  <2>2. st.decision = dec /\ st.did = state[d].did \cup {dec.action}
    BY <1>1 DEF TypeOK, States
  <2>3. /\ state' = [state EXCEPT ![d] = st] /\ status' = [status EXCEPT ![d] = "ran"]
        /\ UNCHANGED <<node, saved>> /\ node[d] = "planner"
    BY <1>2, <2>1 DEF Planner, Ran, AtNode
  <2> HIDE DEF st
  <2> QED BY <1>1, <2>2, <2>3 DEF DidInv, TypeOK, Phases
<1>3. ASSUME NEW d \in Drivers,
             \/ Recon(d) \/ Scan(d) \/ Correlate(d) \/ Report(d) \/ GateRequests(d)
             \/ GateWaits(d) \/ GateResolves(d) \/ RecordIntent(d) \/ Validate(d)
      PROVE  DidInv'
  <2>1. /\ state'[d].did = state[d].did
        /\ \A e \in Drivers : e # d => state'[e] = state[e]
        /\ \E s \in {"ran", "parking"} : status' = [status EXCEPT ![d] = s]
        /\ status[d] = "enter" /\ node[d] # "planner"
        /\ UNCHANGED <<node, saved>>
    BY <1>3, DidKept DEF AtNode
  <2>2. status'[d] = "parking" => node[d] = "approval_gate"
    BY <1>1, <1>3 DEF Recon, Scan, Correlate, Report, GateRequests, GateWaits, GateResolves,
                      RecordIntent, Validate, AtNode, Ran, TypeOK
  <2> QED BY <1>1, <2>1, <2>2 DEF DidInv, TypeOK
<1>4. ASSUME NEW d \in Drivers, Start(d) \/ Resume(d) PROVE DidInv'
  <2>1. /\ status' = [status EXCEPT ![d] = "loaded"] /\ UNCHANGED saved
        /\ \A e \in Drivers : e # d => node'[e] = node[e] /\ state'[e] = state[e]
    BY <1>1, <1>4 DEF Start, Begin, Resume, TypeOK
  <2>2. node'[d] \in Phases => node'[d] \in state'[d].did
    <3>1. CASE Start(d)
      BY <1>1, <3>1 DEF Start, Begin, TypeOK, Phases
    <3>2. CASE Resume(d)
      <4>1. saved # Nothing /\ saved.state \in Rows
        BY <1>1, <3>2 DEF Resume, TypeOK
      <4>2. node'[d] = saved.node /\ state'[d].did = saved.state.did
        BY <1>1, <3>2, <4>1, RowTypes DEF Resume, TypeOK
      <4> QED BY <4>1, <4>2 DEF DidInv
    <3> QED BY <1>4, <3>1, <3>2
  <2> QED BY <1>1, <2>1, <2>2 DEF DidInv, TypeOK
<1>5. ASSUME NEW d \in Drivers, Advance(d) \/ Park(d) \/ Complete(d) PROVE DidInv'
  <2>1. PICK n \in Nodes : Put(d, n) /\ (n \in Phases => n = node[d] /\ status[d] \in {"ran", "parking"})
    BY <1>1, <1>5 DEF Advance, Park, Complete, TypeOK, Nodes, Phases
  <2>2. n \in Phases => n \in state[d].did
    BY <2>1 DEF DidInv, Phases
  <2>3. ToCheckpoint(state[d]).did = state[d].did
    BY <1>1, RowTypes DEF TypeOK
  <2>4. saved' # Nothing /\ saved'.node \in Phases => saved'.node \in saved'.state.did
    BY <2>1, <2>2, <2>3 DEF Put, DidInv
  <2>5. UNCHANGED state
    BY <2>1 DEF Put
  <2>6. CASE Advance(d)
    <3>1. status'[d] = "enter" /\ node'[d] = NextNode(node[d], state[d]) /\ status[d] = "ran"
          /\ \A e \in Drivers : e # d => status'[e] = status[e] /\ node'[e] = node[e]
      BY <1>1, <2>6 DEF Advance, TypeOK
    <3>2. node'[d] \in Phases => node'[d] \in state[d].did
      BY <3>1 DEF NextNode, RouteFromPlanner, RouteFromGate, Edge, Phases, DidInv
    <3> QED BY <2>4, <2>5, <3>1, <3>2 DEF DidInv
  <2>7. CASE Park(d) \/ Complete(d)
    BY <1>1, <2>4, <2>5, <2>7 DEF Park, Complete, TypeOK, DidInv
  <2> QED BY <1>5, <2>6, <2>7
<1>6. ASSUME NEW d \in Drivers, Invoke(d) \/ Raise(d) PROVE DidInv'
  <2>1. /\ UNCHANGED <<node, state, saved>> /\ status[d] \in {"loaded", "enter", "ran", "parking"}
        /\ \E s \in {"raised", "enter"} :
             status' = [status EXCEPT ![d] = s] /\ (s = "enter" => status[d] = "loaded")
    BY <1>6 DEF Invoke, Raise
  <2> QED BY <1>1, <2>1 DEF DidInv, TypeOK
<1>7. CASE Crash
  BY <1>7 DEF Crash, DidInv
<1>8. CASE \/ \E r \in Requests, verdict \in Decisions, name \in Names : Approve(r, verdict, name)
           \/ UNCHANGED vars
  <2>1. UNCHANGED <<node, status, state, saved>>
    BY <1>8 DEF Approve, vars
  <2> QED BY <2>1 DEF DidInv
<1> QED BY <1>2, <1>3, <1>4, <1>5, <1>6, <1>7, <1>8 DEF Next, Step

\* What a written row does to the owners of the last row: it was somebody else's and
\* stays so; or it is the driver's own, that goes on; or it is the driver's last.
LEMMA PutOwners ==
  ASSUME TypeInv, NEW d \in Drivers, NEW n, Put(d, n), NEW s \in {"enter", "parked", "complete"},
         status[d] \in {"enter", "ran", "parking"}, status' = [status EXCEPT ![d] = s],
         \A e \in Drivers : e # d => node'[e] = node[e]
  PROVE  \/ saved' = saved /\ (Orphaned' => Orphaned)
         \/ ~Orphaned'
         \/ s # "enter" /\ saved' = [node |-> n, state |-> ToCheckpoint(state[d])]
<1> USE DEF TypeInv, TypeOK
<1>1. CASE behind[d] > 1
  <2>1. saved' = saved /\ behind' = [behind EXCEPT ![d] = behind[d] - 1]
    BY <1>1 DEF Put
  <2>2. ASSUME NEW e \in Drivers, Owner(e) PROVE Owner(e)'
    <3>1. e # d
      BY <1>1, <2>2 DEF Owner
    <3> QED BY <2>1, <2>2, <3>1 DEF Owner
  <2> QED BY <2>1, <2>2 DEF Orphaned
<1>2. CASE behind[d] <= 1
  <2>1. saved' = [node |-> n, state |-> ToCheckpoint(state[d])]
    BY <1>2 DEF Put
  <2>2. CASE s = "enter"
    <3>1. status'[d] = "enter"
      BY <2>2
    <3>2. behind'[d] <= 1
      <4>1. CASE behind[d] = 0
        BY <4>1 DEF Put
      <4>2. CASE behind[d] # 0
        <5>1. behind' = [behind EXCEPT ![d] = @ - 1]
          BY <4>2 DEF Put
        <5>2. behind[d] \in Nat /\ behind[d] - 1 \in Int
          BY <4>2
        <5>3. behind'[d] = behind[d] - 1
          BY <5>1
        <5> QED BY <1>2, <5>2, <5>3
      <4> QED BY <4>1, <4>2
    <3> QED BY <3>1, <3>2 DEF Owner, Orphaned
  <2> QED BY <2>1, <2>2
<1> QED BY <1>1, <1>2

\* The other drivers go on as before.
OthersSame(d) ==
  \A e \in Drivers : e # d =>
    status'[e] = status[e] /\ node'[e] = node[e] /\ state'[e] = state[e]

LEMMA OthersKept ==
  ASSUME NEW d \in Drivers, OthersSame(d)
  PROVE  /\ \A p \in Phases : MayRun(p)' \subseteq MayRun(p) \cup {d}
         /\ \A r \in Requests : MayUse(r)' \subseteq MayUse(r) \cup {d}
<1>1. \A e \in Drivers : e # d =>
        /\ (Live(e)' <=> Live(e)) /\ NextUp(e)' = NextUp(e)
        /\ state'[e] = state[e]
  BY DEF OthersSame, Live, Running, NextUp, Chosen
<1> QED BY <1>1 DEF MayRun, MayUse

\* A driver that takes a step of a node owns the last row as it did before.
LEMMA NodeOwners ==
  ASSUME TypeInv, NEW d \in Drivers, NEW s \in {"ran", "parking"}, status[d] = "enter",
         status' = [status EXCEPT ![d] = s], UNCHANGED <<node, behind, saved>>
  PROVE  Orphaned' <=> Orphaned
<1>1. \A e \in Drivers : Owner(e)' <=> Owner(e)
  BY DEF TypeInv, TypeOK, Owner
<1> QED BY <1>1 DEF Orphaned

TokenInv == TypeInv /\ DidInv /\ PhaseInv

LEMMA PhaseInit == Init => PhaseInv
<1> SUFFICES ASSUME Init, NEW p \in Phases
             PROVE executed[p] + Cardinality(MayRun(p)) + One(RowMayRun(p)) <= 1 + faults + overlaps
  BY DEF PhaseInv
<1>1. MayRun(p) = {}
  BY DEF Init, MayRun, Live, Running
<1>2. Cardinality(MayRun(p)) = 0
  BY <1>1, FS_EmptySet
<1>3. ~RowMayRun(p) /\ executed[p] = 0 /\ faults = 0 /\ overlaps = 0
  BY DEF Init, RowMayRun
<1> QED BY <1>2, <1>3 DEF One

LEMMA PhaseNext == TokenInv /\ [Next]_vars => PhaseInv'
<1> SUFFICES ASSUME TokenInv, [Next]_vars, NEW p \in Phases
             PROVE (executed[p] + Cardinality(MayRun(p)) + One(RowMayRun(p)) <= 1 + faults + overlaps)'
  BY DEF PhaseInv
<1> USE DEF approvalVars, driverVars, historyVars
<1> DEFINE F == MayRun(p)
           G == MayRun(p)'
<1>1. TypeInv /\ TypeOK /\ DidInv
  BY DEF TokenInv, TypeInv
<1>2. /\ F \in SUBSET Drivers /\ G \in SUBSET Drivers
      /\ executed[p] \in Nat /\ faults \in Nat /\ overlaps \in Nat
  BY <1>1, GraphAssumption DEF TypeOK, MayRun
<1>3. executed[p] + Cardinality(F) + One(RowMayRun(p)) <= 1 + faults + overlaps
  BY DEF TokenInv, PhaseInv
<1>4. /\ Cardinality(F) \in Nat /\ Cardinality(G) \in Nat
      /\ G \subseteq F => Cardinality(G) <= Cardinality(F)
      /\ \A d \in Drivers : G \subseteq F \cup {d} => Cardinality(G) <= Cardinality(F) + 1
      /\ \A d \in F : G \subseteq F \ {d} => Cardinality(G) <= Cardinality(F) - 1
      /\ G = {} => Cardinality(G) = 0
  BY <1>2, CountTokens
<1>5. Cardinality(MayRun(p))' = Cardinality(G)
  OBVIOUS
<1> HIDE DEF F, G
<1>6. One(RowMayRun(p)) \in {0, 1} /\ One(RowMayRun(p)') \in {0, 1}
      /\ (RowMayRun(p)' <=> One(RowMayRun(p)') = 1) /\ (RowMayRun(p) <=> One(RowMayRun(p)) = 1)
  BY DEF One
<1>7. SUFFICES executed'[p] + Cardinality(G) + One(RowMayRun(p)') <= 1 + faults' + overlaps'
  BY <1>5 DEF One
<1>8. ASSUME NEW d \in Drivers, Planner(d)
      PROVE  executed'[p] + Cardinality(G) + One(RowMayRun(p)') <= 1 + faults' + overlaps'
  <2>1. PICK dec \in PlannerDecisions(state[d]) :
          Ran(d, [state[d] EXCEPT !.decision = dec, !.did = @ \cup {dec.action}])
    BY <1>8 DEF Planner
  <2> DEFINE st == [state[d] EXCEPT !.decision = dec, !.did = @ \cup {dec.action}]
  <2>2. state[d] \in States /\ st.decision = dec /\ st.did = state[d].did \cup {dec.action}
    BY <1>1 DEF TypeOK, States
  <2>3. /\ state' = [state EXCEPT ![d] = st] /\ status' = [status EXCEPT ![d] = "ran"]
        /\ status[d] = "enter" /\ node[d] = "planner" /\ node' = [node EXCEPT ![d] = "planner"]
        /\ UNCHANGED <<node, behind, saved, faults, overlaps, executed>>
    BY <1>1, <1>8, <2>1 DEF Planner, Ran, AtNode, TypeOK
  <2> HIDE DEF st
  <2>4. p \in {dec.action} => p \notin state[d].did
    BY <2>2, PlannerProposesNew
  <2>5. d \in G => p \notin state[d].did
    <3>1. d \in G => p \notin st.did \/ p \in NextUp(d)'
      BY <1>1, <2>3 DEF G, MayRun, TypeOK
    <3>2. NextUp(d)' = {dec.action}
      BY <1>1, <2>2, <2>3 DEF NextUp, Chosen, TypeOK
    <3> QED BY <2>2, <2>4, <3>1, <3>2
  <2>6. p \notin state[d].did => d \in F
    BY <2>3 DEF F, MayRun, Live, Running
  <2>7. G \subseteq F \cup {d}
    <3>1. OthersSame(d)
      BY <1>1, <2>3 DEF OthersSame, TypeOK
    <3> QED BY <3>1, OthersKept DEF F, G
  <2>8. G \subseteq F
    BY <2>5, <2>6, <2>7
  <2>9. RowMayRun(p)' => RowMayRun(p)
    BY <1>1, <2>3, NodeOwners DEF RowMayRun
  <2> QED BY <1>2, <1>3, <1>4, <1>6, <2>3, <2>8, <2>9
<1>9. ASSUME NEW d \in Drivers,
             \/ Recon(d) \/ Scan(d) \/ Correlate(d) \/ Report(d) \/ GateRequests(d)
             \/ GateWaits(d) \/ GateResolves(d) \/ RecordIntent(d) \/ Validate(d)
      PROVE  executed'[p] + Cardinality(G) + One(RowMayRun(p)') <= 1 + faults' + overlaps'
  <2>1. /\ state'[d].did = state[d].did
        /\ \A e \in Drivers : e # d => state'[e] = state[e]
        /\ status[d] = "enter" /\ node[d] \notin {"planner", "END"}
        /\ UNCHANGED <<node, behind, saved, faults, overlaps>>
    BY <1>1, <1>9, DidKept DEF AtNode
  <2>2. PICK s \in {"ran", "parking"} : status' = [status EXCEPT ![d] = s]
    BY <1>1, <1>9, DidKept
  <2>3. RowMayRun(p)' => RowMayRun(p)
    BY <1>1, <2>1, <2>2, NodeOwners DEF RowMayRun
  <2>4. OthersSame(d) /\ status'[d] = s
    BY <1>1, <2>1, <2>2 DEF OthersSame, TypeOK
  <2>5. /\ G \subseteq F \cup {d} /\ status'[d] = s
        /\ d \in G => p \notin state[d].did \/ p \in NextUp(d)'
    BY <2>1, <2>4, OthersKept DEF F, G, MayRun
  <2>6. NextUp(d)' = {}
    BY <2>1, <2>5 DEF NextUp, Chosen
  <2>7. /\ d \in G => p \notin state[d].did
        /\ (p \notin state[d].did \/ p = node[d]) => d \in F
    BY <2>1, <2>5, <2>6 DEF F, MayRun, Live, Running, NextUp, Chosen
  <2>8. CASE p = node[d]
    <3>1. p \in state[d].did
      BY <1>1, <2>1, <2>8 DEF DidInv
    <3>2. d \in F /\ G \subseteq F \ {d}
      BY <2>5, <2>7, <2>8, <3>1
    <3>3. executed'[p] = executed[p] + 1
      <4>1. CountPhase(p)
        BY <1>9, <2>8 DEF Recon, Scan, Correlate, Report, GateRequests, GateWaits, GateResolves,
                          RecordIntent, Validate, AtNode, Phases
      <4> QED BY <1>1, <4>1 DEF CountPhase, TypeOK
    <3> QED BY <1>2, <1>3, <1>4, <1>6, <2>1, <2>3, <3>2, <3>3
  <2>9. CASE p # node[d]
    <3>1. G \subseteq F
      BY <2>5, <2>7
    <3>2. executed'[p] = executed[p]
      <4>1. UNCHANGED executed \/ CountPhase(node[d])
        BY <1>9 DEF Recon, Scan, Correlate, Report, GateRequests, GateWaits, GateResolves,
                    RecordIntent, Validate, AtNode
      <4> QED BY <1>1, <2>9, <4>1 DEF CountPhase, TypeOK
    <3> QED BY <1>2, <1>3, <1>4, <1>6, <2>1, <2>3, <3>1, <3>2
  <2> QED BY <2>8, <2>9
<1>10. ASSUME NEW d \in Drivers, Start(d)
       PROVE  executed'[p] + Cardinality(G) + One(RowMayRun(p)') <= 1 + faults' + overlaps'
  <2>1. /\ status' = [status EXCEPT ![d] = "loaded"] /\ node' = [node EXCEPT ![d] = "planner"]
        /\ state' = [state EXCEPT ![d] = InitialState] /\ executed'[p] = 0
        /\ UNCHANGED <<faults, overlaps>>
    BY <1>10 DEF Start, Begin
  <2>2. F = {}
    BY <1>10 DEF Start, F, MayRun, Live, Running
  <2>3. Cardinality(F) = 0
    BY <2>2, FS_EmptySet
  <2>4. G \subseteq F \cup {d} /\ status'[d] = "loaded" /\ node'[d] = "planner"
    <3>1. OthersSame(d) /\ status'[d] = "loaded" /\ node'[d] = "planner"
      BY <1>1, <2>1 DEF OthersSame, TypeOK
    <3> QED BY <3>1, OthersKept DEF F, G
  <2>5. ~RowMayRun(p)'
    BY <2>4 DEF RowMayRun, Orphaned, Owner
  <2> QED BY <1>2, <1>4, <1>6, <2>1, <2>3, <2>4, <2>5
<1>11. ASSUME NEW d \in Drivers, Resume(d)
       PROVE  executed'[p] + Cardinality(G) + One(RowMayRun(p)') <= 1 + faults' + overlaps'
  <2>1. /\ saved # Nothing /\ saved.state \in Rows
        /\ status' = [status EXCEPT ![d] = "loaded"] /\ node' = [node EXCEPT ![d] = saved.node]
        /\ state' = [state EXCEPT ![d] = FromCheckpoint(saved.state)]
        /\ UNCHANGED <<behind, saved, faults, executed>>
    BY <1>1, <1>11 DEF Resume, TypeOK
  <2>2. /\ G \subseteq F \cup {d} /\ status'[d] = "loaded" /\ node'[d] = saved.node
        /\ d \in G => Live(d)' /\ (p \notin saved.state.did \/ p = saved.node)
    <3>1. OthersSame(d) /\ status'[d] = "loaded" /\ node'[d] = saved.node
          /\ state'[d] = FromCheckpoint(saved.state)
      BY <1>1, <2>1 DEF OthersSame, TypeOK
    <3>2. state'[d].did = saved.state.did
      BY <2>1, <3>1, RowTypes
    <3>3. NextUp(d)' = {saved.node}
      BY <3>1 DEF NextUp
    <3>4. d \in G => Live(d)' /\ (p \notin state'[d].did \/ p \in NextUp(d)')
      BY DEF G, MayRun
    <3>5. G \subseteq F \cup {d}
      BY <3>1, OthersKept DEF F, G
    <3> QED BY <3>1, <3>2, <3>3, <3>4, <3>5
  <2>3. ~Running(d)
    BY <1>11 DEF Resume
  <2>4. RowMayRun(p)' => RowMayRun(p)
    <3>1. \A e \in Drivers : Owner(e) => Owner(e)'
      BY <1>1, <2>1, <2>3 DEF Owner, Running, TypeOK
    <3> QED BY <2>1, <3>1 DEF RowMayRun, Orphaned
  <2>5. CASE \E e \in Drivers : Running(e)
    <3>1. overlaps' = overlaps + 1
      BY <1>11, <2>5 DEF Resume
    <3> QED BY <1>2, <1>3, <1>4, <1>6, <2>1, <2>2, <2>4, <3>1
  <2>6. CASE \A e \in Drivers : ~Running(e)
    <3>1. F = {} /\ Orphaned /\ overlaps' = overlaps
      BY <1>11, <2>6 DEF Resume, F, MayRun, Live, Running, Orphaned, Owner
    <3>2. CASE d \in G
      <4>1. RowMayRun(p)
        BY <2>1, <2>2, <3>1, <3>2 DEF RowMayRun, Live
      <4>2. ~RowMayRun(p)'
        <5>1. status'[d] = "loaded" /\ node'[d] # "END"
          BY <2>2, <3>2 DEF Live
        <5> QED BY <5>1 DEF RowMayRun, Orphaned, Owner
      <4>3. Cardinality(G) <= Cardinality(F) + 1
        BY <1>4, <2>2
      <4>4. One(RowMayRun(p)) = 1 /\ One(RowMayRun(p)') = 0
        BY <4>1, <4>2 DEF One
      <4>5. UNCHANGED <<executed, faults, overlaps>>
        BY <2>1, <3>1
      <4> QED BY <1>2, <1>3, <1>4, <4>3, <4>4, <4>5
    <3>3. CASE d \notin G
      <4>1. G \subseteq F
        BY <2>2, <3>3
      <4> QED BY <1>2, <1>3, <1>4, <1>6, <2>1, <2>4, <3>1, <4>1
    <3> QED BY <3>2, <3>3
  <2> QED BY <2>5, <2>6
<1>12. ASSUME NEW d \in Drivers, Invoke(d)
       PROVE  executed'[p] + Cardinality(G) + One(RowMayRun(p)') <= 1 + faults' + overlaps'
  <2>1. /\ status[d] = "loaded"
        /\ status' = [status EXCEPT ![d] = IF node[d] = "END" THEN "raised" ELSE "enter"]
        /\ behind' = [behind EXCEPT ![d] = 0]
        /\ UNCHANGED <<node, state, saved, faults, overlaps, executed>>
    BY <1>12 DEF Invoke
  <2>3. /\ G \subseteq F \cup {d}
        /\ status'[d] = (IF node[d] = "END" THEN "raised" ELSE "enter")
        /\ d \in G => Live(d)' /\ (p \notin state[d].did \/ p \in NextUp(d)')
    <3>1. OthersSame(d) /\ status'[d] = IF node[d] = "END" THEN "raised" ELSE "enter"
      BY <1>1, <2>1 DEF OthersSame, TypeOK
    <3>2. d \in G => Live(d)' /\ (p \notin state[d].did \/ p \in NextUp(d)')
      BY <2>1 DEF G, MayRun
    <3> QED BY <3>1, <3>2, OthersKept DEF F, G
  <2>4. d \in G => d \in F
    BY <2>1, <2>3 DEF F, MayRun, Live, Running, NextUp, Chosen
  <2>5. \A e \in Drivers : Owner(e) => Owner(e)'
    BY <1>1, <2>1, <2>3 DEF Owner, TypeOK
  <2>6. RowMayRun(p)' => RowMayRun(p)
    BY <2>1, <2>5 DEF RowMayRun, Orphaned
  <2> QED BY <1>2, <1>3, <1>4, <1>6, <2>1, <2>3, <2>4, <2>6
<1>13. ASSUME NEW d \in Drivers, Advance(d) \/ Park(d) \/ Complete(d)
       PROVE  executed'[p] + Cardinality(G) + One(RowMayRun(p)') <= 1 + faults' + overlaps'
  <2>1. PICK n \in Nodes, s \in {"enter", "parked", "complete"} :
          /\ Put(d, n) /\ status' = [status EXCEPT ![d] = s]
          /\ s = "parked" => n = "approval_gate"
          /\ s = "complete" => n = "END"
    BY <1>1, <1>13 DEF Advance, Park, Complete, TypeOK, Nodes, DidInv
  <2>2. status[d] \in {"enter", "ran", "parking"}
    BY <1>13 DEF Advance, Park, Complete, AtNode
  <2>3. UNCHANGED <<state, faults, overlaps, executed>>
    BY <2>1 DEF Put
  <2>4. OthersSame(d) /\ status'[d] = s
    BY <1>1, <1>13, <2>1, <2>3 DEF Advance, Park, Complete, OthersSame, TypeOK
  <2>5. /\ G \subseteq F \cup {d} /\ status'[d] = s
        /\ d \in G => Live(d)' /\ (p \notin state[d].did \/ p \in NextUp(d)')
    BY <2>3, <2>4, OthersKept DEF F, G, MayRun
  <2>6. d \in G => d \in F
    <3>1. CASE Advance(d)
      <4>1. status[d] = "ran" /\ node'[d] = NextNode(node[d], state[d])
        BY <1>1, <3>1 DEF Advance, TypeOK
      <4>2. Phases \cap NextUp(d)' \subseteq NextUp(d) \/ p \notin NextUp(d)'
        BY <1>1, <2>5, <3>1, <4>1 DEF NextUp, Chosen, NextNode, RouteFromPlanner, RouteFromGate,
                                      Edge, Phases, Advance, TypeOK
      <4> QED BY <2>2, <2>5, <4>1, <4>2 DEF F, MayRun, Live, Running
    <3>2. CASE Park(d) \/ Complete(d)
      <4>1. s # "enter"
        BY <1>1, <2>1, <2>5, <3>2 DEF Park, Complete, TypeOK
      <4> QED BY <2>1, <2>5, <4>1 DEF Live, Running
    <3> QED BY <1>13, <3>1, <3>2
  <2>7. \/ saved' = saved /\ (Orphaned' => Orphaned)
        \/ ~Orphaned'
        \/ s # "enter" /\ saved' = [node |-> n, state |-> ToCheckpoint(state[d])]
    BY <1>1, <2>1, <2>2, <2>4, PutOwners DEF OthersSame
  <2>8. CASE RowMayRun(p)' => RowMayRun(p)
    BY <1>2, <1>3, <1>4, <1>6, <2>3, <2>5, <2>6, <2>8
  <2>9. CASE s # "enter" /\ saved' = [node |-> n, state |-> ToCheckpoint(state[d])] /\ RowMayRun(p)'
    <3>1. ToCheckpoint(state[d]).did = state[d].did
      BY <1>1, RowTypes DEF TypeOK
    <3>2. p \notin state[d].did
      BY <2>1, <2>9, <3>1 DEF RowMayRun, Phases
    <3>3. d \in F
      BY <2>2, <3>2 DEF F, MayRun, Live, Running
    <3>4. d \notin G
      BY <2>1, <2>5, <2>9 DEF Live, Running
    <3>5. G \subseteq F \ {d}
      BY <2>5, <3>4
    <3> QED BY <1>2, <1>3, <1>4, <1>6, <2>3, <3>3, <3>5
  <2> QED BY <2>7, <2>8, <2>9 DEF RowMayRun
<1>14. ASSUME NEW d \in Drivers, Raise(d)
       PROVE  executed'[p] + Cardinality(G) + One(RowMayRun(p)') <= 1 + faults' + overlaps'
  <2>1. /\ status' = [status EXCEPT ![d] = "raised"] /\ faults' = faults + 1
        /\ UNCHANGED <<node, state, overlaps, executed>>
    BY <1>14 DEF Raise
  <2>2. OthersSame(d) /\ status'[d] = "raised"
    BY <1>1, <2>1 DEF OthersSame, TypeOK
  <2>3. G \subseteq F \cup {d} /\ (d \in G => Live(d)') /\ status'[d] = "raised"
    BY <2>2, OthersKept DEF F, G, MayRun
  <2>4. G \subseteq F
    BY <2>3 DEF Live, Running
  <2> QED BY <1>2, <1>3, <1>4, <1>6, <2>1, <2>4
<1>15. CASE Crash
  <2>1. G = {}
    BY <1>15 DEF Crash, G, MayRun, Live, Running
  <2> QED BY <1>2, <1>3, <1>4, <1>6, <1>15, <2>1 DEF Crash
<1>16. CASE \/ \E r \in Requests, verdict \in Decisions, name \in Names : Approve(r, verdict, name)
            \/ UNCHANGED vars
  <2>1. UNCHANGED <<node, status, state, behind, saved, faults, overlaps, executed>>
    BY <1>16 DEF Approve, vars
  <2>2. G = F /\ (RowMayRun(p)' <=> RowMayRun(p))
    BY <2>1 DEF F, G, MayRun, Live, Running, NextUp, Chosen, RowMayRun, Orphaned, Owner
  <2> QED BY <1>3, <1>6, <2>1, <2>2
<1> QED BY <1>8, <1>9, <1>10, <1>11, <1>12, <1>13, <1>14, <1>15, <1>16 DEF Next, Step

\* PhasesRunOnce: recon, scan and correlate run once, and once more for each exception,
\* crash or resume of a running engagement.
THEOREM PhasesOnce == Spec => []PhasesRunOnce
<1>1. Spec => []TokenInv
  BY TypesInit, DidInit, PhaseInit, TypesNext, DidNext, PhaseNext, PTL DEF TokenInv, Spec
<1>2. TokenInv => PhasesRunOnce
  <2> SUFFICES ASSUME TokenInv, NEW p \in Phases PROVE executed[p] <= 1 + faults + overlaps
    BY DEF PhasesRunOnce
  <2>1. /\ executed[p] \in Nat /\ faults \in Nat /\ overlaps \in Nat
        /\ executed[p] + Cardinality(MayRun(p)) + One(RowMayRun(p)) <= 1 + faults + overlaps
    BY GraphAssumption DEF TokenInv, TypeInv, TypeOK, PhaseInv
  <2>2. MayRun(p) \in SUBSET Drivers
    BY DEF MayRun
  <2>3. Cardinality(MayRun(p)) \in Nat
    BY <2>2, CountTokens
  <2>4. One(RowMayRun(p)) \in {0, 1}
    BY DEF One
  <2> QED BY <2>1, <2>3, <2>4
<1> QED BY <1>1, <1>2, PTL

UseTokenInv == OrderInv /\ UseInv

LEMMA UseInit == Init => UseInv
<1> SUFFICES ASSUME Init, NEW r \in Requests, NEW i \in Items
             PROVE toolRuns[r][i] + Cardinality(MayUse(r)) + One(RowMayUse(r)) <= 1 + faults + overlaps
  BY DEF UseInv
<1>1. MayUse(r) = {}
  BY DEF Init, MayUse, Live, Running
<1>2. Cardinality(MayUse(r)) = 0
  BY <1>1, FS_EmptySet
<1>3. ~RowMayUse(r) /\ toolRuns[r][i] = 0 /\ faults = 0 /\ overlaps = 0
  BY DEF Init, RowMayUse
<1> QED BY <1>2, <1>3 DEF One

\* Only the gate makes a driver wait for another request.
LEMMA PendingKept ==
  ASSUME TypeInv, NEW d \in Drivers,
         \/ Planner(d) \/ Recon(d) \/ Scan(d) \/ Correlate(d) \/ Report(d)
         \/ GateWaits(d) \/ GateResolves(d) \/ RecordIntent(d) \/ Validate(d)
  PROVE  \A r : IsFor(state'[d].pending, r) => IsFor(state[d].pending, r)
<1>1. state[d] \in States /\ state \in [Drivers -> States]
  BY DEF TypeInv, TypeOK
<1>2. CASE Recon(d)
  <2>1. PICK n \in 0..MaxSteps, found \in BOOLEAN :
          Ran(d, [state[d] EXCEPT !.spent = Spend(state[d], n), !.assets = @ \/ found])
    BY <1>2 DEF Recon
  <2> DEFINE st == [state[d] EXCEPT !.spent = Spend(state[d], n), !.assets = @ \/ found]
  <2>2. st.pending = state[d].pending
    BY <1>1 DEF States
  <2>3. state'[d] = st
    BY <1>1, <2>1 DEF Ran
  <2> QED BY <2>2, <2>3
<1>3. CASE Scan(d)
  <2>1. PICK n \in 0..MaxSteps, f \in Findings :
          Ran(d, [state[d] EXCEPT !.spent = Spend(state[d], n), !.findings = Worse(@, f)])
    BY <1>3 DEF Scan
  <2> DEFINE st == [state[d] EXCEPT !.spent = Spend(state[d], n), !.findings = Worse(@, f)]
  <2>2. st.pending = state[d].pending
    BY <1>1 DEF States
  <2>3. state'[d] = st
    BY <1>1, <2>1 DEF Ran
  <2> QED BY <2>2, <2>3
<1>4. CASE Planner(d)
  <2>1. PICK dec \in PlannerDecisions(state[d]) :
          Ran(d, [state[d] EXCEPT !.decision = dec, !.did = @ \cup {dec.action}])
    BY <1>4 DEF Planner
  <2> DEFINE st == [state[d] EXCEPT !.decision = dec, !.did = @ \cup {dec.action}]
  <2>2. st.pending = state[d].pending
    BY <1>1 DEF States
  <2>3. state'[d] = st
    BY <1>1, <2>1 DEF Ran
  <2> QED BY <2>2, <2>3
<1>5. CASE Correlate(d) \/ Report(d) \/ GateWaits(d)
  BY <1>1, <1>5 DEF Correlate, Report, GateWaits, Ran, Interrupted
<1>6. CASE GateResolves(d)
  <2> DEFINE st == [state[d] EXCEPT !.pending.decision = decision[state[d].pending.request]]
  <2>1. state[d].pending \in Pendings /\ state[d].pending # NoPending
    BY <1>1, <1>6, StateFields DEF GateResolves
  <2>2. st.pending.request = state[d].pending.request
    BY <1>1, <2>1 DEF States, Pendings
  <2>3. state'[d] = st
    BY <1>1, <1>6 DEF GateResolves, Ran
  <2> HIDE DEF st
  <2> QED BY <2>1, <2>2, <2>3 DEF IsFor
<1>7. CASE RecordIntent(d)
  <2>1. [state[d] EXCEPT !.pending = NoPending].pending = NoPending
    BY <1>1, PendingTypes
  <2> QED BY <1>1, <1>7, <2>1 DEF RecordIntent, Ran, IsFor
<1>8. CASE Validate(d)
  <2>1. Validated(state[d]).pending = NoPending
    BY <1>1, PendingTypes
  <2>2. state'[d] = Validated(state[d])
    BY <1>1, <1>8 DEF Validate, Ran
  <2> QED BY <2>1, <2>2 DEF IsFor
<1> QED BY <1>2, <1>3, <1>4, <1>5, <1>6, <1>7, <1>8

\* What a node does to the driver that runs it and to nobody else.
LEMMA NodeStep ==
  ASSUME TypeInv, NEW d \in Drivers,
         \/ Planner(d) \/ Recon(d) \/ Scan(d) \/ Correlate(d) \/ Report(d) \/ GateRequests(d)
         \/ GateWaits(d) \/ GateResolves(d) \/ RecordIntent(d) \/ Validate(d)
  PROVE  /\ status[d] = "enter" /\ OthersSame(d)
         /\ \E s \in {"ran", "parking"} : status' = [status EXCEPT ![d] = s]
         /\ UNCHANGED <<node, behind, saved, faults, overlaps>>
<1>1. PICK st : Ran(d, st) \/ Interrupted(d, st)
  BY DEF Planner, Recon, Scan, Correlate, Report, GateRequests, GateWaits, GateResolves,
         RecordIntent, Validate
<1>2. status[d] = "enter"
  BY DEF Planner, Recon, Scan, Correlate, Report, GateRequests, GateWaits, GateResolves,
         RecordIntent, Validate, AtNode
<1>3. /\ state' = [state EXCEPT ![d] = st]
      /\ \E s \in {"ran", "parking"} : status' = [status EXCEPT ![d] = s]
      /\ UNCHANGED <<node, behind, saved, faults, overlaps>>
  BY <1>1 DEF Ran, Interrupted
<1>4. OthersSame(d)
  BY <1>3 DEF OthersSame, TypeInv, TypeOK
<1> QED BY <1>2, <1>3, <1>4

LEMMA UseNext == UseTokenInv /\ [Next]_vars => UseInv'
<1> SUFFICES ASSUME UseTokenInv, [Next]_vars, NEW r \in Requests, NEW i \in Items
             PROVE (toolRuns[r][i] + Cardinality(MayUse(r)) + One(RowMayUse(r)) <= 1 + faults + overlaps)'
  BY DEF UseInv
<1> USE DEF approvalVars, driverVars, historyVars
<1> DEFINE F == MayUse(r)
           G == MayUse(r)'
<1>1. TypeInv /\ TypeOK /\ AllFit /\ SignedInv
  BY DEF UseTokenInv, OrderInv, TypeInv
<1>2. /\ F \in SUBSET Drivers /\ G \in SUBSET Drivers
      /\ toolRuns[r][i] \in Nat /\ faults \in Nat /\ overlaps \in Nat
  BY <1>1, GraphAssumption DEF TypeOK, MayUse
<1>3. toolRuns[r][i] + Cardinality(F) + One(RowMayUse(r)) <= 1 + faults + overlaps
  BY DEF UseTokenInv, UseInv
<1>4. /\ Cardinality(F) \in Nat /\ Cardinality(G) \in Nat
      /\ G \subseteq F => Cardinality(G) <= Cardinality(F)
      /\ \A d \in Drivers : G \subseteq F \cup {d} => Cardinality(G) <= Cardinality(F) + 1
      /\ \A d \in F : G \subseteq F \ {d} => Cardinality(G) <= Cardinality(F) - 1
      /\ G = {} => Cardinality(G) = 0
  BY <1>2, CountTokens
<1>5. Cardinality(MayUse(r))' = Cardinality(G)
  OBVIOUS
<1> HIDE DEF F, G
<1>6. One(RowMayUse(r)) \in {0, 1} /\ One(RowMayUse(r)') \in {0, 1}
      /\ (RowMayUse(r)' <=> One(RowMayUse(r)') = 1) /\ (RowMayUse(r) <=> One(RowMayUse(r)) = 1)
  BY DEF One
<1>7. SUFFICES toolRuns'[r][i] + Cardinality(G) + One(RowMayUse(r)') <= 1 + faults' + overlaps'
  BY <1>5 DEF One
<1>8. ASSUME NEW d \in Drivers,
             \/ Planner(d) \/ Recon(d) \/ Scan(d) \/ Correlate(d) \/ Report(d)
             \/ GateWaits(d) \/ GateResolves(d) \/ RecordIntent(d) \/ Validate(d)
      PROVE  toolRuns'[r][i] + Cardinality(G) + One(RowMayUse(r)') <= 1 + faults' + overlaps'
  <2>1. status[d] = "enter" /\ OthersSame(d) /\ UNCHANGED <<node, behind, saved, faults, overlaps>>
    BY <1>1, <1>8, NodeStep
  <2>2. PICK s \in {"ran", "parking"} : status' = [status EXCEPT ![d] = s]
    BY <1>1, <1>8, NodeStep
  <2>3. RowMayUse(r)' => RowMayUse(r)
    BY <1>1, <2>1, <2>2, NodeOwners DEF RowMayUse
  <2>4. G \subseteq F \cup {d} /\ (d \in G => IsFor(state'[d].pending, r))
    BY <2>1, OthersKept DEF F, G, MayUse
  <2>5. IsFor(state'[d].pending, r) => IsFor(state[d].pending, r)
    BY <1>1, <1>8, PendingKept
  <2>6. IsFor(state[d].pending, r) => d \in F
    BY <2>1 DEF F, MayUse, Live, Running
  <2>7. CASE UNCHANGED toolRuns
    BY <1>2, <1>3, <1>4, <1>6, <2>1, <2>3, <2>4, <2>5, <2>6, <2>7
  <2>8. CASE Validate(d) /\ RunTool(d)
    <3>1. toolRuns' = [toolRuns EXCEPT ![state[d].pending.request][state[d].pending.item] = @ + 1]
          /\ state[d].pending # NoPending
      BY <2>8 DEF RunTool, ValidatedItem, Validate, HasTarget
    <3>2. ~IsFor(state'[d].pending, r)
      <4>1. Validated(state[d]).pending = NoPending /\ state'[d] = Validated(state[d])
        BY <1>1, <2>8, PendingTypes DEF TypeOK, Validate, Ran
      <4> QED BY <4>1 DEF IsFor
    <3>3. CASE state[d].pending.request = r
      <4>1. d \in F /\ G \subseteq F \ {d}
        BY <2>4, <2>6, <3>1, <3>2, <3>3 DEF IsFor
      <4>2. toolRuns'[r][i] \in {toolRuns[r][i], toolRuns[r][i] + 1}
        BY <1>1, <3>1, <3>3 DEF TypeOK
      <4>3. Cardinality(G) <= Cardinality(F) - 1
        BY <1>4, <4>1
      <4> QED BY <1>2, <1>3, <1>4, <1>6, <2>1, <2>3, <4>2, <4>3
    <3>4. CASE state[d].pending.request # r
      <4>1. toolRuns'[r] = toolRuns[r] /\ G \subseteq F
        BY <1>1, <2>4, <2>5, <2>6, <3>1, <3>4 DEF TypeOK
      <4> QED BY <1>2, <1>3, <1>4, <1>6, <2>1, <2>3, <4>1
    <3> QED BY <3>3, <3>4
  <2> QED BY <1>8, <2>7, <2>8 DEF Planner, Recon, Scan, Correlate, Report, GateWaits, GateResolves,
                                  RecordIntent, Validate, CountPhase
<1>9. ASSUME NEW d \in Drivers, GateRequests(d)
      PROVE  toolRuns'[r][i] + Cardinality(G) + One(RowMayUse(r)') <= 1 + faults' + overlaps'
  <2>1. /\ status[d] = "enter" /\ OthersSame(d) /\ UNCHANGED toolRuns
        /\ UNCHANGED <<node, behind, saved, faults, overlaps>>
    BY <1>1, <1>9, NodeStep DEF GateRequests
  <2>2. PICK s \in {"ran", "parking"} : status' = [status EXCEPT ![d] = s]
    BY <1>1, <1>9, NodeStep
  <2>3. RowMayUse(r)' => RowMayUse(r)
    BY <1>1, <2>1, <2>2, NodeOwners DEF RowMayUse
  <2>4. PICK q \in Requests \ issued :
          Interrupted(d, [state[d] EXCEPT !.pending =
            [request |-> q, item |-> GateItem(d), decision |-> "pending"]])
    BY <1>9 DEF GateRequests
  <2>5. state'[d].pending.request = q
    BY <1>1, <2>4 DEF Interrupted, TypeOK, States
  <2>6. G \subseteq F \cup {d} /\ (d \in G => IsFor(state'[d].pending, r))
    BY <2>1, OthersKept DEF F, G, MayUse
  <2>7. CASE q # r
    <3>1. G \subseteq F
      BY <2>5, <2>6, <2>7 DEF IsFor
    <3> QED BY <1>2, <1>3, <1>4, <1>6, <2>1, <2>3, <3>1
  <2>8. CASE q = r
    <3>1. r \notin issued
      BY <2>4, <2>8
    <3>2. F = {}
      BY <1>1, <3>1 DEF F, MayUse, IsFor, AllFit, Fits
    <3>3. ~RowMayUse(r)
      BY <1>1, <3>1 DEF RowMayUse, IsFor, AllFit, Fits
    <3>4. toolRuns[r][i] = 0
      BY <1>1, <1>2, <3>1 DEF SignedInv
    <3>5. Cardinality(F) = 0
      BY <3>2, FS_EmptySet
    <3>6. Cardinality(G) <= 1
      BY <1>4, <2>6, <3>5
    <3> QED BY <1>2, <1>4, <1>6, <2>1, <2>3, <3>3, <3>4, <3>6
  <2> QED BY <2>7, <2>8
<1>10. ASSUME NEW d \in Drivers, Start(d)
       PROVE  toolRuns'[r][i] + Cardinality(G) + One(RowMayUse(r)') <= 1 + faults' + overlaps'
  <2>1. /\ OthersSame(d) /\ status'[d] = "loaded" /\ node'[d] = "planner"
        /\ state'[d].pending = NoPending /\ UNCHANGED <<toolRuns, faults, overlaps>>
    BY <1>1, <1>10, InitialStateType DEF Start, Begin, OthersSame, TypeOK
  <2>2. G \subseteq F
    BY <2>1, OthersKept DEF F, G, MayUse, IsFor
  <2>3. ~RowMayUse(r)'
    BY <2>1 DEF RowMayUse, Orphaned, Owner
  <2> QED BY <1>2, <1>3, <1>4, <1>6, <2>1, <2>2, <2>3
<1>11. ASSUME NEW d \in Drivers, Resume(d)
       PROVE  toolRuns'[r][i] + Cardinality(G) + One(RowMayUse(r)') <= 1 + faults' + overlaps'
  <2>1. /\ saved # Nothing /\ saved.state \in Rows
        /\ status' = [status EXCEPT ![d] = "loaded"] /\ node' = [node EXCEPT ![d] = saved.node]
        /\ state' = [state EXCEPT ![d] = FromCheckpoint(saved.state)]
        /\ UNCHANGED <<behind, saved, faults, toolRuns>>
    BY <1>1, <1>11 DEF Resume, TypeOK
  <2>2. /\ G \subseteq F \cup {d} /\ status'[d] = "loaded" /\ node'[d] = saved.node
        /\ d \in G => Live(d)' /\ IsFor(saved.state.pending, r)
    <3>1. OthersSame(d) /\ status'[d] = "loaded" /\ node'[d] = saved.node
          /\ state'[d] = FromCheckpoint(saved.state)
      BY <1>1, <2>1 DEF OthersSame, TypeOK
    <3>2. state'[d].pending = saved.state.pending
      BY <2>1, <3>1, RowTypes
    <3>3. d \in G => Live(d)' /\ IsFor(state'[d].pending, r)
      BY DEF G, MayUse
    <3>4. G \subseteq F \cup {d}
      BY <3>1, OthersKept DEF F, G
    <3> QED BY <3>1, <3>2, <3>3, <3>4
  <2>3. ~Running(d)
    BY <1>11 DEF Resume
  <2>4. RowMayUse(r)' => RowMayUse(r)
    <3>1. \A e \in Drivers : Owner(e) => Owner(e)'
      BY <1>1, <2>1, <2>3 DEF Owner, Running, TypeOK
    <3> QED BY <2>1, <3>1 DEF RowMayUse, Orphaned
  <2>5. CASE \E e \in Drivers : Running(e)
    <3>1. overlaps' = overlaps + 1
      BY <1>11, <2>5 DEF Resume
    <3> QED BY <1>2, <1>3, <1>4, <1>6, <2>1, <2>2, <2>4, <3>1
  <2>6. CASE \A e \in Drivers : ~Running(e)
    <3>1. Orphaned /\ overlaps' = overlaps
      BY <1>11, <2>6 DEF Resume, Running, Orphaned, Owner
    <3>2. CASE d \in G
      <4>1. RowMayUse(r)
        BY <2>1, <2>2, <3>1, <3>2 DEF RowMayUse, Live
      <4>2. ~RowMayUse(r)'
        <5>1. status'[d] = "loaded" /\ node'[d] # "END"
          BY <2>2, <3>2 DEF Live
        <5> QED BY <5>1 DEF RowMayUse, Orphaned, Owner
      <4>3. Cardinality(G) <= Cardinality(F) + 1
        BY <1>4, <2>2
      <4>4. One(RowMayUse(r)) = 1 /\ One(RowMayUse(r)') = 0
        BY <4>1, <4>2 DEF One
      <4>5. UNCHANGED <<toolRuns, faults, overlaps>>
        BY <2>1, <3>1
      <4> QED BY <1>2, <1>3, <1>4, <4>3, <4>4, <4>5
    <3>3. CASE d \notin G
      <4>1. G \subseteq F
        BY <2>2, <3>3
      <4> QED BY <1>2, <1>3, <1>4, <1>6, <2>1, <2>4, <3>1, <4>1
    <3> QED BY <3>2, <3>3
  <2> QED BY <2>5, <2>6
<1>12. ASSUME NEW d \in Drivers, Invoke(d)
       PROVE  toolRuns'[r][i] + Cardinality(G) + One(RowMayUse(r)') <= 1 + faults' + overlaps'
  <2>1. /\ status[d] = "loaded"
        /\ status' = [status EXCEPT ![d] = IF node[d] = "END" THEN "raised" ELSE "enter"]
        /\ behind' = [behind EXCEPT ![d] = 0]
        /\ UNCHANGED <<node, state, saved, faults, overlaps, toolRuns>>
    BY <1>12 DEF Invoke
  <2>2. OthersSame(d) /\ status'[d] = IF node[d] = "END" THEN "raised" ELSE "enter"
    BY <1>1, <2>1 DEF OthersSame, TypeOK
  <2>3. d \in G => d \in F
    BY <2>1, <2>2 DEF F, G, MayUse, Live, Running
  <2>4. G \subseteq F
    BY <2>2, <2>3, OthersKept DEF F, G
  <2>5. \A e \in Drivers : Owner(e) => Owner(e)'
    BY <1>1, <2>1, <2>2 DEF Owner, TypeOK
  <2>6. RowMayUse(r)' => RowMayUse(r)
    BY <2>1, <2>5 DEF RowMayUse, Orphaned
  <2> QED BY <1>2, <1>3, <1>4, <1>6, <2>1, <2>4, <2>6
<1>13. ASSUME NEW d \in Drivers, Advance(d) \/ Park(d) \/ Complete(d)
       PROVE  toolRuns'[r][i] + Cardinality(G) + One(RowMayUse(r)') <= 1 + faults' + overlaps'
  <2>1. PICK n \in Nodes, s \in {"enter", "parked", "complete"} :
          Put(d, n) /\ status' = [status EXCEPT ![d] = s]
    BY <1>1, <1>13 DEF Advance, Park, Complete, TypeOK, Nodes
  <2>2. status[d] \in {"enter", "ran", "parking"}
    BY <1>13 DEF Advance, Park, Complete, AtNode
  <2>3. UNCHANGED <<state, faults, overlaps, toolRuns>>
    BY <2>1 DEF Put
  <2>4. OthersSame(d) /\ status'[d] = s
    BY <1>1, <1>13, <2>1, <2>3 DEF Advance, Park, Complete, OthersSame, TypeOK
  <2>5. /\ G \subseteq F \cup {d}
        /\ d \in G => Live(d)' /\ IsFor(state[d].pending, r)
    BY <2>3, <2>4, OthersKept DEF F, G, MayUse
  <2>6. IsFor(state[d].pending, r) => d \in F
    BY <2>2 DEF F, MayUse, Live, Running
  <2>7. \/ saved' = saved /\ (Orphaned' => Orphaned)
        \/ ~Orphaned'
        \/ s # "enter" /\ saved' = [node |-> n, state |-> ToCheckpoint(state[d])]
    BY <1>1, <2>1, <2>2, <2>4, PutOwners DEF OthersSame
  <2>8. CASE RowMayUse(r)' => RowMayUse(r)
    BY <1>2, <1>3, <1>4, <1>6, <2>3, <2>5, <2>6, <2>8
  <2>9. CASE s # "enter" /\ saved' = [node |-> n, state |-> ToCheckpoint(state[d])] /\ RowMayUse(r)'
    <3>1. ToCheckpoint(state[d]).pending = state[d].pending
      BY <1>1, RowTypes DEF TypeOK
    <3>2. d \in F
      BY <2>6, <2>9, <3>1 DEF RowMayUse
    <3>3. d \notin G
      BY <2>1, <2>4, <2>5, <2>9 DEF Live, Running
    <3>4. G \subseteq F \ {d}
      BY <2>5, <3>3
    <3> QED BY <1>2, <1>3, <1>4, <1>6, <2>3, <3>2, <3>4
  <2> QED BY <2>7, <2>8, <2>9 DEF RowMayUse
<1>14. ASSUME NEW d \in Drivers, Raise(d)
       PROVE  toolRuns'[r][i] + Cardinality(G) + One(RowMayUse(r)') <= 1 + faults' + overlaps'
  <2>1. /\ status' = [status EXCEPT ![d] = "raised"] /\ faults' = faults + 1
        /\ UNCHANGED <<node, state, overlaps, toolRuns>>
    BY <1>14 DEF Raise
  <2>2. OthersSame(d) /\ status'[d] = "raised"
    BY <1>1, <2>1 DEF OthersSame, TypeOK
  <2>3. G \subseteq F \cup {d} /\ (d \in G => Live(d)')
    BY <2>2, OthersKept DEF F, G, MayUse
  <2>4. G \subseteq F
    BY <2>2, <2>3 DEF Live, Running
  <2> QED BY <1>2, <1>3, <1>4, <1>6, <2>1, <2>4
<1>15. CASE Crash
  <2>1. G = {}
    BY <1>15 DEF Crash, G, MayUse, Live, Running
  <2> QED BY <1>2, <1>3, <1>4, <1>6, <1>15, <2>1 DEF Crash
<1>16. CASE \/ \E q \in Requests, verdict \in Decisions, name \in Names : Approve(q, verdict, name)
            \/ UNCHANGED vars
  <2>1. UNCHANGED <<node, status, state, behind, saved, faults, overlaps, toolRuns>>
    BY <1>16 DEF Approve, vars
  <2>2. G = F /\ (RowMayUse(r)' <=> RowMayUse(r))
    BY <2>1 DEF F, G, MayUse, Live, Running, RowMayUse, Orphaned, Owner
  <2> QED BY <1>3, <1>6, <2>1, <2>2
<1> QED BY <1>8, <1>9, <1>10, <1>11, <1>12, <1>13, <1>14, <1>15, <1>16 DEF Next, Step

\* RunsSignedOff: a sign-off is good for one run of what was signed off, and one run more
\* for each exception, crash or resume of a running engagement.
THEOREM SignedOffRuns == Spec => []RunsSignedOff
<1>1. Spec => []UseTokenInv
  BY OrderInit, UseInit, OrderNext, UseNext, PTL DEF UseTokenInv, Spec
<1>2. UseTokenInv => RunsSignedOff
  <2> SUFFICES ASSUME UseTokenInv, NEW r \in Requests, NEW i \in Items
               PROVE /\ toolRuns[r][i] > 0 => i = asked[r] /\ r \in approvedOnce
                     /\ toolRuns[r][i] <= 1 + faults + overlaps
    BY DEF RunsSignedOff
  <2>1. toolRuns[r][i] > 0 => i = asked[r] /\ r \in approvedOnce
    BY DEF UseTokenInv, OrderInv, SignedInv
  <2>2. /\ toolRuns[r][i] \in Nat /\ faults \in Nat /\ overlaps \in Nat
        /\ toolRuns[r][i] + Cardinality(MayUse(r)) + One(RowMayUse(r)) <= 1 + faults + overlaps
    BY GraphAssumption DEF UseTokenInv, OrderInv, TypeInv, TypeOK, UseInv
  <2>3. MayUse(r) \in SUBSET Drivers
    BY DEF MayUse
  <2>4. Cardinality(MayUse(r)) \in Nat
    BY <2>3, CountTokens
  <2>5. One(RowMayUse(r)) \in {0, 1}
    BY DEF One
  <2>6. toolRuns[r][i] <= 1 + faults + overlaps
    BY <2>2, <2>4, <2>5
  <2> QED BY <2>1, <2>6
<1> QED BY <1>1, <1>2, PTL
-----------------------------------------------------------------------------
(* The control plane.                                                      *)

LEMMA RolesAllow ==
  ASSUME NEW name \in Names, NEW act \in Acts, Can(name, act)
  PROVE  /\ act \in {"start", "kill"} => RoleOf[name] \in {"admin", "operator"}
         /\ act = "approve" => RoleOf[name] \in {"admin", "approver"}
<1>1. RoleOf[name] \in Roles /\ act \in Allowed(RoleOf[name])
  BY ControlAssumption DEF Can
<1>2. CASE RoleOf[name] = "operator"
  BY <1>1, <1>2 DEF Allowed
<1>3. CASE RoleOf[name] = "approver"
  BY <1>1, <1>3 DEF Allowed
<1>4. CASE RoleOf[name] = "viewer"
  BY <1>1, <1>4 DEF Allowed
<1> QED BY <1>1, <1>2, <1>3, <1>4 DEF Roles

LEMMA SignOffTyped ==
  ASSUME NEW asking \in Asked, asking.act = "approve"
  PROVE  asking.request \in Requests /\ asking.verdict \in Decisions
BY DEF Asked

-----------------------------------------------------------------------------
(* The graph under its operators.                                          *)

\* A start makes a new state, which waits for nothing, whoever else is running.
LEMMA BeginKeeps ==
  ASSUME OrderInv, NEW d \in Drivers, Begin(d)
  PROVE  OrderInv'
<1> USE DEF approvalVars, driverVars, historyVars
<1>1. TypeOK /\ DecidedInv /\ AllFit /\ SignedInv
  BY DEF OrderInv, TypeInv
<1>2. /\ UNCHANGED <<approvalVars, behind, saved, issued, faults, overlaps, asked,
                     approvedOnce, toolRuns>>
      /\ status' = [status EXCEPT ![d] = "loaded"]
      /\ state' = [state EXCEPT ![d] = InitialState]
      /\ node' = [node EXCEPT ![d] = "planner"]
      /\ executed' = [p \in Phases |-> 0]
  BY DEF Begin
<1>3. TypeOK'
  BY <1>1, <1>2, InitialStateType DEF TypeOK, ApprovalTypeOK, Nodes
<1>4. DecidedInv'
  BY <1>1, <1>2 DEF DecidedInv, TypeOK
<1>5. AllFit'
  BY <1>1, <1>2, InitialStateType DEF AllFit, Fits, TypeOK
<1>6. SignedInv'
  BY <1>1, <1>2 DEF SignedInv
<1> QED BY <1>3, <1>4, <1>5, <1>6 DEF OrderInv, TypeInv

\* What a step of the control plane is to the graph.
LEMMA GraphOf ==
  ASSUME call \in [Drivers -> [id : Nat, asking : Asked] \cup {NoCall}],
         \A d \in Drivers : at[d] = "asked" => call[d] \in [id : Nat, asking : Asked],
         [ControlNext]_allVars
  PROVE  [Next]_vars \/ \E d \in Drivers : Begin(d)
<1>1. ASSUME NEW d \in Drivers, NEW asking \in Asked, Call(d, asking) PROVE UNCHANGED vars
  BY <1>1 DEF Call
<1>2. ASSUME NEW d \in Drivers, Proceed(d) PROVE [Next]_vars \/ Begin(d)
  <2>1. CASE Refused(d) \/ Grant(d) \/ Kills(d) \/ Record(d) \/ RecordFails(d)
    BY <2>1 DEF Refused, Grant, Kills, Record, RecordFails
  <2>2. CASE SignsOff(d)
    <3>1. call[d] \in [id : Nat, asking : Asked] /\ call[d].asking.act = "approve"
      BY <2>2 DEF SignsOff, Goto, Doing
    <3>2. call[d].asking.request \in Requests /\ call[d].asking.verdict \in Decisions
      BY <3>1, SignOffTyped
    <3>3. call[d].asking.by \in Names
      BY <3>1 DEF Asked
    <3>4. Approve(call[d].asking.request, call[d].asking.verdict, call[d].asking.by)
      BY <2>2 DEF SignsOff
    <3> QED BY <3>2, <3>3, <3>4 DEF Next
  <2>3. CASE Runs(d)
    BY <2>3 DEF Runs
  <2>4. CASE Resumes(d)
    BY <2>4 DEF Resumes, Next
  <2> QED BY <1>2, <2>1, <2>2, <2>3, <2>4 DEF Proceed
<1>3. ASSUME NEW d \in Drivers, GraphStep(d) \/ GraphRaises(d) PROVE Next
  BY <1>3 DEF GraphStep, GraphRaises, Next
<1>4. CASE ProcessDies
  BY <1>4 DEF ProcessDies, Next
<1>5. CASE UNCHANGED allVars
  BY <1>5 DEF allVars
<1> QED BY <1>1, <1>2, <1>3, <1>4, <1>5 DEF ControlNext

-----------------------------------------------------------------------------
(* Calls.                                                                  *)

RealCall == [id : Nat, asking : Asked]

\* Where threads are, and what a call has shown or done by the time it is there.
CallInv ==
  /\ at \in [Drivers -> {"free", "asked", "record", "run"}]
  /\ call \in [Drivers -> RealCall \cup {NoCall}]
  /\ calls \in [Acts -> Nat]
  /\ \A d \in Drivers :
       /\ at[d] # "free" => call[d] \in RealCall
       /\ at[d] \in {"record", "run"} =>
            Granted(d) /\ (Doing(d) = "approve" => call[d] \in done)
       /\ at[d] = "run" => call[d] \in records
       /\ Running(d) => at[d] = "free" /\ call[d] \in records

\* What was done, by whom, and where its record is.
DoneInv ==
  /\ IsFiniteSet(done)
  /\ done \subseteq RealCall
  /\ \A c \in done : /\ Can(c.asking.by, c.asking.act)
                     /\ c.asking.act = "approve" => c.asking.by \in Approvers
  /\ \A c \in done \ (records \cup lost) : \E d \in Drivers : call[d] = c /\ at[d] = "record"
  /\ \A r \in approvedOnce : \E c \in done :
       c.asking.act = "approve" /\ c.asking.request = r /\ c.asking.verdict = "approved"

\* A sign-off is on record.
Touched == \E c \in done : c.asking.act = "approve" /\ c \in records

\* A driver that goes on with a request to wait for, or has run a tool for one, was
\* resumed by a sign-off that is on record.
TouchInv ==
  /\ \A d \in Drivers :
       status[d] \in {"loaded", "enter", "ran"} /\ state[d].pending # NoPending => Touched
  /\ (\E r \in Requests, i \in Items : toolRuns[r][i] > 0) => Touched

ControlInv == OrderInv /\ CallInv /\ DoneInv /\ TouchInv

\* A step of the graph runs nobody who was not running, and approves nothing.
LEMMA StepRuns ==
  ASSUME TypeInv, NEW d \in Drivers, Step(d) \/ Raise(d)
  PROVE  /\ approvedOnce' = approvedOnce
         /\ \A e \in Drivers : Running(e)' => Running(e)
<1> USE DEF Running, historyVars
<1>1. status \in [Drivers -> {"idle", "loaded", "enter", "ran", "parking", "parked",
                              "complete", "raised"}]
  BY DEF TypeInv, TypeOK
<1>2. CASE Invoke(d) \/ Advance(d) \/ Park(d) \/ Complete(d) \/ Raise(d)
  BY <1>1, <1>2 DEF Invoke, Advance, Park, Complete, Raise, AtNode, Put
<1>3. CASE \/ Planner(d) \/ Recon(d) \/ Scan(d) \/ Correlate(d) \/ Report(d) \/ GateRequests(d)
           \/ GateWaits(d) \/ GateResolves(d) \/ RecordIntent(d) \/ Validate(d)
  <2>1. status[d] = "enter" /\ \E s \in {"ran", "parking"} : status' = [status EXCEPT ![d] = s]
    BY <1>3, NodeStep
  <2>2. approvedOnce' = approvedOnce
    BY <1>3 DEF Planner, Recon, Scan, Correlate, Report, GateRequests, GateWaits, GateResolves,
                RecordIntent, Validate, CountPhase
  <2> QED BY <1>1, <2>1, <2>2
<1> QED BY <1>2, <1>3 DEF Step

\* A step of the graph goes on with a request, or runs a tool for one, only where its
\* driver did go on with one before.
LEMMA StepTouches ==
  ASSUME TypeInv, NEW d \in Drivers, Step(d) \/ Raise(d)
  PROVE  /\ \A e \in Drivers :
              status'[e] \in {"loaded", "enter", "ran"} /\ state'[e].pending # NoPending =>
              status[e] \in {"loaded", "enter", "ran"} /\ state[e].pending # NoPending
         /\ \/ toolRuns' = toolRuns
            \/ status[d] = "enter" /\ state[d].pending # NoPending
<1> USE DEF historyVars
<1>1. /\ status \in [Drivers -> {"idle", "loaded", "enter", "ran", "parking", "parked",
                                 "complete", "raised"}]
      /\ state \in [Drivers -> States]
  BY DEF TypeInv, TypeOK
<1>2. CASE Invoke(d) \/ Advance(d) \/ Park(d) \/ Complete(d) \/ Raise(d)
  <2>1. state' = state /\ toolRuns' = toolRuns
    BY <1>2 DEF Invoke, Advance, Park, Complete, Raise, Put
  <2>2. \A e \in Drivers : status'[e] \in {"loaded", "enter", "ran"} =>
                           status[e] \in {"loaded", "enter", "ran"}
    BY <1>1, <1>2 DEF Invoke, Advance, Park, Complete, Raise, AtNode
  <2> QED BY <2>1, <2>2
<1>3. CASE GateRequests(d)
  <2>1. PICK st : Interrupted(d, st)
    BY <1>3 DEF GateRequests
  <2> QED BY <1>1, <1>3, <2>1 DEF GateRequests, Interrupted
<1>4. CASE \/ Planner(d) \/ Recon(d) \/ Scan(d) \/ Correlate(d) \/ Report(d)
           \/ GateWaits(d) \/ GateResolves(d) \/ RecordIntent(d) \/ Validate(d)
  <2>1. /\ status[d] = "enter" /\ OthersSame(d)
        /\ \E s \in {"ran", "parking"} : status' = [status EXCEPT ![d] = s]
    BY <1>4, NodeStep
  <2>2. state'[d].pending # NoPending => state[d].pending # NoPending
    <3>1. IsFor(state'[d].pending, state'[d].pending.request)
            => IsFor(state[d].pending, state'[d].pending.request)
      BY <1>4, PendingKept
    <3> QED BY <3>1 DEF IsFor
  <2>3. toolRuns' = toolRuns \/ state[d].pending # NoPending
    BY <1>4 DEF Planner, Recon, Scan, Correlate, Report, GateWaits, GateResolves, RecordIntent,
                Validate, CountPhase, HasTarget
  <2>4. \A e \in Drivers : e # d => status'[e] = status[e] /\ state'[e] = state[e]
    BY <1>1, <2>1 DEF OthersSame
  <2> QED BY <2>1, <2>2, <2>3, <2>4
<1> QED BY <1>2, <1>3, <1>4 DEF Step

LEMMA ControlBegins == ControlInit => ControlInv
<1> SUFFICES ASSUME ControlInit PROVE ControlInv
  OBVIOUS
<1>1. OrderInv
  BY OrderInit DEF ControlInit
<1>2. CallInv
  BY DEF ControlInit, Init, CallInv, Running
<1>3. DoneInv
  BY FS_EmptySet DEF ControlInit, Init, DoneInv
<1>4. TouchInv
  BY DEF ControlInit, Init, TouchInv
<1> QED BY <1>1, <1>2, <1>3, <1>4 DEF ControlInv

\* A call that does nothing to the graph keeps what is said of the graph's drivers.
LEMMA QuietCall ==
  ASSUME ControlInv, UNCHANGED vars, done \subseteq done', records \subseteq records'
  PROVE  TouchInv' /\ (Touched => Touched')
BY DEF ControlInv, TouchInv, Touched, vars, driverVars, historyVars

LEMMA CallsNext ==
  ASSUME ControlInv, NEW d \in Drivers, NEW asking \in Asked, Call(d, asking)
  PROVE  CallInv' /\ DoneInv' /\ TouchInv'
<1> USE DEF vars, driverVars, historyVars
<1>1. CallInv /\ DoneInv /\ asking.act \in Acts
  BY DEF ControlInv, Asked, Acts
<1>2. /\ at[d] = "free" /\ at' = [at EXCEPT ![d] = "asked"] /\ ~Running(d)
      /\ call' = [call EXCEPT ![d] = [id |-> calls[asking.act], asking |-> asking]]
      /\ calls' = [calls EXCEPT ![asking.act] = @ + 1]
      /\ UNCHANGED <<vars, killed, done, records, lost>>
  BY DEF Call, Goto
<1>3. [id |-> calls[asking.act], asking |-> asking] \in RealCall
  BY <1>1 DEF CallInv, RealCall
<1>4. CallInv'
  BY <1>1, <1>2, <1>3 DEF CallInv, Granted, Doing, Running
<1>5. DoneInv'
  BY <1>1, <1>2 DEF CallInv, DoneInv
<1>6. TouchInv'
  BY <1>2, QuietCall
<1> QED BY <1>4, <1>5, <1>6

LEMMA ProceedNext ==
  ASSUME ControlInv, NEW d \in Drivers, Proceed(d)
  PROVE  CallInv' /\ DoneInv' /\ TouchInv'
<1> USE DEF vars, driverVars, historyVars
<1>1. CallInv /\ DoneInv /\ TouchInv /\ TypeInv
  BY DEF ControlInv, OrderInv
<1>2. ASSUME at[d] = "asked" \/ at[d] = "record" \/ at[d] = "run"
      PROVE  call[d] \in RealCall /\ ~Running(d)
  BY <1>1, <1>2 DEF CallInv
<1>3. CASE Refused(d)
  <2>1. /\ at[d] = "asked" /\ at' = [at EXCEPT ![d] = "free"]
        /\ call' = [call EXCEPT ![d] = NoCall]
        /\ UNCHANGED <<vars, calls, killed, done, records, lost>>
    BY <1>3 DEF Refused, Goto
  <2>2. CallInv'
    BY <1>1, <1>2, <2>1 DEF CallInv, Granted, Doing, Running
  <2>3. DoneInv'
    BY <1>1, <2>1 DEF CallInv, DoneInv
  <2> QED BY <2>1, <2>2, <2>3, QuietCall
<1>4. CASE Grant(d)
  <2>1. /\ at[d] = "asked" /\ at' = [at EXCEPT ![d] = "record"]
        /\ Granted(d) /\ Doing(d) \in {"start", "query"}
        /\ UNCHANGED <<vars, call, calls, killed, done, records, lost>>
    BY <1>4 DEF Grant, Goto
  <2>2. CallInv'
    BY <1>1, <1>2, <2>1 DEF CallInv, Granted, Doing, Running
  <2>3. DoneInv'
    BY <1>1, <2>1 DEF CallInv, DoneInv
  <2> QED BY <2>1, <2>2, <2>3, QuietCall
<1>5. CASE SignsOff(d)
  <2>1. /\ at[d] = "asked" /\ at' = [at EXCEPT ![d] = "record"]
        /\ Granted(d) /\ call[d].asking.act = "approve"
        /\ done' = done \cup {call[d]}
        /\ UNCHANGED <<call, calls, killed, records, lost>>
    BY <1>5 DEF SignsOff, Goto, Doing
  <2>2. /\ call[d].asking.by \in Approvers
        /\ UNCHANGED <<driverVars, saved, issued, faults, overlaps, asked, executed, toolRuns>>
        /\ approvedOnce' = IF call[d].asking.verdict = "approved"
                             THEN approvedOnce \cup {call[d].asking.request} ELSE approvedOnce
    BY <1>5 DEF SignsOff, Approve, SignOff
  <2>3. IsFiniteSet(done')
    BY <1>1, <2>1, FS_AddElement DEF DoneInv
  <2>4. CallInv'
    BY <1>1, <1>2, <2>1, <2>2 DEF CallInv, Granted, Doing, Running
  <2>5. DoneInv'
    BY <1>1, <1>2, <2>1, <2>2, <2>3 DEF CallInv, DoneInv, Granted, Doing
  <2>6. TouchInv'
    BY <1>1, <2>1, <2>2 DEF TouchInv, Touched
  <2> QED BY <2>4, <2>5, <2>6
<1>6. CASE Kills(d)
  <2>1. /\ at[d] = "asked" /\ at' = [at EXCEPT ![d] = "record"]
        /\ Granted(d) /\ call[d].asking.act = "kill"
        /\ done' = done \cup {call[d]}
        /\ UNCHANGED <<vars, call, calls, records, lost>>
    BY <1>6 DEF Kills, Goto, Doing
  <2>2. IsFiniteSet(done')
    BY <1>1, <2>1, FS_AddElement DEF DoneInv
  <2>3. CallInv'
    BY <1>1, <1>2, <2>1 DEF CallInv, Granted, Doing, Running
  <2>4. DoneInv'
    BY <1>1, <1>2, <2>1, <2>2 DEF CallInv, DoneInv, Granted, Doing
  <2> QED BY <2>1, <2>3, <2>4, QuietCall
<1>7. CASE Record(d)
  <2>1. /\ at[d] = "record" /\ records' = records \cup {call[d]}
        /\ \E to \in {"run", "free"} : at' = [at EXCEPT ![d] = to]
        /\ UNCHANGED <<vars, call, calls, killed, done, lost>>
    BY <1>7 DEF Record, Goto
  <2>2. CallInv'
    BY <1>1, <1>2, <2>1 DEF CallInv, Granted, Doing, Running
  <2>3. DoneInv'
    BY <1>1, <2>1 DEF CallInv, DoneInv
  <2> QED BY <2>1, <2>2, <2>3, QuietCall
<1>8. CASE RecordFails(d)
  <2>1. /\ at[d] = "record" /\ lost' = lost \cup {call[d]}
        /\ at' = [at EXCEPT ![d] = "free"]
        /\ UNCHANGED <<vars, call, calls, killed, done, records>>
    BY <1>8 DEF RecordFails, Goto
  <2>2. CallInv'
    BY <1>1, <1>2, <2>1 DEF CallInv, Granted, Doing, Running
  <2>3. DoneInv'
    BY <1>1, <2>1 DEF CallInv, DoneInv
  <2> QED BY <2>1, <2>2, <2>3, QuietCall
<1>9. CASE Runs(d)
  <2>1. /\ at[d] = "run" /\ at' = [at EXCEPT ![d] = "free"]
        /\ done' = done \cup {call[d]} /\ call[d].asking.act = "start"
        /\ UNCHANGED <<call, calls, killed, records, lost>>
    BY <1>9 DEF Runs, Goto, Doing
  <2>2. /\ status' = [status EXCEPT ![d] = "loaded"]
        /\ state' = [state EXCEPT ![d] = InitialState]
        /\ UNCHANGED <<approvedOnce, toolRuns>>
    BY <1>9 DEF Runs, Begin
  <2>3. IsFiniteSet(done')
    BY <1>1, <2>1, FS_AddElement DEF DoneInv
  <2>4. status \in [Drivers -> {"idle", "loaded", "enter", "ran", "parking", "parked",
                                "complete", "raised"}] /\ state \in [Drivers -> States]
    BY <1>1 DEF TypeInv, TypeOK
  <2>5. CallInv'
    BY <1>1, <1>2, <2>1, <2>2, <2>4 DEF CallInv, Granted, Doing, Running
  <2>6. DoneInv'
    BY <1>1, <1>2, <2>1, <2>2, <2>3 DEF CallInv, DoneInv, Granted, Doing
  <2>7. TouchInv'
    BY <1>1, <2>1, <2>2, <2>4, InitialStateType DEF TouchInv, Touched
  <2> QED BY <2>5, <2>6, <2>7
<1>10. CASE Resumes(d)
  <2>1. /\ at[d] = "run" /\ at' = [at EXCEPT ![d] = "free"]
        /\ call[d].asking.act = "approve"
        /\ UNCHANGED <<call, calls, killed, done, records, lost>>
    BY <1>10 DEF Resumes, Goto, Doing
  <2>2. /\ UNCHANGED <<approvedOnce, toolRuns>>
        /\ status' = [status EXCEPT ![d] = "loaded"] \/ status' = status
    BY <1>10 DEF Resumes, Resume
  <2>3. status \in [Drivers -> {"idle", "loaded", "enter", "ran", "parking", "parked",
                                "complete", "raised"}]
    BY <1>1 DEF TypeInv, TypeOK
  <2>4. call[d] \in done /\ call[d] \in records
    BY <1>1, <2>1 DEF CallInv, Doing
  <2>5. CallInv'
    BY <1>1, <1>2, <2>1, <2>2, <2>3, <2>4 DEF CallInv, Granted, Doing, Running
  <2>6. DoneInv'
    BY <1>1, <2>1, <2>2 DEF CallInv, DoneInv
  <2>7. Touched'
    BY <2>1, <2>4 DEF Touched
  <2>8. TouchInv'
    BY <2>7 DEF TouchInv
  <2> QED BY <2>5, <2>6, <2>8
<1> QED BY <1>3, <1>4, <1>5, <1>6, <1>7, <1>8, <1>9, <1>10 DEF Proceed

\* The steps and exceptions of the graph, and the end of the process.
LEMMA GraphNext ==
  ASSUME ControlInv, \/ \E d \in Drivers : GraphStep(d) \/ GraphRaises(d)
                     \/ ProcessDies
  PROVE  CallInv' /\ DoneInv' /\ TouchInv'
<1>1. CallInv /\ DoneInv /\ TouchInv /\ TypeInv
  BY DEF ControlInv, OrderInv
<1>2. ASSUME NEW d \in Drivers, GraphStep(d) \/ GraphRaises(d)
      PROVE  CallInv' /\ DoneInv' /\ TouchInv'
  <2>1. (Step(d) \/ Raise(d)) /\ UNCHANGED <<call, at, calls, records, lost, killed, done>>
    BY <1>2 DEF GraphStep, GraphRaises, controlVars, callVars
  <2>2. approvedOnce' = approvedOnce /\ \A e \in Drivers : Running(e)' => Running(e)
    BY <1>1, <2>1, StepRuns
  <2>3. CallInv'
    BY <1>1, <2>1, <2>2 DEF CallInv, Granted, Doing
  <2>4. DoneInv'
    BY <1>1, <2>1, <2>2 DEF DoneInv
  <2>5. TouchInv'
    BY <1>1, <2>1, StepTouches DEF TouchInv, Touched
  <2> QED BY <2>3, <2>4, <2>5
<1>3. CASE ProcessDies
  <2>1. /\ at' = [d \in Drivers |-> "free"] /\ UNCHANGED <<call, calls, done, records>>
        /\ lost' = lost \cup {call[d] : d \in {e \in Drivers : at[e] = "record"}}
    BY <1>3 DEF ProcessDies
  <2>2. status' = [d \in Drivers |-> "idle"] /\ UNCHANGED <<state, toolRuns, approvedOnce>>
    BY <1>3 DEF ProcessDies, Crash, historyVars
  <2>3. CallInv'
    BY <1>1, <2>1, <2>2 DEF CallInv, Running
  <2>4. DoneInv'
    BY <1>1, <2>1, <2>2 DEF CallInv, DoneInv
  <2>5. TouchInv'
    BY <1>1, <2>1, <2>2 DEF TouchInv, Touched
  <2> QED BY <2>3, <2>4, <2>5
<1> QED BY <1>2, <1>3

LEMMA ControlKeeps == ControlInv /\ [ControlNext]_allVars => ControlInv'
<1> SUFFICES ASSUME ControlInv, [ControlNext]_allVars PROVE ControlInv'
  OBVIOUS
<1>1. [Next]_vars \/ \E d \in Drivers : Begin(d)
  BY GraphOf DEF ControlInv, CallInv, RealCall
<1>2. OrderInv'
  BY <1>1, OrderNext, BeginKeeps DEF ControlInv
<1>3. ASSUME UNCHANGED allVars PROVE CallInv' /\ DoneInv' /\ TouchInv'
  <2>1. UNCHANGED <<vars, call, at, calls, records, lost, killed, done>>
    BY <1>3 DEF allVars, controlVars, callVars
  <2>2. CallInv'
    BY <2>1 DEF vars, driverVars, ControlInv, CallInv, Granted, Doing, Running
  <2>3. DoneInv'
    BY <2>1 DEF vars, historyVars, ControlInv, DoneInv
  <2> QED BY <2>1, <2>2, <2>3, QuietCall
<1>4. ASSUME ControlNext PROVE CallInv' /\ DoneInv' /\ TouchInv'
  BY <1>4, CallsNext, ProceedNext, GraphNext DEF ControlNext
<1> QED BY <1>2, <1>3, <1>4 DEF ControlInv

LEMMA ControlInvHolds == ControlSpec => []ControlInv
BY ControlBegins, ControlKeeps, PTL DEF ControlSpec

\* Under the control plane as without it, what an engagement waits for is what was
\* asked for (PendingMatchesRequest).
THEOREM PendingMatchesUnderControl == ControlSpec => []PendingMatchesRequest
BY ControlInvHolds, FitIsMatch, PTL DEF ControlInv, OrderInv

\* ActsOnRecord: what was done was done by somebody whose role is for it, and is on
\* record, or will be next, or its record failed; what runs is on record; and no tool
\* runs for a request without a sign-off of it.
THEOREM WhatWasDoneIsOnRecord == ControlSpec => []ActsOnRecord
<1> SUFFICES ASSUME ControlInv PROVE ActsOnRecord
  BY ControlInvHolds, PTL
<1> DEFINE Of(act) == {c \in done : c.asking.act = act}
           Sign(r) == {c \in Of("approve") : c.asking.request = r /\ c.asking.verdict = "approved"}
<1>1. CallInv /\ DoneInv /\ TouchInv /\ SignedInv
  BY DEF ControlInv, OrderInv
<1>2. \A c \in done : c.asking \in Asked /\ c.asking.by \in Names /\ c.asking.act \in Acts
  BY <1>1 DEF DoneInv, RealCall, Asked, Acts
<1>3. \A c \in Of("start") \cup Of("kill") : RoleOf[c.asking.by] \in {"admin", "operator"}
  BY <1>1, <1>2, RolesAllow DEF DoneInv
<1>4. \A c \in Of("approve") :
        RoleOf[c.asking.by] \in {"admin", "approver"} /\ c.asking.by \in Approvers
  BY <1>1, <1>2, RolesAllow DEF DoneInv
<1>5. \A c \in done \ (records \cup lost) : \E d \in Drivers : call[d] = c /\ at[d] = "record"
  BY <1>1 DEF DoneInv
<1>6. \A d \in Drivers : Running(d) => call[d] \in records
  BY <1>1 DEF CallInv
<1>7. ASSUME NEW r \in Requests, NEW i \in Items, toolRuns[r][i] > 0
      PROVE  Sign(r) # {} /\ (Cardinality(Of("approve")) = 1 => Sign(r) \subseteq records)
  <2>1. Sign(r) # {}
    BY <1>1, <1>7 DEF SignedInv, DoneInv
  <2>2. PICK c \in Of("approve") : c \in records
    BY <1>1, <1>7 DEF TouchInv, Touched
  <2>3. ASSUME Cardinality(Of("approve")) = 1 PROVE Of("approve") \subseteq records
    <3>1. IsFiniteSet(Of("approve"))
      BY <1>1, FS_Subset DEF DoneInv
    <3>2. PICK x : Of("approve") = {x}
      BY <2>3, <3>1, FS_Singleton
    <3> QED BY <2>2, <3>2
  <2> QED BY <2>1, <2>3
<1> QED BY <1>3, <1>4, <1>5, <1>6, <1>7 DEF ActsOnRecord
=============================================================================
