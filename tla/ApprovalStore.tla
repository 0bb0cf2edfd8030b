--------------------------- MODULE ApprovalStore ---------------------------
(***************************************************************************)
(* The approval store (safety/approvals.py): requests by id, each with a   *)
(* decision and the name of who took it.  It lives in memory only.         *)
(***************************************************************************)
CONSTANTS
  Requests,    \* request ids
  Names,       \* people who may try to sign off
  Approvers,   \* the named approvers of the rules of engagement
  NoOne        \* approver is None

ASSUME ApproverAssumption == Approvers \subseteq Names /\ NoOne \notin Names

VARIABLES
  decision,    \* the decision of each request; "absent" if it does not exist
  approver     \* who resolved it

approvalVars == <<decision, approver>>

Decisions == {"approved", "denied"}

ApprovalInit ==
  /\ decision = [r \in Requests |-> "absent"]
  /\ approver = [r \in Requests |-> NoOne]

\* create, under a fresh id (no caller passes one).
Create(r) ==
  /\ decision[r] = "absent"
  /\ decision' = [decision EXCEPT ![r] = "pending"]
  /\ approver' = [approver EXCEPT ![r] = NoOne]

\* resolve: any existing request, resolved before or not.
Resolve(r, d, name) ==
  /\ decision[r] # "absent"
  /\ decision' = [decision EXCEPT ![r] = d]
  /\ approver' = [approver EXCEPT ![r] = name]

\* Orchestrator.approve: only a named approver gets as far as resolve.
SignOff(r, d, name) ==
  /\ name \in Approvers
  /\ Resolve(r, d, name)

\* Mutant: that the request exists is taken for its approval.
IsApprovedIfKnown(r) == r \in Requests /\ decision[r] # "absent"

\* is_approved, for an invocation that may carry no id (not in Requests).
IsApproved(r) == r \in Requests /\ decision[r] = "approved"

ApprovalTypeOK ==
  /\ decision \in [Requests -> {"absent", "pending"} \cup Decisions]
  /\ approver \in [Requests -> Names \cup {NoOne}]
=============================================================================
