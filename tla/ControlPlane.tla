---------------------------- MODULE ControlPlane ----------------------------
(***************************************************************************)
(* The control plane (api/control_plane.py) with its roles (safety/        *)
(* rbac.py) over the engagement graph.  A call runs on a thread of its own *)
(* to the end, and is the driver of what it runs or resumes.  It is cut    *)
(* where calls of other threads can come between: after the role check,    *)
(* after what it does to the approvals or the kill switch, and after its   *)
(* record.                                                                 *)
(*                                                                         *)
(* What the switch does to a call of the pipeline in flight, and the hash  *)
(* chain of the records, are SafetyPipeline and AuditLog.                  *)
(***************************************************************************)
EXTENDS EngagementGraph, FiniteSets

CONSTANTS
  RoleOf,     \* the assignments: a role for some of Names
  MaxCalls,   \* bounds the calls of each act
  NoCall

Roles == {"admin", "operator", "approver", "viewer"}
Acts == {"start", "approve", "kill", "query"}

ASSUME ControlAssumption ==
  /\ DOMAIN RoleOf \subseteq Names
  /\ \A name \in DOMAIN RoleOf : RoleOf[name] \in Roles
  /\ MaxCalls \in [Acts -> Nat]
  /\ MaxCalls["start"] <= Cardinality(Requests)

VARIABLES
  call,      \* the call each thread is in, or was in last
  at,        \* where in it the thread is
  killed,    \* the kill switch is engaged
  calls,     \* calls so far of each act
  done,      \* history: calls that started, signed off or killed something
  records,   \* calls whose control.* event is in the audit file
  lost       \* history: calls whose record could not be written

callVars == <<call, at, calls, records, lost>>
controlVars == <<callVars, killed, done>>
allVars == <<vars, controlVars>>

\* An operator's request: who, what, and for a sign-off of which request.
Asked ==
  [by : Names, act : {"start", "kill", "query"}]
    \cup [by : Names, act : {"approve"}, request : Requests, verdict : Decisions]

ControlInit ==
  /\ Init
  /\ call = [d \in Drivers |-> NoCall]
  /\ at = [d \in Drivers |-> "free"]
  /\ killed = FALSE
  /\ calls = [act \in Acts |-> 0]
  /\ done = {} /\ records = {} /\ lost = {}
-----------------------------------------------------------------------------
\* _ALLOWED
Allowed(role) ==
  CASE role = "admin"    -> Acts
    [] role = "operator" -> {"start", "kill", "query"}
    [] role = "approver" -> {"approve", "query"}
    [] role = "viewer"   -> {"query"}

\* Mutant: anybody with a role.
CanIfKnown(name, act) == name \in DOMAIN RoleOf

\* RBAC.can: somebody without a role may do nothing.
Can(name, act) == name \in DOMAIN RoleOf /\ act \in Allowed(RoleOf[name])

Goto(d, from, to) == at[d] = from /\ at' = [at EXCEPT ![d] = to]

\* A call arrives; its number tells it from others like it.
Call(d, asking) ==
  /\ calls[asking.act] < MaxCalls[asking.act]
  /\ ~Running(d)
  /\ Goto(d, "free", "asked")
  /\ call' = [call EXCEPT ![d] = [id |-> calls[asking.act], asking |-> asking]]
  /\ calls' = [calls EXCEPT ![asking.act] = @ + 1]
  /\ UNCHANGED <<vars, killed, done, records, lost>>

Doing(d) == call[d].asking.act
Granted(d) == Can(call[d].asking.by, Doing(d))

\* require raises, or Orchestrator.approve does: no approver of the rules of
\* engagement, or a request the store does not know.  Nothing is recorded.
Refused(d) ==
  /\ Goto(d, "asked", "free")
  /\ \/ ~Granted(d)
     \/ /\ Doing(d) = "approve"
        /\ \/ call[d].asking.by \notin Approvers
           \/ decision[call[d].asking.request] = "absent"
  /\ call' = [call EXCEPT ![d] = NoCall]
  /\ UNCHANGED <<vars, calls, killed, done, records, lost>>

\* start and query record first.
Grant(d) ==
  /\ Goto(d, "asked", "record")
  /\ Granted(d) /\ Doing(d) \in {"start", "query"}
  /\ UNCHANGED <<vars, call, calls, killed, done, records, lost>>

\* approve signs off, then records.
SignsOff(d) ==
  /\ Goto(d, "asked", "record")
  /\ Granted(d) /\ Doing(d) = "approve"
  /\ Approve(call[d].asking.request, call[d].asking.verdict, call[d].asking.by)
  /\ done' = done \cup {call[d]}
  /\ UNCHANGED <<call, calls, killed, records, lost>>

\* kill engages the switch, then records.
Kills(d) ==
  /\ Goto(d, "asked", "record")
  /\ Granted(d) /\ Doing(d) = "kill"
  /\ killed' = TRUE
  /\ done' = done \cup {call[d]}
  /\ UNCHANGED <<vars, call, calls, records, lost>>

\* Mutant: only an approval is resumed.
RecordResumingApproved(d) ==
  /\ Goto(d, "record",
          IF \/ Doing(d) = "start"
             \/ Doing(d) = "approve" /\ call[d].asking.verdict = "approved"
            THEN "run" ELSE "free")
  /\ records' = records \cup {call[d]}
  /\ UNCHANGED <<vars, call, calls, killed, done, lost>>

\* _record
Record(d) ==
  /\ Goto(d, "record", IF Doing(d) \in {"start", "approve"} THEN "run" ELSE "free")
  /\ records' = records \cup {call[d]}
  /\ UNCHANGED <<vars, call, calls, killed, done, lost>>

\* The append raises out of the call: what was signed off or killed stays so.
RecordFails(d) ==
  /\ Goto(d, "record", "free")
  /\ lost' = lost \cup {call[d]}
  /\ UNCHANGED <<vars, call, calls, killed, done, records>>

\* start ends in Orchestrator.run; nothing looks whether the engagement runs.
Runs(d) ==
  /\ Goto(d, "run", "free")
  /\ Doing(d) = "start"
  /\ Begin(d)
  /\ done' = done \cup {call[d]}
  /\ UNCHANGED <<call, calls, killed, records, lost>>

\* approve ends in Orchestrator.resume, which raises without a checkpoint.
Resumes(d) ==
  /\ Goto(d, "run", "free")
  /\ Doing(d) = "approve"
  /\ Resume(d) \/ (saved = Nothing /\ UNCHANGED vars)
  /\ UNCHANGED <<call, calls, killed, done, records, lost>>

\* A step of the graph.  Once the switch is up the pipeline denies its tools: no
\* step of a flow is allowed, and a validation does not run.
Denied(d) ==
  /\ toolRuns' = toolRuns
  /\ node[d] \in {"recon", "scan"} => state'[d].spent = state[d].spent
  /\ state'[d].assets = state[d].assets /\ state'[d].findings = state[d].findings

GraphStep(d) ==
  /\ Step(d)
  /\ killed => Denied(d)
  /\ UNCHANGED controlVars

\* An exception in the graph leaves the call.
GraphRaises(d) == Raise(d) /\ UNCHANGED controlVars

\* The process dies.
ProcessDies ==
  /\ Crash
  /\ at' = [d \in Drivers |-> "free"]
  /\ killed' = FALSE
  /\ lost' = lost \cup {call[d] : d \in {e \in Drivers : at[e] = "record"}}
  /\ UNCHANGED <<call, calls, done, records>>

Proceed(d) ==
  \/ Refused(d) \/ Grant(d) \/ SignsOff(d) \/ Kills(d)
  \/ Record(d) \/ RecordFails(d)
  \/ Runs(d) \/ Resumes(d)

ControlNext ==
  \/ \E d \in Drivers, asking \in Asked : Call(d, asking)
  \/ \E d \in Drivers : Proceed(d) \/ GraphStep(d) \/ GraphRaises(d)
  \/ ProcessDies

\* A thread that serves a call goes on with it.
ControlSpec ==
  /\ ControlInit /\ [][ControlNext]_allVars
  /\ \A d \in Drivers : WF_allVars(Proceed(d)) /\ WF_allVars(GraphStep(d))
-----------------------------------------------------------------------------
\* "Control-plane actions (start/approve/kill) are RBAC-gated and audited per
\* operator" (SAFETY.md:58), in what order calls come and records fail: what was
\* done was done by somebody whose role is for it, a sign-off by a named approver;
\* it is on record, or will be next, or its record failed; nothing is running for
\* a call that is not on record; and a tool that ran for a request has a sign-off
\* behind it, which is on record when it is the only call of its kind.
ActsOnRecord ==
  LET Of(act) == {c \in done : c.asking.act = act}
      Sign(r) == {c \in Of("approve") : c.asking.request = r /\ c.asking.verdict = "approved"}
  IN  /\ \A c \in Of("start") \cup Of("kill") :
           RoleOf[c.asking.by] \in {"admin", "operator"}
      /\ \A c \in Of("approve") :
           RoleOf[c.asking.by] \in {"admin", "approver"} /\ c.asking.by \in Approvers
      /\ \A c \in done \ (records \cup lost) :
           \E d \in Drivers : call[d] = c /\ at[d] = "record"
      /\ \A d \in Drivers : Running(d) => call[d] \in records
      /\ \A r \in Requests :
           (\E i \in Items : toolRuns[r][i] > 0) =>
             /\ Sign(r) # {}
             /\ Cardinality(Of("approve")) = 1 => Sign(r) \subseteq records

\* A driver that runs comes to its end: complete, parked or with an exception.
DriverStops == \A d \in Drivers : Running(d) ~> ~Running(d)

SignedOff ==
  /\ \E d \in Drivers : status[d] = "parked"
  /\ saved # Nothing /\ saved.state.pending # NoPending
  /\ decision[saved.state.pending.request] \in Decisions

\* Approved or denied, a parked engagement completes once it is signed off:
\* whoever signed it off resumes it, and the planner does not propose a second
\* validation.  Unless the record of the sign-off failed, which leaves it parked,
\* or somebody started the engagement again, which leaves another request to
\* wait for.
SignOffCompletes ==
  SignedOff ~> \/ \E d \in Drivers : status[d] \in {"complete", "raised"}
               \/ faults > 0 \/ lost # {}
               \/ Cardinality({c \in done : c.asking.act = "start"}) > 1
=============================================================================
