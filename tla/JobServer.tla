------------------------------ MODULE JobServer ------------------------------
(***************************************************************************)
(* The HTTP job server (api/server.py) and the engagement a job runs        *)
(* (run_engagement in api/service.py): a table of jobs behind a lock, a     *)
(* pool of worker threads with a queue, and the handlers, which the event   *)
(* loop runs one after another but not apart from the workers.              *)
(*                                                                         *)
(* The engagement is what the job sees of it: run and resume come back      *)
(* complete or interrupted, every step may raise, and the report bundle is  *)
(* written before run_engagement returns (EngagementGraph has the rest).    *)
(* The server is one process, and its table ends with it.                   *)
(***************************************************************************)
EXTENDS Naturals, Sequences, FiniteSets

CONSTANTS
  Jobs,          \* job ids
  Workers,       \* threads of _POOL
  MaxApprovals,  \* ScanRequest.max_approvals
  NoJob,         \* a worker or the event loop has nothing to do
  MaxReports     \* bound on the requests for a report

ASSUME JobAssumption ==
  /\ NoJob \notin Jobs
  /\ MaxApprovals \in Nat /\ MaxReports \in Nat

Final == {"complete", "interrupted", "error"}

VARIABLES
  status,      \* the status of each job in _JOBS; "absent" if it has no entry
  result,      \* whether the entry has a result
  queue,       \* jobs submitted to the pool and not yet taken
  running,     \* the job each worker runs
  step,        \* where each worker is in _execute and run_engagement
  outcome,     \* the status of the last InvokeResult
  approvals,   \* sign-offs given to each job's engagement
  written,     \* jobs whose report.json is on disk
  handler,     \* the handler the event loop runs, its job and its step
  reply,       \* the last answer to a request for each job's report
  reports      \* requests for a report so far

tableVars == <<status, result>>
workVars == <<running, step, outcome, approvals, written>>
httpVars == <<handler, reply, reports>>
vars == <<tableVars, queue, workVars, httpVars>>

Idle == [job |-> NoJob, at |-> "idle"]

Init ==
  /\ status = [j \in Jobs |-> "absent"]
  /\ result = [j \in Jobs |-> FALSE]
  /\ queue = <<>>
  /\ running = [w \in Workers |-> NoJob]
  /\ step = [w \in Workers |-> "waiting"]
  /\ outcome = [w \in Workers |-> "none"]
  /\ approvals = [j \in Jobs |-> 0]
  /\ written = {}
  /\ handler = Idle
  /\ reply = [j \in Jobs |-> "none"]
  /\ reports = 0
-----------------------------------------------------------------------------
(* The handlers.                                                            *)

\* create_scan, a valid request: the entry, under the lock, ...
CreateScan(j) ==
  /\ handler = Idle
  /\ status[j] = "absent"
  /\ status' = [status EXCEPT ![j] = "queued"]
  /\ handler' = [job |-> j, at |-> "submit"]
  /\ UNCHANGED <<result, queue, workVars, reply, reports>>

\* ... and then the submission.
Submit(j) ==
  /\ handler = [job |-> j, at |-> "submit"]
  /\ queue' = Append(queue, j)
  /\ handler' = Idle
  /\ UNCHANGED <<tableVars, workVars, reply, reports>>

\* get_report: the entry, looked up under the lock and read after it, ...
AskReport(j) ==
  /\ handler = Idle
  /\ reports < MaxReports
  /\ reports' = reports + 1
  /\ IF status[j] = "absent"
       THEN handler' = handler /\ reply' = [reply EXCEPT ![j] = "404"]
       ELSE handler' = [job |-> j, at |-> "result"] /\ UNCHANGED reply
  /\ UNCHANGED <<tableVars, queue, workVars>>

\* ... its result; without one the status is read for the message.
ReadResult(j) ==
  /\ handler = [job |-> j, at |-> "result"]
  /\ IF result[j] THEN handler' = [handler EXCEPT !.at = "file"] /\ UNCHANGED reply
                  ELSE handler' = Idle /\ reply' = [reply EXCEPT ![j] = "409"]
  /\ UNCHANGED <<tableVars, queue, workVars, reports>>

\* With one, the file.
ReadReport(j) ==
  /\ handler = [job |-> j, at |-> "file"]
  /\ handler' = Idle
  /\ reply' = [reply EXCEPT ![j] = IF j \in written THEN "200" ELSE "500"]
  /\ UNCHANGED <<tableVars, queue, workVars, reports>>

Handle(j) == Submit(j) \/ ReadResult(j) \/ ReadReport(j)
-----------------------------------------------------------------------------
(* The workers.                                                             *)

Goto(w, from, to) == step[w] = from /\ step' = [step EXCEPT ![w] = to]

\* Mutant: the job stays in the queue until it has ended.
TakeJobLeft(w) ==
  /\ Goto(w, "waiting", "starting")
  /\ queue # <<>>
  /\ running' = [running EXCEPT ![w] = Head(queue)]
  /\ UNCHANGED <<queue, tableVars, outcome, approvals, written, httpVars>>

\* The pool hands out the oldest job.
TakeJob(w) ==
  /\ Goto(w, "waiting", "starting")
  /\ queue # <<>>
  /\ running' = [running EXCEPT ![w] = Head(queue)]
  /\ queue' = Tail(queue)
  /\ UNCHANGED <<tableVars, outcome, approvals, written, httpVars>>

\* _execute before its try block.
MarkRunning(w) ==
  /\ Goto(w, "starting", "building")
  /\ status' = [status EXCEPT ![running[w]] = "running"]
  /\ UNCHANGED <<result, queue, running, outcome, approvals, written, httpVars>>

\* run and resume return.
Return(w, from) ==
  /\ Goto(w, from, "deciding")
  /\ \E o \in {"complete", "interrupted"} : outcome' = [outcome EXCEPT ![w] = o]
  /\ UNCHANGED <<tableVars, queue, running, approvals, written, httpVars>>

RunEngagement(w) == Return(w, "building")

\* Mutant: off by one.
SignOffOnceMore(w) ==
  /\ Goto(w, "deciding", "resuming")
  /\ outcome[w] = "interrupted" /\ approvals[running[w]] <= MaxApprovals
  /\ approvals' = [approvals EXCEPT ![running[w]] = @ + 1]
  /\ UNCHANGED <<tableVars, queue, running, outcome, written, httpVars>>

\* The loop: sign off what the engagement is parked for, up to max_approvals,
SignOff(w) ==
  /\ Goto(w, "deciding", "resuming")
  /\ outcome[w] = "interrupted" /\ approvals[running[w]] < MaxApprovals
  /\ approvals' = [approvals EXCEPT ![running[w]] = @ + 1]
  /\ UNCHANGED <<tableVars, queue, running, outcome, written, httpVars>>

Resume(w) == Return(w, "resuming")

\* then the bundle, whether the engagement is complete or still parked, and
\* after it the handoff files and the summary.
WriteReport(w) ==
  /\ Goto(w, "deciding", "finishing")
  /\ outcome[w] = "complete" \/ approvals[running[w]] >= MaxApprovals
  /\ written' = written \cup {running[w]}
  /\ UNCHANGED <<tableVars, queue, running, outcome, approvals, httpVars>>

Done(w) ==
  /\ step' = [step EXCEPT ![w] = "waiting"]
  /\ running' = [running EXCEPT ![w] = NoJob]
  /\ outcome' = [outcome EXCEPT ![w] = "none"]
  /\ UNCHANGED <<queue, approvals, written, httpVars>>

\* Mutant: status and result in two calls of _set, the second left out when the
\* engagement is complete.
FinishResultLater(w) ==
  /\ step[w] = "finishing"
  /\ status' = [status EXCEPT ![running[w]] = outcome[w]]
  /\ result' = [result EXCEPT ![running[w]] = outcome[w] # "complete"]
  /\ Done(w)

\* _set: status and result become visible together.
Finish(w) ==
  /\ step[w] = "finishing"
  /\ status' = [status EXCEPT ![running[w]] = outcome[w]]
  /\ result' = [result EXCEPT ![running[w]] = TRUE]
  /\ Done(w)

\* Mutants: no except branch; an except branch that asks for another try.
FailUncaught(w) ==
  /\ step[w] \in {"building", "deciding", "resuming", "finishing"}
  /\ UNCHANGED tableVars
  /\ Done(w)

FailRequeued(w) ==
  /\ step[w] \in {"building", "deciding", "resuming", "finishing"}
  /\ status' = [status EXCEPT ![running[w]] = "queued"]
  /\ UNCHANGED result
  /\ Done(w)

\* Whatever run_engagement raises, before or after it wrote the report, the job
\* ends in error.
Fail(w) ==
  /\ step[w] \in {"building", "deciding", "resuming", "finishing"}
  /\ status' = [status EXCEPT ![running[w]] = "error"]
  /\ UNCHANGED result
  /\ Done(w)

Work(w) ==
  \/ TakeJob(w) \/ MarkRunning(w) \/ RunEngagement(w) \/ SignOff(w) \/ Resume(w)
  \/ WriteReport(w) \/ Finish(w) \/ Fail(w)

Next ==
  \/ \E j \in Jobs : CreateScan(j) \/ AskReport(j) \/ Handle(j)
  \/ \E w \in Workers : Work(w)

Spec == Init /\ [][Next]_vars

\* The event loop finishes the handler it runs, and a worker with something to
\* do goes on: engagements end (EngagementGraph), tools have timeouts.
FairSpec ==
  /\ Spec
  /\ \A j \in Jobs : WF_vars(Handle(j))
  /\ \A w \in Workers : WF_vars(Work(w))
-----------------------------------------------------------------------------
\* Every variable keeps its type.
TypeOK ==
  /\ status \in [Jobs -> {"absent", "queued", "running"} \cup Final]
  /\ result \in [Jobs -> BOOLEAN]
  /\ queue \in Seq(Jobs)
  /\ running \in [Workers -> Jobs \cup {NoJob}]
  /\ step \in [Workers -> {"waiting", "starting", "building", "deciding",
                           "resuming", "finishing"}]
  /\ outcome \in [Workers -> {"none", "complete", "interrupted"}]
  /\ approvals \in [Jobs -> 0..MaxApprovals]
  /\ written \subseteq Jobs
  /\ handler \in [job : Jobs \cup {NoJob}, at : {"idle", "submit", "result", "file"}]
  /\ reply \in [Jobs -> {"none", "404", "409", "500", "200"}]
  /\ reports \in 0..MaxReports

\* A job is in one place: the handler that submits it, the queue or one worker,
\* and in none of them once it is final.  No job is run twice, and none is lost.
OnePlace ==
  \A j \in Jobs :
    LET places == Cardinality({i \in DOMAIN queue : queue[i] = j})
                    + Cardinality({w \in Workers : running[w] = j})
    IN  /\ places <= 1
        /\ status[j] \in {"absent"} \cup Final => places = 0
        /\ status[j] = "running" => \E w \in Workers : running[w] = j
        /\ status[j] = "queued" /\ places = 0 => handler = [job |-> j, at |-> "submit"]

\* A client that polls sees a status flow queued, running, final and never
\* back, whatever else the server does ("Status flows: queued -> running ->
\* complete (or interrupted / error)", docs/WEBSITE_INTEGRATION.md:123).
StatusFlows ==
  [][\A j \in Jobs :
       status'[j] # status[j] =>
         \/ status[j] = "absent" /\ status'[j] = "queued"
         \/ status[j] = "queued" /\ status'[j] = "running"
         \/ status[j] = "running" /\ status'[j] \in Final]_vars

\* A final status, its result and its report come together: who reads complete
\* or interrupted can have the report, nobody gets half of it, and interrupted
\* says that the automatic sign-offs are used up.
ReportWithStatus ==
  \A j \in Jobs :
    /\ status[j] \in {"complete", "interrupted"} <=> result[j]
    /\ result[j] => j \in written
    /\ reply[j] # "500"
    /\ status[j] = "interrupted" => approvals[j] = MaxApprovals

\* Whoever was told 202 gets a final status in the end, however many jobs wait
\* for the workers and whatever raises in them.
EveryJobEnds == \A j \in Jobs : status[j] = "queued" ~> status[j] \in Final
=============================================================================
