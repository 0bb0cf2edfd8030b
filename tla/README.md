# SafeGuard RedAgent in TLA+

These modules model `safeguard/`: what decides *whether, when, where and how often* a
security tool is run (the safety pipeline with its gates, the limiter, the kill
switch, the approvals, the scope guard, the audit log), what drives it (the
engagement graph with its checkpoints and planners, the control plane, the HTTP
server's job table), and what is made of the results (the adapters, the asset
inventory, the finding ledger, the detection oracle, the report, the baselines of
continuous mode). TLC checks the
properties below on small instances; TLAPS proves the most important ones for all
values of the constants. Paths are relative to the package directory
(`src/safeguard/`) unless they name a document.

1. The system
2. The modules, and how they correspond to the code
3. The runs
4. Fairness
5. The proofs
6. Where code and documents part
7. What is not modelled
8. Plan

## 1. The system

A program (`cli.py`, the scripts at the root, or the job server) loads rules of
engagement, assembles an `Engagement` (`engagement.py`), wraps it in an
`Orchestrator` and runs the engagement graph. Nodes of the graph call flows (recon,
scan, validate), flows call `SafetyPipeline.execute` once per tool, and the pipeline
calls the adapter and the runner. Everything below is shared between threads: the
pipeline, the limiter, the switch, the approval store and the audit log of an
engagement are single objects; all but the pipeline have a lock of their own, and no
lock spans two of them.

| Component | State | Operations | Talks to | What is hard | What makes it correct |
|---|---|---|---|---|---|
| Safety pipeline `safety/pipeline.py`, `safety/profile.py` | none of its own; a call is a sequence of steps on others' state | `execute` | limiter, switch, approvals, scope guard, audit log, runner | calls of several threads interleave between gates; a tool, a parser, a store or an audit write fails after the slot was taken; the gates' answers are stale by the time the tool starts | no tool without its gates or its record, the audit trail says what happened, each slot comes back, each call ends |
| Limiter `safety/rate_limiter.py` | bucket (tokens, last, in-flight) per target; total actions | `acquire`, `release` | called by the pipeline | the clock is read before the lock; `release` is called twice by a failed call | budget, concurrency and rate hold in every order of calls |
| Kill switch `safety/killswitch.py` | engaged flag, reason, hooks | `engage`, `engaged`, `reset` | hook: `LocalSubprocessRunner.revoke` | flag and hooks are set at different moments, reset between them | after it is thrown only calls that were past the check may start a tool |
| Approvals `safety/approvals.py` | requests by id with decision and approver | `create`, `resolve`, `is_approved` | graph's gate, pipeline, control plane | resolved more than once, looked up by id alone, kept in memory only | an active tool runs only under a named approver's approval |
| Audit log `safety/audit.py` | events, head, file | `append`, `verify` | written by all of the above | threads, failing writes, death of a process, several processes on one file | chain intact in memory and on disk, tampering is found |
| Scope guard `safety/scope_guard.py`, `config/models.py` | the rules of engagement | `check_target`, `check_window` | pipeline; the rules come from a file or from a request of the API | one host is typed in many ways, and the guard, the loader and the server each take strings apart in their own; networks inside networks; ends of windows | nothing passes that was not signed for, and an engagement is not denied its own targets |
| Graph and engine `graph/build.py`, `graph/engine.py` | node, `AgentState` | nodes, routes, `invoke`, `resume` | planner, flows, approvals, checkpointer | interrupt and resume; exceptions and crashes between a node's effects and its row | phases run once, one sign-off is one run of what was signed off, every run ends |
| Checkpoints `graph/checkpoint.py`, `graph/state.py` | rows by thread id and step | `put`, `latest`, `history`; `to_checkpoint`, `from_checkpoint` | engine | several drivers of one thread id overwrite rows; `last_decision` is not saved | a resumed run goes on with what was saved |
| Planners `llm/planner.py` | none | `decide` | graph | the model may answer anything | guarded answers keep the loop finite |
| Control plane `api/control_plane.py`, `safety/rbac.py`, `orchestrator.py` | role assignments | `start`, `approve`, `kill`, `audit_query` | orchestrator, switch, audit log | effect, record and resumption are three steps with other calls between them, and the record may fail | only who may acts, what was done is on record, a signed-off engagement goes on |
| Job server `api/server.py`, `api/service.py` | job table, pool of two workers, its queue | `create_scan`, `get_scan`, `get_report`, `_execute`, `run_engagement` | orchestrator | handlers and workers interleave; failures anywhere in a job | jobs are not lost or run twice, status and report are consistent, every job ends |
| Ledger and scoring `scan/findings.py`, `intel/` | findings by asset and title | `add`, merge; `enrich`, `score`, `build` | scan and correlate nodes | several tools see one weakness, in the plan's order, some denied; the risk is computed before the last observation | the merged row tells what was reported; risk and detection status agree |
| Oracle and report `oracle/`, `reporting/`, `integration/` | verdicts, coverage matrix, bundle | `observe`, `score`, `build`, `push` | nodes; telemetry of other systems | telemetry arrives late and between observations; several results under one key | what is handed off is what was observed |
| Baselines `continuous/` | numbered files | `record`, `save`, `latest`, `diff_reports` | end of `engage` | two cycles at once, a torn file, names that sort as strings | each cycle is compared with the one before, nothing is overwritten |
| Flows `recon/flow.py`, `scan/flow.py`, `validate/flow.py` | none | `run` | pipeline, inventory, ledger | a denied step in the middle; a node entered again by a resume | each allowed step is counted, what its tool told is kept |
| Adapters `tools/adapters/` | none | `parse` of thirteen tools | called by the pipeline | output that is cut off, of another form, in other words | what a tool did not say is not reported |
| Inventory `recon/assets.py` | assets by type, address, port and protocol | `add`, `by_type` | flows, graph | several tools describe one asset, in part | nothing that was learned is lost |
| LLM client `llm/client.py` | none | `chat` | LLM planner | which exceptions it lets through | the planner gets an answer or falls back |
| Others | | | | metrics, evidence files, loaders: counters or I/O | |

The hazards of this code, each at its line with the properties aimed at it, are the
`hazards` of `PROJECT.json`.

## 2. The modules, and how they correspond to the code

```
RateLimiter ---> LimitedActions          acquire and release, and calls around them
     |                 ^
     v                 | implements (LimiterSpec)
SafetyPipeline --------+                 also EXTENDS KillSwitch, ApprovalStore
AuditLog                                 on its own
ApprovalStore -> EngagementGraph -> ControlPlane
                                         graph, engine, checkpoints, planners; its operators
JobServer                                on top of the graph, abstracted
ToolResults -> AssetInventory --+
FindingLedger, DetectionOracle -+-> DetectionReport
                                         one engagement from its first tool to its report
BaselineStore                            cycles of `engage` on one directory
ScopeGuard ----> ScopedScan              where the tools of a run are pointed
```

`RateLimiter`, `KillSwitch` and `ApprovalStore` are *objects*: variables and the
methods as actions, with no `Next` of their own. Who calls them is the business of
the modules that EXTEND them, and those leave the other variables unchanged.
`ToolResults`, `AssetInventory`, `FindingLedger`, `DetectionOracle` and `ScopeGuard` are
pure operators. Theorems are in modules of their own, named after the module they are
about (section 5).

**RateLimiter.** `buckets` is `_buckets`, `totalActions` is `_total_actions`. The
code computes with floats; here `Token` units make a token, a bucket gains `Refill`
units a tick and a second has `Second` ticks, so `Burst = Refill * Second` is the
bucket's size (`max_requests_per_second_per_target` tokens) and everything is an
integer. `Acquire`, `RefuseBudget` and `RefuseRate` are the three ways out of
`acquire`; `RefuseRate` keeps the bucket created or refilled, as the code does, and
`Refilled` moves `last` back when it is shown an older clock value, as the code does.

**LimitedActions** is the abstract specification of what the limiter promises: calls
that read the clock, are admitted or refused, and give their slot back once, or twice
when the tool fails (the `except` branch and the `finally` clause).

**SafetyPipeline** has one action per step of `execute` that touches shared state;
checks that only look at the invocation ride with the step before them. The order is
the code's: kill switch, scope and window, approval, command, clock, acquire, audit,
runner, process, release, audit. A command is a set of tokens, each with its head
before the `=`; the tool's own guard compares them as written, the profile guard in
lower case. `trail[c]` is what stands of the call on the audit file. `Spawn` and
`Finish` choose success or failure, and so does `Audit`: a write that fails leaves no
line and raises, which is met where it was made. Before the gates and in the branch of a
denial it leaves `execute` (`raised`); at the start of the `try` block it fails the call;
in the `except` branch it leaves `execute` through the `finally` clause (`broken`); after
it the tool has run and its result is not recorded (`unrecorded`). Operators engage and reset the switch (`Engage` sets the
flag under the lock, `RunHooks` is the loop over the hooks after the lock was
released), requests are created, signed off and signed off again. A history variable
keeps which calls were past the kill check when the switch was thrown. The module is
shown to implement LimitedActions (`LimiterSpec`).

**AuditLog** cuts `append` where other threads, a failing write or the death of the
process can come between: lock, link, push to memory, write the line, unlock. Hash is
any function (a constant operator); TLC's instance hashes to the triple itself, which
makes it injective. `Open` is `__init__`: an empty list and the genesis hash whatever
the file holds. A later process appends to the same file.

**EngagementGraph.** A driver is a thread inside `invoke` or `resume`. `node`, `status`
and `state` are its position and its `AgentState`, reduced to what steers the run: the
plan history as a set, the decision, whether assets exist, the worst severity found,
the actions spent (capped at the budget it is compared with) and the pending approval.
`saved` is the last checkpoint row; a row is put at a step number fixed when `invoke`
starts, so a second driver's row can replace or be replaced: `behind` counts the rows
other drivers wrote beyond a driver's step. What tools find is chosen freely.
`RuleDecisions` is `RulePlanner.decide`; `LLMDecisions` is what `LLMPlanner` makes of
whatever `chat` comes back with: an answer its guards let through, one they turn into the
rule planner's, none, or an exception `chat` does not catch. `Raise` is an exception anywhere in a node or a
put, `Crash` the death of the process: the approval store is lost and the file stays.

**ControlPlane** puts the operators of an engagement around its graph. A call of
`start`, `approve`, `kill` or `audit_query` runs on a thread of its own and is the
driver of what it runs or resumes; `at[d]` is where in the call the thread is. It is
cut after the role check, after the effect on the approvals or the switch, and after
the record, in the code's order: `start` and `audit_query` record first, `approve` and
`kill` act first. `done`, `records` and `lost` tell what was done, what is on record
and whose record failed. While the switch is up the graph's steps are the denied ones
(`Denied`); what the switch does to a call in flight is SafetyPipeline's subject.

**JobServer.** `status` and `result` are the entries of `_JOBS`, `queue` is the pool's
queue, `running` and `step` say what each worker does. The event loop runs one handler
at a time (`handler`), and a handler is cut where a worker can come between: the entry
and the submission in `create_scan`; lookup, result and file in `get_report`.
Engagements return complete or interrupted as they like, and anything may raise.

**ToolResults** has an operator for each of the thirteen adapters, from a command's
result to a `ToolResult`. An output is reduced to whether it was cut off, to its form (one
document, records in lines, noise) and to its records; the tables of severity words and
their defaults are the code's. **AssetInventory** has the merge key and the merge of two
records of an asset; facts are named scalars or lists. **FindingLedger** has the merge of
findings and of a flow's rows, and the risk of a finding: CVSS and EPSS are integers
(tenths, hundredths), a tool gives a weakness always the same score and CVEs (`CvssOf`,
`CvesOf`), the local NVD mirror is a constant (`Mirror`), and the factor of an asset's
criticality is 1, which its default comes to and no caller changes. **DetectionOracle** the query, the verdict of a connector,
the best verdict, the time to detection, the index, the gaps, the coverage matrix and the
heat map.

**DetectionReport** is one engagement in the rule planner's order. A flow works through
`calls` one by one: `ToolCall` is one call, denied or allowed, with what the adapter makes
of the output, added to the flow's own report; `ReconEnds` and `ScanEnds` merge that into
the state and line up the observations; `ObserveNext` is one turn of the loop of
`_observe`; `Correlate` scores the findings with the detection status of that moment and
builds the attack paths; `Report` builds the bundle and what the handoff makes of it.
`Resume` is what follows an exception in the planner: the node of the last row is entered
again. Telemetry of other systems (`Log`) and time (`Tick`) come between any two steps.
Risks are integers, in ten-thousandths of a point. `spent` is `actions_spent`: when it
reaches the budget, `Decision` is to report, whatever is left to do. `wrote` is a history of what the allowed calls left.

**BaselineStore** is `ContinuousRunner.record` in several processes on one directory,
cut at each access to it: list the names, read the last, count, open (which empties),
write, count again. `Fail` is a process that dies anywhere, `Write` may leave the end
of a longer text behind. `DiffReports` is `diff_reports`.

**ScopeGuard** and **ScopedScan.** A host is what a string spells: a name (labels,
whether typed with upper case or a trailing dot), an address (a function from places to
bits, `Width` of them), a network (an address and a length), an item (a repository, a
cloud account), or a name or an address with a path behind it and no scheme (`whole`: the
guard takes all of it for the host); what the code does to strings (`lower`, `rstrip`,
`urlsplit`, `ip_network(strict=False)`) is an operator on those. ScopedScan gets its
rules from a file (`LoadFile`), from a request of the API (`Submit`, with
`_prepare_black_box` and `_build_roe`) or from `run_agent.py` (`RunAgent`), and points
recon at the targets, scan at the targets or at endpoints recon reported, the `run`
command at the allowlists of a file (`RunPhase`), and validation at anything, while time
goes on.

Definitions that begin with `\* Mutant:` are faulty variants of the definition below
them. They are not part of any specification; putting one in the place of the original
makes a run fail, which shows what each property is sensitive to.

## 3. The runs

| Run | Instance | Shows |
|---|---|---|
| `limited_actions` | 4 calls, 2 targets, cap 2, budget 3, clock 0..3 | `BudgetRespected`, `SlotAccounting` (no slot leaks; each failed call loses at most one), `ConcurrencyBoundedByFailures`, `RequestRateInOrder` |
| `pipeline` | 2 calls of seven kinds (out of scope, forbidden by the tool, by the profile, raising, passive, active with and without a request), one operator, one request, two names of which one is an approver, budget 1, one audit write that fails | `TrailMatchesCall`, `ActiveRunsWereApproved`, `EveryCallEnds` |
| `pipeline_limits` | 3 passing calls on one target, cap 1, budget 2, two ticks with the window open in the first, the switch thrown, reset and thrown again, one audit write that fails | `LimiterSpec` (refinement), `KillStopsNewCalls`, `RevocationStopsRunner` |
| `pipeline_ceiling` | 3 calls, cap 1 | violation of `ConcurrencyCeiling` |
| `audit_log` | two threads of one process, one of a second, up to 3 events each, writes that fail, processes that die | `MemoryChained`, `DiskFollowsMemory`, `SoleWriterIntact`, `TamperDetected` |
| `graph_faults` | one driver, a planner that answers anything, 2 requests, one exception or crash anywhere | `RunsSignedOff`, `HistoryRightWithoutFaults` |
| `graph_drivers` | two drivers, the rule planner, two resumes of a running engagement | `PendingMatchesRequest`, `PhasesRunOnce` |
| `control_plane` | an approver who may not start and an administrator who is no named approver; one start, two sign-offs and a kill on two threads, the rule planner, one exception or crash, records that fail | `ActsOnRecord`, `DriverStops`, `SignOffCompletes` |
| `jobs` | 3 jobs, 2 workers, one sign-off, one report request | `OnePlace`, `ReportWithStatus`, `StatusFlows`, `EveryJobEnds` |
| `report` | seven engagements of the three modes that use all thirteen tools between them, two of them with a budget that recon or the scan can use up, 2 weaknesses, 3 CVEs of which the mirror knows 2, two with an oracle (a connector that can block and one that cannot, 4 references on one host with two ports, one event of telemetry, 3 ticks), four with one resume | `ResultsMerged`, `RiskFollowsDetection`, `VerdictsCredited`, `HandoffTellsGaps` |
| `baselines` | 3 cycles, 1 key, 1 weakness, 2 tools, names that sort by number up to 2 files | `CyclesChain`, `DiffTellsChanges`, `AppendOnlyAlone` |
| `scope` | addresses of two bits, days of three minutes, names of one and two labels, at most one entry in a list, one path (which an exclusion matches, and which ends in a domain), requests of the three modes, runs of `run_agent.py` and files | `PassedIsAuthorised`, `OwnTargetsPass` |

A type invariant is checked with them in `limited_actions`, `pipeline`, `audit_log`,
`graph_faults`, `jobs` and `baselines`; the one of BaselineStore says besides that the
files are numbered without a gap.

*Bounds.* `MaxClock` bounds the clock: the limiter looks at differences of at most two
readings and a bucket is full after `Second` ticks, so a few ticks show an under-full,
a full and a moved-back bucket. Two calls suffice for a race between gates; three for
the double release (one fails, one holds, one is let in). `MaxLost` bounds the
audit writes that fail; one of them shows each way out of a call. `MaxResets` bounds the resets
of the switch; one reset shows the switch up while the runner stays revoked. In
`AuditLog` `MaxEvents` bounds each process' events; the links only compare neighbours.
In `EngagementGraph` `MaxActions` and `MaxSteps` bound the budget and the steps of a
flow, `MaxFaults` and `MaxOverlaps` the exceptions, crashes and resumes of a running
engagement; ids are never reused, so `Requests` bounds the approvals of an instance.
In `ControlPlane` `MaxCalls` bounds the calls of each act. One start, because every
start may want a request of its own: with two sign-offs, an approval and the denial
after it, one thread can sign off while the other records or runs; `MaxOverlaps` is 0
there, resumes of a running engagement being the subject of `graph_drivers`. A query
takes the path of a start up to its record, and is bounded to none.
In `JobServer` three jobs are the least that leave one waiting behind two workers,
`MaxApprovals` is the code's own `max_approvals`, and `MaxReports` bounds the requests
for a report. In `DetectionReport` `MaxEvents` bounds the telemetry: a verdict is
decided by the strongest event of the strongest source, so one event at any moment,
of either source, makes every verdict and every change of it between observations.
Each tool leaves a few outputs that its adapter tells apart: words it knows and words it
does not, forms it reads and forms it does not, runs that were cut off; nuclei and the
tools that share a mode with it report the same weakness in different words. `resumes`
is in the setup of an engagement; one resume enters each node again once. Those
with an oracle have no resume; two results under one key come of the two targets of one,
which are on one host. Budgets of 2 and 3 are used up by recon entered again or by the scan,
or not at all when calls are denied; 9 only by the scan of many endpoints. In `BaselineStore`
`Limit` stands for the 10,000 files whose names sort by number; with 2, the third cycle is
the last that reads them in order, which is as far as `CyclesChain` claims anything, and no
cycle of the run reads past the limit. Two bits are the fewest that have a network inside a
network and a network beside one; the third minute is the day's last.

*Symmetry* is used on interchangeable calls, targets, items, requests, drivers,
payloads, cycles and tools, in runs without liveness properties only.

*Deadlock.* The runs allow terminal states: all calls returned, the engagement
complete, every job final and no further request, every cycle done. (`scope` goes on
for ever.) That running things do not get stuck is what `EveryCallEnds`, `DriverStops`,
`SignOffCompletes` and `EveryJobEnds` say.

## 4. Fairness

* `SafetyPipeline`: weak fairness of each call's next step inside `execute` and of the
  hooks of an `engage` that began. A thread is scheduled sooner or later, the lock of
  every object is held for a few statements, and the process of a tool is bounded by
  the runner's timeout. Nothing obliges anybody to call `execute`, to throw or reset
  the switch or to answer a request.
* `ControlPlane`: weak fairness of a thread's next step in the call it serves, the steps
  of the graph it drives included (that a node returns is `EveryCallEnds`). Nobody has
  to call, to sign off, or to fail; an engagement that was signed off is resumed because
  `approve` itself ends in `resume` (`api/control_plane.py:45`).
* `JobServer`: weak fairness of a handler that has begun and of each worker. That an
  engagement comes back from `run` and `resume` is `DriverStops`.

Safety runs use specifications without fairness.

## 5. The proofs

| Theorems | Say |
|---|---|
| `LimitedActionsProofs!TypeCorrect`, `BudgetHolds`, `SlotsAccounted`, `ConcurrencyBounded`, `RateHolds` | the invariants of run `limited_actions`, the request rate included |
| `SafetyPipelineProofs!TypeCorrect`, `TrailsMatch`, `ActiveRunsApproved`, `BudgetHolds`, `KillStops`, `RevocationStops` | the safety properties of the two pipeline runs, and the budget |
| `SafetyPipelineProofs!ImplementsLimitedActions` | `Spec => LimiterSpec`: the pipeline implements LimitedActions |
| `AuditLogProofs!AuditTypeOK`, `MemoryStaysChained`, `FileFollowsMemory`, `SoleFileVerifies`, `TamperingIsDetected` | the invariants of run `audit_log`; the last one for a hash without collisions |
| `EngagementGraphProofs!GraphTypesHold`, `PendingRequestMatches`, `SignedOffRuns`, `PhasesOnce`, `HistoryRight` | the invariants of the two graph runs, for any number of drivers, requests, faults and overlaps and for either planner |
| `EngagementGraphProofs!WhatWasDoneIsOnRecord`, `PendingMatchesUnderControl` | `ActsOnRecord`, and `PendingMatchesRequest` of a graph that operators drive |
| `JobServerProofs!JobTypesHold`, `JobInOnePlace`, `JobReportWithStatus`, `JobStatusFlows` | the safety properties of run `jobs` |
| `BaselineStoreProofs!FilesNumbered`, `EachCycleFollowsTheLast`, `DiffIsRight`, `NothingIsWrittenOver` | the properties of run `baselines` |
| `ScopedScanProofs!SubnetIsContainment`, `WhatPassesIsAuthorised`, `AskedTargetsPass` | that the guard's comparison of networks is containment of their addresses, and the invariants of run `scope`, for addresses of any width and any requests and files |
| `DetectionReportProofs!ReportTypes`, `ResultsAreMerged`, `RiskFollows`, `VerdictsFollowTelemetry`, `HandoffTellsTheGaps` | the types and the invariants of run `report`, for any plans, outputs, denials, resumes and telemetry |

The lemmas about the limiter's operators (what a bucket is after a refill, an acquire and
a release) are in `LimitedActionsProofs`; the pipeline has the same limiter, so
`SafetyPipelineProofs` takes them from an instance of that module (`LimiterLemmas`), which
is also the abstraction of the refinement. `EngagementGraphProofs` is about ControlPlane
too, since the two share the lemmas on the graph's steps.

*Assumptions.* The named ASSUMEs of the modules: the sets of calls and of drivers are
finite (cardinalities count them), the limits are natural numbers, a token is at least one
unit, model values such as `NoBucket` are not buckets, approvers are names. Besides,
`TamperingIsDetected` states its own assumption `CollisionFree`, what sha256 is taken for:
two payloads in one place of a chain have different hashes.

The proofs of ScopedScan assume what the loader and the server make sure of
(`FilesAssumption`, `RequestsAssumption`: the fields of a file or a request are of the
kinds their models in `config/models.py` and `api/service.py` ask for), and that there is a
value for "no rules yet" (`NoRoeAssumption`). Those of DetectionReport assume that a plan of
recon names adapters of recon (`SetupsAssumption`), that scores are numbers and the mirror
is finite (`LedgerAssumption`), that outputs speak of the weaknesses
and references of the instance, end, and that a tool calls by one name always a list or
never one (`OutputsAssumption`: an adapter writes a key of `tech` in one form; the `technologies` of
httpx are a list, those of whatweb nested facts under names of their own),
that `RefOrder` lists the references (`ReportAssumption`), and that references with one
root are on one host (`OracleAssumption`: `_asset_root` keeps the host).

*Limiter.* `SlotAccounting` and `ConcurrencyBoundedByFailures` are not inductive: a
call between its two releases has given one slot back and will give back another that
may belong to somebody else. `CountInv` therefore counts, for each target, the calls
that hold a slot, the ones between their releases and the failed ones, and bounds
`in_flight` from both sides by them; the lemmas `AdmitSets`, `EndSets` and
`FailAgainSets` say how these sets change, `CountNext` that each action keeps the
bounds. For the rate, `PaidAt` looks back from the bucket's time to any earlier moment: the
tokens of the calls admitted since, and those left, are at most the burst and what was
refilled since. An acquire with a time no older than the bucket's pays from the bucket,
and a refill is either the interval's or stops at the burst, which keeps it.

*Pipeline.* `TrailInv` ties the lines on file to the step a call is at, whichever writes
failed, and says that a denial was noted only for calls that were denied. `ApprovalInv` says that
calls past the approval gate were approved once and that an approved request in the
store was approved by an approver. `BudgetInv` identifies `totalActions` with the
calls past the gates. `KillInv` keeps, while the switch is up, every call past the
check in `graceKill` (likewise for the runner), which with `OnlySpawnStarts` (only
`Spawn` starts a tool) gives the two action properties. The refinement is proved step
by step: each step of a call maps to one step of LimitedActions or leaves its
variables alone.

*Audit log.* `ChainInv` adds to the chain that at most the lock's owner is inside
`append`, and that its draft fits the end of the list from the moment it is linked
until it is pushed. `FileInv` adds that each line is an event of its writer at its number,
in order, and that whoever is about to write holds the last event of its process
(`Unsaved`); for a process that alone wrote the file and never failed, the file is its list
but for that event (`Whole`), and a prefix of a chain that verifies does so too.

*Engagement graph.* `OrderInv` says that every pending approval, of a driver or of the row,
is one that was issued, for the item it was issued for, and that tools ran only for such
requests and only when an approver had approved them. What is counted needs more, since a
second driver can go on from the same row. A driver holds a token for a phase when it goes
on and has not chosen that phase yet, or is about to run it (`MayRun`), and one for a
request it holds as pending (`MayUse`); the row holds one when nobody will write over it
(`RowMayRun`, `RowMayUse`). `PhaseInv` and `UseInv` say that runs and tokens together never
exceed one and the faults and overlaps: a run spends a token, a crash leaves the row's where
the driver's was, and only a fault or an overlap makes one more. `AloneInv` is the same
picture without either: one driver, whose history and row hold what ran.

*Control plane.* Each of its steps is a step of the graph, a stutter of it or the start of a
running engagement (`GraphOf`, `BeginKeeps`), so `OrderInv` carries over. `CallInv` says
what a thread at each point of a call has shown and done, `DoneInv` that what was done is
on record, is about to be or lost its record, and `TouchInv` that a driver goes on with a
request only after a sign-off that is on record.

*Job server.* `WorkerInv` ties the status of a worker's job to its step, `PlaceInv` says
that queue, workers and handler exclude each other, `ReportInv` what was written by when.

*Baselines.* `PlaceInv` says where the files of a cycle in record are, `AloneInv` (while no
two cycles overlapped) that the newest file is the bundle written last, or one that a cycle
opened and died over. Here and for `HistoryRight` the invariant is an implication whose
premise, once false, stays so.

*Scope.* A network is the set of addresses that agree with it on its first bits, and
`SubnetIsContainment` turns the comparison of `_in_scope` (length and masked address) into
containment of these sets, for any width. That what passes is authorised (or a string that
ends in a listed domain, `EndsUnderDomain`) follows the cases of the
guard (`ScopeIsGranted`, `TargetIsGranted`) for any ROE whose lists can be read, which
`RoeInv` says of each of the three ways of getting one. That an asked target passes needs
`AskedInv`: what the guard makes of the target is on a list but for case, because
`_prepare_black_box` took it apart to put it there, and the all-day window is open.

*Report.* The properties rest on four inductive invariants beside `TypeOK`.

- `MergedInv`: there is a moment in the history of allowed calls (`wrote`) up to which the
  state's inventory and ledger hold what was told and after which the flow's do;
  when a flow ends the two parts join (`MergedAll`), and the next one begins with an empty
  second part. An inventory or a ledger is described by the set
  of everything told so far (`InventoryTells`, `LedgerTells`): the highest severity, the id
  and the service of who told first, the score that was given first, the union of the lists. `AddAssetsTells` and `AddAllTells`
  say that a merge of one call's result takes one such description to the next. The assets
  of a result are folded in in any order; `FoldInduction` states induction over a finite
  set for a set of sets in the place of a predicate, and is proved from the cardinality.
- `RiskInv` follows the phases: nothing is scored before correlate, and after it the
  ledger no longer grows, and a score is still that of its root's verdict unless the
  validation observed that root; without correlate there is no score, and a ledger with
  findings means that the budget was used up (`DecisionRight`), for good since it is never
  given back (`SpentGrows`). That the risk falls with a better verdict and does not with a
  higher base score or EPSS (`RiskOrders`) does the rest.
- `ObservationsInv`: telemetry only grows, so of two observations of one root the later is no
  worse; with it the last result under a key of the index is the best.
- `ReportBuilt`: once built, the report is that of the final state.

`VerdictsCredited` is inductive as it stands: a verdict is credited when it is made
(`ObservationCredited`), and stays so since telemetry only grows (`CreditStays`).

For these proofs the operators are closed forms where the code loops: a ledger or an
inventory to which another is added (`AddRows`, `AddInventory`), the calls of a plan
by their number (`Calls`), the references of the findings by their place (`FindingRefs`),
the counts of the heat map as cardinalities.

*Only model-checked:* everything under fairness (`EveryCallEnds`, `DriverStops`,
`SignOffCompletes`, `EveryJobEnds`: liveness and ENABLED are out of the prover's reach).
Every invariant and every action property of the runs is a theorem.

## 6. Where code and documents part

Shown by a run:

* `pipeline_ceiling`: a call whose tool or parser raises releases its slot twice
  (`safety/pipeline.py:177` and `:194`), so one more call than the cap is let in, against
  `docs/FRS.md:183-184`. What holds instead is `ConcurrencyBoundedByFailures`.

Seen while modelling, and built into the models. The limiter, the switch and the log:

* `acquire` sets `last` to an older clock value than the bucket's own when threads enter
  it in another order than they read the clock; the next call is credited the interval
  twice and the rate of `safety/rate_limiter.py:4` is exceeded. `RequestRateInOrder`
  has the proviso under which it holds.
* A refused call changes the limiter (it creates or refills a bucket), though the
  docstring at `safety/rate_limiter.py:45` says it does not mutate state on denial.
* `docs/FRS.md:189` says no new tool executes after the kill, `SAFETY.md:43` that one
  call halts everything in flight. A call past the check at `safety/pipeline.py:120`
  still starts its tool until the runner is revoked, and a process that runs is left
  to end. What holds: `KillStopsNewCalls`, `RevocationStopsRunner`.
* After `reset` the switch is down and the runner stays revoked: calls are let through
  and every one of them fails in the runner.
* An audit write that fails leaves no slot taken: `tool.exec` is written inside the `try`
  block (`TrailMatchesCall`, `LimiterSpec`). But a denial, an error or a result whose record
  fails raises out of `execute`, although its docstring says denials are returned, never
  raised; a tool that ran then leaves no `tool.result`, and its result is lost.
* The module docstring of the pipeline and `ARCHITECTURE.md:241-256` list the kill
  switch last; the code checks it first. The model follows the code.
* A second process of an engagement continues the audit file from sequence number 0 and
  the genesis hash (`safety/audit.py:64`): the file no longer verifies although nobody
  tampered (`docs/HLD_LLD.md:217-218`). What holds: `SoleWriterIntact`.

The graph and its operators:

* After a crash or an exception between the planner's row and the phase it chose, the
  resumed run takes the phase for done and skips it (`graph/build.py:109`,
  `docs/FRS.md:264-265`). What holds: `HistoryRightWithoutFaults`, `PhasesRunOnce`.
* A model that keeps proposing a denied validation sends the run from planner to gate
  and back for ever (`llm/planner.py:123`), while `docs/FRS.md:290` has the engagement
  complete. What holds: `SignOffCompletes` for the rule planner.
* `LLMClient.chat` catches URL errors, timeouts and JSON it cannot read. Other errors while
  the answer is read, and JSON that is not an object, raise out of the planner, though
  `llm/client.py:111-113` has callers "fall back rather than crash".
* `run_agent.py` names the engagement and its checkpoint file after the host (`a.b` and
  `a-b` share one), and a rerun starts over in the same history.
* `WORKFLOW.md:109` says a parked run survives restarts until a named human approves.
  The request it waits for is in memory only; after a restart `resolve` does not know it.
* Refused attempts are not recorded, though `safety/rbac.py:4` calls every attempt
  auditable and `api/control_plane.py:4` every action recorded: `require` raises before
  `_record`.
* A sign-off and a kill take effect before their record is written. When the append
  raises, the engagement is signed off and not resumed. `SignOffCompletes` has the
  proviso.
* A second `start` begins a new state in the same checkpoint history; the sign-off of
  the first run's request then does nothing for the second.
* `get_report` answers 409 also for a job in error, whose report will never be ready
  (`docs/WEBSITE_INTEGRATION.md:169` reads it as "before the job finished").

What is made of the results:

* A scan node that is entered again by a resume merges rows, and `_merge_into` adds only the
  tool that reported a row first: the other contributing tools are lost, against
  `scan/findings.py:6-7`, "records every contributing tool". `ResultsMerged` has the
  proviso.
* Assets that httpx, whatweb and nmap report never share a merge key (httpx: host, port,
  scheme; whatweb: the URL, no port; nmap: address and port), so one endpoint stands in the
  inventory more than once and is scanned under each address, against the "one normalised
  surface" of `recon/assets.py`.
* No adapter looks at the exit code. Output that cannot be read is an error for nmap and
  "no results" for the others; nikto's filter of untitled items drops none.
* `gobuster.build_command` without a word list raises out of the flow, against "Denied or
  errored steps are recorded, never fatal" in `recon/flow.py`.
* An action whose only alert came before it, within the lead of the window, is DETECTED
  without a time (`VerdictsCredited`).
* The oracle is asked about `action_time`, which is the moment the graph was built
  (`graph/build.py:61`) and not that of the action: what is recorded after the window
  that starts there reads as MISSED, and times to detect count from that moment. The
  technique is passed to the query and not used; hosts match when one is part of the
  other's name.
* An engagement whose budget is used up before correlate reports findings without a risk,
  an attack path or a ticket (`llm/planner.py:48`), whatever their severity or detection.
  `RiskFollowsDetection` has the case.
* "An undetected medium can outrank a detected high" (`intel/risk.py:4`), but not
  always: a score or an EPSS of its own can outweigh the detection.
  `RiskFollowsDetection` compares findings of which one has no lower base score and EPSS.
* Denied actions are observed like others, and count as gaps of detection.
* Neither `cli.py` nor `api/service.py` passes an oracle, so there the detection parts
  of the report are empty.
* An LLM planner may correlate before it scans; the findings of that scan are never
  scored, since correlate is not repeated.
* The id of a finding depends on the tool that reported it first. In the next cycle a
  finding that another tool reported first is both new and resolved
  (`DiffTellsChanges` says so).
* A baseline that was torn by a crash makes `latest` raise in every later cycle.
  Cycles that overlap take the same number and overwrite each other, against
  "Append-only" at `continuous/baseline.py:94`. Past 9999 the names no longer sort by
  number. What holds: `CyclesChain` and `AppendOnlyAlone`, with their provisos.

The scope:

* Exclusions are compared as strings: a host that is excluded in another case, with a
  trailing dot or inside a network passes, though "Exclusions always win"
  (`safety/scope_guard.py:10`). `PassedIsAuthorised` claims it for plainly typed hosts.
* A target with a path and no scheme is not taken apart (`safety/scope_guard.py:168-172`,
  although the docstring says "bare hosts"): the host is the whole string and the path is
  None. Where a listed domain is what the path ends in after a dot, the string is matched
  like a subdomain of it (`:131-134`), whatever its host, and no exclusion of a path is
  looked at; an item is compared with the domains likewise. Every other such target is
  denied, also on an allowed host. Gobuster reports such endpoints for a bare target, and
  an LLM planner can name one; a request cannot, since the path of its target is cut off
  (`api/service.py:236`, `run_agent.py:67`). `PassedIsAuthorised` has the exception and says what passes under it.
* The all-day window of a request ends at 23:59 and leaves that minute out; a window
  that crosses midnight never matches.
* A domain with a trailing dot matches nothing, so a request for one is denied as a
  whole (`OwnTargetsPass` has the exception). Domains with a port match nothing either;
  an IPv6 target with a port is cut in the wrong place and denied.

## 7. What is not modelled

* Rounding of floats in the limiter and of a risk to one digit (the priority is that of the
  unrounded one); a line of the audit file torn by a crash; two threads in the unlocked reads of an `ApprovalRequest` after `get`.
* `InMemoryCheckpointer` (it shares mutable state with its callers; tests only).
* Dry runs are runs whose process does nothing; the fields of events and the text of
  reports are left out.
* The profile guard under another profile: rules of engagement cannot name one.
* The server does not survive a restart and neither does the model's job table.
  BaseExceptions in a worker (an exit of the interpreter) are left out; so is the poll
  handler, which only reads.
* In the scope: ports, IP versions, leading dots, `Target.ip` (no caller sets it), the
  `--path` of the command `scope-check`; entries of the lists of domains and CIDRs that have
  a path; an item that is spelled like a name. `check_target` raises a `ValueError` for a
  malformed URL (unbalanced brackets), which leaves `execute` with no record but the
  proposal's; the scope step of SafetyPipeline and `CheckTarget` have no such exit.
* In the results: the command lines adapters build; two records of one output about the
  same asset or weakness with different facts are told apart by their words only; nested
  facts of `tech` are named by their path; evidence and ATT&CK techniques of a finding,
  which are merged as its CVEs are; percentages.
* The text verifier of `llm/verifier.py`: a search for CVE ids whose result only the report
  shows. Metrics: counters. The loaders of the tool registry and the settings: parsing.
* The evidence store: files named by their digest, written once. A file that exists is
  taken for whole, also one that another process is writing or died over. A failing `put`
  is part of `Finish` in SafetyPipeline.

## 8. Plan

Done, in this order: RateLimiter and LimitedActions with their proofs; KillSwitch,
ApprovalStore and SafetyPipeline with the refinement and its proofs; AuditLog;
EngagementGraph; JobServer; the ledger, the oracle and the report; BaselineStore; ScopeGuard
and ScopedScan; ControlPlane; the adapters and the inventory under DetectionReport; the
proofs of every safety property of LimitedActions, SafetyPipeline, AuditLog,
EngagementGraph, ControlPlane, JobServer, BaselineStore, ScopedScan and DetectionReport;
audit writes that fail inside `execute`.

Next, in the model:

1. The evidence store (a file that exists and is still being written), with what the report
   refers to.
2. An abstract specification of an engagement (parked, running, complete) that
   EngagementGraph implements, for JobServer and ControlPlane to stand on.

Next, in the proofs: the refinement of point 2, and with it `RunsSignedOff` for the
abstract engagement.
