--------------------------- MODULE JobServerProofs ---------------------------
(***************************************************************************)
(* Theorems about JobServer, for any jobs, workers and bounds: the types,  *)
(* the place of a job, what its status says, and how the status moves.     *)
(***************************************************************************)
EXTENDS JobServer, SequenceTheorems, FiniteSetTheorems, TLAPS

Working == {"building", "deciding", "resuming", "finishing"}

\* A worker has a job when it does not wait, and the status of that job is set when
\* _execute starts; an outcome is there to decide on.
WorkerInv ==
  \A w \in Workers :
    /\ running[w] = NoJob <=> step[w] = "waiting"
    /\ step[w] = "starting" => status[running[w]] = "queued"
    /\ step[w] \in Working => status[running[w]] = "running"
    /\ step[w] \in {"deciding", "resuming", "finishing"} => outcome[w] # "none"

InQueue(j) == \E i \in 1..Len(queue) : queue[i] = j
AtWork(j) == \E w \in Workers : running[w] = j
Submitted(j) == handler = [job |-> j, at |-> "submit"]

\* The places a job can be in exclude each other, and it is in one while it is queued or
\* running.
PlaceInv ==
  /\ \A i, k \in 1..Len(queue) : queue[i] = queue[k] => i = k
  /\ \A w, v \in Workers : running[w] = running[v] /\ running[w] # NoJob => w = v
  /\ \A j \in Jobs :
       /\ InQueue(j) => status[j] = "queued" /\ ~AtWork(j) /\ ~Submitted(j)
       /\ Submitted(j) => status[j] = "queued" /\ ~AtWork(j)
       /\ AtWork(j) => status[j] \in {"queued", "running"}
       /\ status[j] = "queued" => InQueue(j) \/ AtWork(j) \/ Submitted(j)
       /\ status[j] = "running" => AtWork(j)

\* What ReportWithStatus needs of the workers and of the handler.
ReportInv ==
  /\ \A j \in Jobs : status[j] \in {"complete", "interrupted"} <=> result[j]
  /\ \A j \in Jobs : result[j] => j \in written
  /\ \A j \in Jobs : status[j] = "interrupted" => approvals[j] = MaxApprovals
  /\ \A j \in Jobs : reply[j] # "500"
  /\ handler.at = "file" => handler.job \in Jobs /\ result[handler.job]
  /\ \A w \in Workers : step[w] = "finishing" =>
       /\ running[w] \in written
       /\ outcome[w] = "complete" \/ approvals[running[w]] = MaxApprovals

JobInv == TypeOK /\ WorkerInv /\ PlaceInv /\ ReportInv

LEMMA JobInit == Init => JobInv
<1> SUFFICES ASSUME Init PROVE JobInv
  OBVIOUS
<1>1. Len(<<>>) = 0 /\ <<>> \in Seq(Jobs) /\ 1..0 = {}
  OBVIOUS
<1>2. TypeOK
  BY <1>1, JobAssumption DEF Init, TypeOK, Idle
<1>3. WorkerInv
  BY <1>1 DEF Init, WorkerInv, Working
<1>4. PlaceInv
  BY <1>1, JobAssumption DEF Init, PlaceInv, InQueue, AtWork, Submitted, Idle
<1>5. ReportInv
  BY DEF Init, ReportInv, Idle
<1> QED BY <1>2, <1>3, <1>4, <1>5 DEF JobInv

LEMMA JobTypes == JobInv /\ [Next]_vars => TypeOK'
<1> SUFFICES ASSUME JobInv, [Next]_vars PROVE TypeOK'
  OBVIOUS
<1> USE DEF tableVars, workVars, httpVars
<1>1. TypeOK /\ WorkerInv
  BY DEF JobInv
<1>2. ASSUME NEW j \in Jobs, CreateScan(j) \/ Submit(j) \/ AskReport(j) \/ ReadResult(j) \/ ReadReport(j)
      PROVE  TypeOK'
  <2>1. CASE CreateScan(j)
    BY <1>1, <2>1 DEF TypeOK, CreateScan
  <2>2. CASE Submit(j)
    BY <1>1, <2>2 DEF TypeOK, Submit, Idle
  <2>3. CASE AskReport(j)
    <3>1. reports' \in 0..MaxReports
      BY <1>1, <2>3, JobAssumption DEF TypeOK, AskReport
    <3>2. handler' \in [job : Jobs \cup {NoJob}, at : {"idle", "submit", "result", "file"}]
      BY <1>1, <2>3 DEF TypeOK, AskReport
    <3>3. reply' \in [Jobs -> {"none", "404", "409", "500", "200"}]
      BY <1>1, <2>3 DEF TypeOK, AskReport
    <3> QED BY <1>1, <2>3, <3>1, <3>2, <3>3 DEF TypeOK, AskReport
  <2>4. CASE ReadResult(j)
    <3>1. handler' \in [job : Jobs \cup {NoJob}, at : {"idle", "submit", "result", "file"}]
      BY <2>4 DEF ReadResult, Idle
    <3>2. reply' \in [Jobs -> {"none", "404", "409", "500", "200"}]
      BY <1>1, <2>4 DEF TypeOK, ReadResult
    <3> QED BY <1>1, <2>4, <3>1, <3>2 DEF TypeOK, ReadResult
  <2>5. CASE ReadReport(j)
    BY <1>1, <2>5 DEF TypeOK, ReadReport, Idle
  <2> QED BY <1>2, <2>1, <2>2, <2>3, <2>4, <2>5
<1>3. ASSUME NEW w \in Workers, Work(w) PROVE TypeOK'
  <2>1. running[w] # NoJob => running[w] \in Jobs
    BY <1>1 DEF TypeOK
  <2>2. step[w] # "waiting" => running[w] \in Jobs
    BY <1>1, <2>1 DEF WorkerInv
  <2>3. CASE TakeJob(w)
    BY <1>1, <2>3 DEF TypeOK, TakeJob, Goto
  <2>4. CASE MarkRunning(w) \/ RunEngagement(w) \/ Resume(w) \/ WriteReport(w)
    <3>1. CASE MarkRunning(w)
      BY <1>1, <2>2, <3>1 DEF TypeOK, MarkRunning, Goto
    <3>2. CASE RunEngagement(w) \/ Resume(w)
      <4>1. step' = [step EXCEPT ![w] = "deciding"]
        BY <3>2 DEF RunEngagement, Resume, Return, Goto
      <4>2. PICK o \in {"complete", "interrupted"} : outcome' = [outcome EXCEPT ![w] = o]
        BY <3>2 DEF RunEngagement, Resume, Return
      <4>3. outcome' \in [Workers -> {"none", "complete", "interrupted"}]
        BY <1>1, <4>2 DEF TypeOK
      <4>4. UNCHANGED <<tableVars, queue, running, approvals, written, httpVars>>
        BY <3>2 DEF RunEngagement, Resume, Return
      <4> QED BY <1>1, <4>1, <4>3, <4>4 DEF TypeOK
    <3>3. CASE WriteReport(w)
      BY <1>1, <2>2, <3>3 DEF TypeOK, WriteReport, Goto
    <3> QED BY <2>4, <3>1, <3>2, <3>3
  <2>5. CASE SignOff(w)
    BY <1>1, <2>2, <2>5, JobAssumption DEF TypeOK, SignOff, Goto
  <2>6. CASE Finish(w)
    <3>1. outcome[w] \in {"complete", "interrupted"}
      BY <1>1, <2>6 DEF TypeOK, WorkerInv, Finish
    <3> QED BY <1>1, <2>2, <2>6, <3>1 DEF TypeOK, Finish, Done, Final
  <2>7. CASE Fail(w)
    BY <1>1, <2>2, <2>7 DEF TypeOK, Fail, Done, Final
  <2> QED BY <1>3, <2>3, <2>4, <2>5, <2>6, <2>7 DEF Work
<1>4. CASE UNCHANGED vars
  BY <1>1, <1>4 DEF vars, TypeOK
<1> QED BY <1>2, <1>3, <1>4 DEF Next, Handle

\* A step of the event loop that leaves the table and the pool alone disturbs neither
\* the workers nor the places, unless it starts or ends a submission.
LEMMA QueueAppended ==
  ASSUME NEW S, NEW q \in Seq(S), NEW x \in S
  PROVE  /\ Len(Append(q, x)) = Len(q) + 1 /\ Len(q) \in Nat
         /\ \A i \in 1..Len(q) : Append(q, x)[i] = q[i]
         /\ Append(q, x)[Len(q) + 1] = x
  OBVIOUS

LEMMA QueueTaken ==
  ASSUME NEW S, NEW q \in Seq(S), q # <<>>
  PROVE  /\ Len(q) \in Nat /\ Len(q) >= 1 /\ Head(q) = q[1] /\ Head(q) \in S
         /\ Len(Tail(q)) = Len(q) - 1
         /\ \A i \in 1..(Len(q) - 1) : Tail(q)[i] = q[i + 1]
  OBVIOUS

\* What a worker may take for granted of the job it runs.
LEMMA JobAtWork ==
  ASSUME JobInv, NEW w \in Workers, step[w] # "waiting"
  PROVE  /\ running[w] \in Jobs /\ running[w] # NoJob
         /\ \A v \in Workers : running[v] = running[w] => v = w
         /\ ~InQueue(running[w]) /\ ~Submitted(running[w])
  <1>1. running[w] \in Jobs /\ running[w] # NoJob
    BY DEF JobInv, TypeOK, WorkerInv
  <1>2. AtWork(running[w])
    BY DEF AtWork
  <1> QED BY <1>1, <1>2 DEF JobInv, PlaceInv

LEMMA JobWorkers == JobInv /\ [Next]_vars => WorkerInv'
<1> SUFFICES ASSUME JobInv, [Next]_vars PROVE WorkerInv'
  OBVIOUS
<1> USE DEF tableVars, workVars, httpVars
<1>1. TypeOK /\ WorkerInv /\ PlaceInv
  BY DEF JobInv
<1>2. ASSUME NEW j \in Jobs, CreateScan(j) PROVE WorkerInv'
  <2>1. \A w \in Workers : step[w] \in {"starting"} \cup Working => running[w] # j
    BY <1>1, <1>2 DEF WorkerInv, CreateScan, Working
  <2> QED BY <1>1, <1>2, <2>1 DEF TypeOK, WorkerInv, CreateScan, Working
<1>3. ASSUME NEW j \in Jobs, Submit(j) \/ AskReport(j) \/ ReadResult(j) \/ ReadReport(j)
      PROVE  WorkerInv'
  <2>1. UNCHANGED <<status, running, step, outcome>>
    BY <1>3 DEF Submit, AskReport, ReadResult, ReadReport
  <2> QED BY <1>1, <2>1 DEF WorkerInv
<1>4. ASSUME NEW w \in Workers, TakeJob(w) PROVE WorkerInv'
  <2>1. Head(queue) = queue[1] /\ Len(queue) >= 1 /\ Len(queue) \in Nat /\ Head(queue) \in Jobs
    BY <1>1, <1>4, QueueTaken DEF TypeOK, TakeJob
  <2>2. InQueue(Head(queue))
    BY <2>1 DEF InQueue
  <2>3. status[Head(queue)] = "queued"
    BY <1>1, <2>1, <2>2 DEF PlaceInv
  <2> QED BY <1>1, <1>4, <2>1, <2>3, JobAssumption DEF TypeOK, WorkerInv, TakeJob, Goto, Working
<1>5. ASSUME NEW w \in Workers, MarkRunning(w) PROVE WorkerInv'
  <2>1. running[w] \in Jobs /\ \A v \in Workers : running[v] = running[w] => v = w
    BY <1>5, JobAtWork DEF MarkRunning, Goto
  <2>2. \A v \in Workers \ {w} : step'[v] = step[v] /\ (running[v] # running[w])
    BY <1>1, <1>5, <2>1 DEF TypeOK, MarkRunning, Goto
  <2>3. step'[w] = "building" /\ step[w] = "starting" /\ status'[running[w]] = "running"
    BY <1>1, <1>5, <2>1 DEF TypeOK, MarkRunning, Goto
  <2>4. \A v \in Workers \ {w} : status'[running[v]] = status[running[v]]
    BY <1>1, <1>5, <2>1, <2>2 DEF TypeOK, MarkRunning
  <2>5. UNCHANGED <<running, outcome>>
    BY <1>5 DEF MarkRunning
  <2> QED BY <1>1, <2>2, <2>3, <2>4, <2>5 DEF WorkerInv, Working
<1>6. ASSUME NEW w \in Workers, RunEngagement(w) \/ SignOff(w) \/ Resume(w) \/ WriteReport(w)
      PROVE  WorkerInv'
  <2>1. UNCHANGED <<status, running>>
    BY <1>6 DEF RunEngagement, SignOff, Resume, Return, WriteReport
  <2>2. CASE RunEngagement(w) \/ Resume(w)
    <3>1. step[w] \in {"building", "resuming"} /\ step' = [step EXCEPT ![w] = "deciding"]
      BY <2>2 DEF RunEngagement, Resume, Return, Goto
    <3>2. PICK o \in {"complete", "interrupted"} : outcome' = [outcome EXCEPT ![w] = o]
      BY <2>2 DEF RunEngagement, Resume, Return
    <3> QED BY <1>1, <2>1, <3>1, <3>2 DEF TypeOK, WorkerInv, Working
  <2>3. CASE SignOff(w)
    BY <1>1, <2>1, <2>3 DEF TypeOK, WorkerInv, SignOff, Goto, Working
  <2>4. CASE WriteReport(w)
    BY <1>1, <2>1, <2>4 DEF TypeOK, WorkerInv, WriteReport, Goto, Working
  <2> QED BY <1>6, <2>2, <2>3, <2>4
<1>7. ASSUME NEW w \in Workers, Finish(w) \/ Fail(w) PROVE WorkerInv'
  <2>1. /\ running[w] \in Jobs /\ running[w] # NoJob
        /\ \A v \in Workers : running[v] = running[w] => v = w
    BY <1>7, JobAtWork DEF Finish, Fail
  <2>2. /\ step' = [step EXCEPT ![w] = "waiting"]
        /\ running' = [running EXCEPT ![w] = NoJob]
        /\ outcome' = [outcome EXCEPT ![w] = "none"]
    BY <1>7 DEF Finish, Fail, Done
  <2>3. \A j \in Jobs : j # running[w] => status'[j] = status[j]
    BY <1>1, <1>7 DEF TypeOK, Finish, Fail
  <2>4. \A v \in Workers \ {w} : step[v] # "waiting" => running[v] \in Jobs
    BY <1>1 DEF TypeOK, WorkerInv
  <2> QED BY <1>1, <2>1, <2>2, <2>3, <2>4 DEF TypeOK, WorkerInv, Working
<1>8. CASE UNCHANGED vars
  BY <1>1, <1>8 DEF vars, WorkerInv
<1> QED BY <1>2, <1>3, <1>4, <1>5, <1>6, <1>7, <1>8 DEF Next, Handle, Work

LEMMA JobPlaces == JobInv /\ [Next]_vars => PlaceInv'
<1> SUFFICES ASSUME JobInv, [Next]_vars PROVE PlaceInv'
  OBVIOUS
<1> USE DEF tableVars, workVars, httpVars
<1>1. TypeOK /\ WorkerInv /\ PlaceInv
  BY DEF JobInv
<1>2. ASSUME NEW j \in Jobs, CreateScan(j) PROVE PlaceInv'
  <2>1. /\ \A k \in Jobs : InQueue(k)' <=> InQueue(k)
        /\ \A k \in Jobs : AtWork(k)' <=> AtWork(k)
        /\ \A k \in Jobs : Submitted(k)' <=> k = j
        /\ \A k \in Jobs : ~Submitted(k)
        /\ \A k \in Jobs : status'[k] = IF k = j THEN "queued" ELSE status[k]
    BY <1>1, <1>2 DEF CreateScan, InQueue, AtWork, Submitted, Idle, TypeOK
  <2>2. status[j] = "absent" /\ UNCHANGED <<queue, running>>
    BY <1>2 DEF CreateScan
  <2> QED BY <1>1, <2>1, <2>2 DEF PlaceInv
<1>3. ASSUME NEW j \in Jobs, Submit(j) PROVE PlaceInv'
  <2>1. /\ Len(queue') = Len(queue) + 1 /\ Len(queue) \in Nat
        /\ \A i \in 1..Len(queue) : queue'[i] = queue[i]
        /\ queue'[Len(queue) + 1] = j
    BY <1>1, <1>3, QueueAppended DEF TypeOK, Submit
  <2>2. \A i \in 1..Len(queue') : i \in 1..Len(queue) \/ i = Len(queue) + 1
    BY <2>1
  <2>3. \A k \in Jobs : InQueue(k)' <=> InQueue(k) \/ k = j
    BY <2>1, <2>2 DEF InQueue
  <2>4. Submitted(j) /\ ~InQueue(j) /\ ~AtWork(j) /\ status[j] = "queued"
    BY <1>1, <1>3 DEF Submit, Submitted, PlaceInv
  <2>5. \A i, k \in 1..Len(queue') : queue'[i] = queue'[k] => i = k
    BY <1>1, <2>1, <2>2, <2>4 DEF PlaceInv, InQueue
  <2>6. /\ \A k \in Jobs : AtWork(k)' <=> AtWork(k)
        /\ \A k \in Jobs : ~Submitted(k)'
        /\ \A k \in Jobs : Submitted(k) => k = j
        /\ UNCHANGED <<status, running>>
    BY <1>3 DEF Submit, AtWork, Submitted, Idle
  <2> QED BY <1>1, <2>3, <2>4, <2>5, <2>6 DEF PlaceInv
<1>4. ASSUME NEW j \in Jobs, AskReport(j) \/ ReadResult(j) \/ ReadReport(j) PROVE PlaceInv'
  <2>1. UNCHANGED <<status, queue, running>>
    BY <1>4 DEF AskReport, ReadResult, ReadReport
  <2>2. \A k \in Jobs : ~Submitted(k) /\ ~Submitted(k)'
    <3>1. CASE AskReport(j)
      BY <3>1 DEF AskReport, Submitted, Idle
    <3>2. CASE ReadResult(j)
      BY <3>2 DEF ReadResult, Submitted, Idle
    <3>3. CASE ReadReport(j)
      BY <3>3 DEF ReadReport, Submitted, Idle
    <3> QED BY <1>4, <3>1, <3>2, <3>3
  <2> QED BY <1>1, <2>1, <2>2 DEF PlaceInv, InQueue, AtWork
<1>5. ASSUME NEW w \in Workers, TakeJob(w) PROVE PlaceInv'
  <2> DEFINE j == queue[1]
  <2>1. /\ Len(queue) \in Nat /\ Len(queue) >= 1 /\ j \in Jobs
        /\ Len(queue') = Len(queue) - 1
        /\ \A i \in 1..(Len(queue) - 1) : queue'[i] = queue[i + 1]
        /\ running' = [running EXCEPT ![w] = j]
    BY <1>1, <1>5, QueueTaken DEF TypeOK, TakeJob
  <2>2. InQueue(j) /\ status[j] = "queued" /\ ~AtWork(j) /\ ~Submitted(j)
    BY <1>1, <2>1 DEF PlaceInv, InQueue
  <2>3. \A i, k \in 1..Len(queue') : queue'[i] = queue'[k] => i = k
    BY <1>1, <2>1 DEF PlaceInv
  <2>4. \A k \in Jobs : InQueue(k)' <=> InQueue(k) /\ k # j
    <3>1. TAKE k \in Jobs
    <3>2. ASSUME InQueue(k)' PROVE InQueue(k) /\ k # j
      <4>1. PICK i \in 1..Len(queue') : queue'[i] = k
        BY <3>2 DEF InQueue
      <4>2. i + 1 \in 1..Len(queue) /\ queue[i + 1] = k /\ i + 1 # 1 /\ 1 \in 1..Len(queue)
        BY <2>1, <4>1
      <4> QED BY <1>1, <4>2 DEF PlaceInv, InQueue
    <3>3. ASSUME InQueue(k), k # j PROVE InQueue(k)'
      <4>1. PICK i \in 1..Len(queue) : queue[i] = k
        BY <3>3 DEF InQueue
      <4>2. i - 1 \in 1..Len(queue') /\ queue'[i - 1] = k
        BY <2>1, <3>3, <4>1
      <4> QED BY <4>2 DEF InQueue
    <3> QED BY <3>2, <3>3
  <2>5. running[w] = NoJob
    BY <1>1, <1>5 DEF TakeJob, Goto, WorkerInv
  <2>6. \A k \in Jobs : AtWork(k)' <=> AtWork(k) \/ k = j
    BY <1>1, <2>1, <2>5, JobAssumption DEF TypeOK, AtWork
  <2>7. \A u, v \in Workers : running'[u] = running'[v] /\ running'[u] # NoJob => u = v
    BY <1>1, <2>1, <2>2, <2>5 DEF TypeOK, PlaceInv, AtWork
  <2>8. UNCHANGED <<status, handler>>
    BY <1>5 DEF TakeJob
  <2>9. \A k \in Jobs : Submitted(k)' <=> Submitted(k)
    BY <2>8 DEF Submitted
  <2> HIDE DEF j
  <2> QED BY <1>1, <2>2, <2>3, <2>4, <2>6, <2>7, <2>8, <2>9 DEF PlaceInv
<1>6. ASSUME NEW w \in Workers, MarkRunning(w) PROVE PlaceInv'
  <2>1. running[w] \in Jobs /\ ~InQueue(running[w]) /\ ~Submitted(running[w])
    BY <1>6, JobAtWork DEF MarkRunning, Goto
  <2>2. AtWork(running[w])
    BY DEF AtWork
  <2>3. /\ UNCHANGED <<queue, running, handler>>
        /\ \A k \in Jobs : status'[k] = IF k = running[w] THEN "running" ELSE status[k]
    BY <1>1, <1>6 DEF MarkRunning, TypeOK
  <2>4. \A k \in Jobs : /\ InQueue(k)' <=> InQueue(k)
                        /\ AtWork(k)' <=> AtWork(k)
                        /\ Submitted(k)' <=> Submitted(k)
    BY <2>3 DEF InQueue, AtWork, Submitted
  <2> QED BY <1>1, <2>1, <2>2, <2>3, <2>4 DEF PlaceInv
<1>7. ASSUME NEW w \in Workers, RunEngagement(w) \/ SignOff(w) \/ Resume(w) \/ WriteReport(w)
      PROVE  PlaceInv'
  <2>1. UNCHANGED <<status, queue, running, handler>>
    BY <1>7 DEF RunEngagement, SignOff, Resume, Return, WriteReport
  <2> QED BY <1>1, <2>1 DEF PlaceInv, InQueue, AtWork, Submitted
<1>8. ASSUME NEW w \in Workers, Finish(w) \/ Fail(w) PROVE PlaceInv'
  <2> DEFINE j == running[w]
  <2>1. /\ j \in Jobs /\ j # NoJob /\ ~InQueue(j) /\ ~Submitted(j)
        /\ \A v \in Workers : running[v] = j => v = w
    BY <1>8, JobAtWork DEF Finish, Fail
  <2>2. status'[j] \in Final
    BY <1>1, <1>8, <2>1 DEF Finish, Fail, TypeOK, WorkerInv, Final
  <2>3. \A k \in Jobs : k # j => status'[k] = status[k]
    BY <1>1, <1>8 DEF Finish, Fail, TypeOK
  <2>4. UNCHANGED <<queue, handler>> /\ running' = [running EXCEPT ![w] = NoJob]
    BY <1>8 DEF Finish, Fail, Done
  <2>5. \A k \in Jobs : (InQueue(k)' <=> InQueue(k)) /\ (Submitted(k)' <=> Submitted(k))
    BY <2>4 DEF InQueue, Submitted
  <2>6. \A k \in Jobs : AtWork(k)' <=> AtWork(k) /\ k # j
    BY <1>1, <2>1, <2>4, JobAssumption DEF TypeOK, AtWork
  <2>7. \A u, v \in Workers : running'[u] = running'[v] /\ running'[u] # NoJob => u = v
    BY <1>1, <2>4 DEF TypeOK, PlaceInv
  <2>8. status'[j] \notin {"queued", "running"}
    BY <2>2 DEF Final
  <2> HIDE DEF j
  <2>9. \A a, b \in 1..Len(queue') : queue'[a] = queue'[b] => a = b
    BY <1>1, <2>4 DEF PlaceInv
  <2> QED BY <1>1, <2>1, <2>3, <2>5, <2>6, <2>7, <2>8, <2>9 DEF PlaceInv
<1>9. CASE UNCHANGED vars
  BY <1>1, <1>9 DEF vars, PlaceInv, InQueue, AtWork, Submitted
<1> QED BY <1>2, <1>3, <1>4, <1>5, <1>6, <1>7, <1>8, <1>9 DEF Next, Handle, Work

LEMMA JobReports == JobInv /\ [Next]_vars => ReportInv'
<1> SUFFICES ASSUME JobInv, [Next]_vars PROVE ReportInv'
  OBVIOUS
<1> USE DEF tableVars, workVars, httpVars
<1>1. TypeOK /\ WorkerInv /\ PlaceInv /\ ReportInv
  BY DEF JobInv
<1>2. ASSUME NEW j \in Jobs, CreateScan(j) PROVE ReportInv'
  <2>1. /\ status[j] = "absent" /\ handler'.at = "submit"
        /\ \A k \in Jobs : status'[k] = IF k = j THEN "queued" ELSE status[k]
        /\ UNCHANGED <<result, approvals, written, reply, step, running, outcome>>
    BY <1>1, <1>2 DEF CreateScan, TypeOK
  <2> QED BY <1>1, <2>1 DEF ReportInv
<1>3. ASSUME NEW j \in Jobs, Submit(j) \/ AskReport(j) \/ ReadResult(j) \/ ReadReport(j)
      PROVE  ReportInv'
  <2>1. UNCHANGED <<status, result, approvals, written, step, running, outcome>>
    BY <1>3 DEF Submit, AskReport, ReadResult, ReadReport
  <2>2. \A k \in Jobs : reply'[k] # "500"
    <3>1. CASE Submit(j)
      BY <1>1, <3>1 DEF Submit, ReportInv
    <3>2. CASE AskReport(j)
      BY <1>1, <3>2 DEF AskReport, ReportInv, TypeOK
    <3>3. CASE ReadResult(j)
      BY <1>1, <3>3 DEF ReadResult, ReportInv, TypeOK
    <3>4. CASE ReadReport(j)
      <4>1. handler.at = "file" /\ handler.job = j
        BY <3>4 DEF ReadReport
      <4>2. j \in written
        BY <1>1, <4>1 DEF ReportInv
      <4> QED BY <1>1, <3>4, <4>2 DEF ReadReport, ReportInv, TypeOK
    <3> QED BY <1>3, <3>1, <3>2, <3>3, <3>4
  <2>3. handler'.at = "file" => handler'.job \in Jobs /\ result[handler'.job]
    <3>1. CASE Submit(j)
      BY <3>1 DEF Submit, Idle
    <3>2. CASE AskReport(j)
      BY <3>2 DEF AskReport, Idle
    <3>3. CASE ReadResult(j)
      <4>1. CASE result[j]
        <5>1. handler' = [job |-> j, at |-> "file"]
          BY <3>3, <4>1 DEF ReadResult
        <5> QED BY <4>1, <5>1
      <4>2. CASE ~result[j]
        BY <3>3, <4>2 DEF ReadResult, Idle
      <4> QED BY <4>1, <4>2
    <3>4. CASE ReadReport(j)
      BY <3>4 DEF ReadReport, Idle
    <3> QED BY <1>3, <3>1, <3>2, <3>3, <3>4
  <2> QED BY <1>1, <2>1, <2>2, <2>3 DEF ReportInv
<1>4. ASSUME NEW w \in Workers, TakeJob(w) PROVE ReportInv'
  <2>1. /\ UNCHANGED <<status, result, approvals, written, reply, handler, outcome>>
        /\ step' = [step EXCEPT ![w] = "starting"]
        /\ \A v \in Workers \ {w} : running'[v] = running[v]
    BY <1>1, <1>4 DEF TakeJob, Goto, TypeOK
  <2> QED BY <1>1, <2>1 DEF ReportInv, TypeOK
<1>5. ASSUME NEW w \in Workers, MarkRunning(w) PROVE ReportInv'
  <2>1. running[w] \in Jobs /\ status[running[w]] = "queued"
    BY <1>1, <1>5, JobAtWork DEF MarkRunning, Goto, WorkerInv
  <2>2. /\ \A k \in Jobs : status'[k] = IF k = running[w] THEN "running" ELSE status[k]
        /\ UNCHANGED <<result, approvals, written, reply, handler, outcome, running>>
        /\ \A v \in Workers : step'[v] = "finishing" => step[v] = "finishing"
    BY <1>1, <1>5 DEF MarkRunning, Goto, TypeOK
  <2> QED BY <1>1, <2>1, <2>2 DEF ReportInv
<1>6. ASSUME NEW w \in Workers, RunEngagement(w) \/ Resume(w) PROVE ReportInv'
  <2>1. PICK o \in {"complete", "interrupted"} : outcome' = [outcome EXCEPT ![w] = o]
    BY <1>6 DEF RunEngagement, Resume, Return
  <2>2. /\ UNCHANGED <<status, result, approvals, written, reply, handler, running>>
        /\ step' = [step EXCEPT ![w] = "deciding"]
    BY <1>6 DEF RunEngagement, Resume, Return, Goto
  <2>3. \A v \in Workers : step'[v] = "finishing" => step[v] = "finishing" /\ v # w
    BY <1>1, <2>2 DEF TypeOK
  <2>4. \A v \in Workers \ {w} : outcome'[v] = outcome[v]
    BY <1>1, <2>1 DEF TypeOK
  <2> QED BY <1>1, <2>2, <2>3, <2>4 DEF ReportInv
<1>7. ASSUME NEW w \in Workers, SignOff(w) PROVE ReportInv'
  <2>1. /\ running[w] \in Jobs /\ status[running[w]] = "running"
        /\ \A v \in Workers : running[v] = running[w] => v = w
    BY <1>1, <1>7, JobAtWork DEF SignOff, Goto, WorkerInv, Working
  <2>2. \A v \in Workers : step'[v] = "finishing" => step[v] = "finishing" /\ v # w
    BY <1>1, <1>7 DEF TypeOK, SignOff, Goto
  <2>3. /\ UNCHANGED <<status, result, written, reply, handler, running, outcome>>
        /\ \A k \in Jobs : k # running[w] => approvals'[k] = approvals[k]
    BY <1>1, <1>7 DEF TypeOK, SignOff
  <2>4. \A v \in Workers : step'[v] = "finishing" => approvals'[running[v]] = approvals[running[v]]
    <3>1. TAKE v \in Workers
    <3>2. HAVE step'[v] = "finishing"
    <3>3. running[v] \in Jobs
      BY <2>2, <3>2, JobAtWork
    <3> QED BY <2>1, <2>2, <2>3, <3>2, <3>3
  <2> QED BY <1>1, <2>1, <2>2, <2>3, <2>4 DEF ReportInv
<1>8. ASSUME NEW w \in Workers, WriteReport(w) PROVE ReportInv'
  <2>1. running[w] \in Jobs
    BY <1>8, JobAtWork DEF WriteReport, Goto
  <2>2. outcome[w] = "complete" \/ approvals[running[w]] = MaxApprovals
    BY <1>1, <1>8, <2>1, JobAssumption DEF WriteReport, TypeOK
  <2>3. /\ UNCHANGED <<status, result, approvals, reply, handler, running, outcome>>
        /\ step' = [step EXCEPT ![w] = "finishing"]
        /\ written' = written \cup {running[w]}
    BY <1>8 DEF WriteReport, Goto
  <2>4. \A v \in Workers : step'[v] = "finishing" => v = w \/ step[v] = "finishing"
    BY <1>1, <2>3 DEF TypeOK
  <2> QED BY <1>1, <2>2, <2>3, <2>4 DEF ReportInv
<1>9. ASSUME NEW w \in Workers, Finish(w) PROVE ReportInv'
  <2>1. running[w] \in Jobs /\ outcome[w] \in {"complete", "interrupted"}
    BY <1>1, <1>9, JobAtWork DEF Finish, TypeOK, WorkerInv
  <2>2. /\ \A k \in Jobs : status'[k] = IF k = running[w] THEN outcome[w] ELSE status[k]
        /\ result'[running[w]] /\ \A k \in Jobs : k # running[w] => result'[k] = result[k]
        /\ \A v \in Workers \ {w} : running'[v] = running[v] /\ outcome'[v] = outcome[v]
        /\ \A v \in Workers : step'[v] = "finishing" => step[v] = "finishing" /\ v # w
        /\ UNCHANGED <<approvals, written, reply, handler>>
    BY <1>1, <1>9, <2>1 DEF Finish, Done, TypeOK
  <2>3. running[w] \in written /\ (outcome[w] = "complete" \/ approvals[running[w]] = MaxApprovals)
    BY <1>1, <1>9 DEF Finish, ReportInv
  <2>4. \A k \in Jobs : status'[k] \in {"complete", "interrupted"} <=> result'[k]
    BY <1>1, <2>1, <2>2 DEF ReportInv
  <2>5. \A k \in Jobs : result'[k] => k \in written
    BY <1>1, <2>2, <2>3 DEF ReportInv
  <2>6. handler.at = "file" => handler.job \in Jobs /\ result'[handler.job]
    BY <1>1, <2>2 DEF ReportInv
  <2>7. \A k \in Jobs : status'[k] = "interrupted" => approvals[k] = MaxApprovals
    BY <1>1, <2>2, <2>3 DEF ReportInv
  <2> QED BY <1>1, <2>2, <2>4, <2>5, <2>6, <2>7 DEF ReportInv
<1>10. ASSUME NEW w \in Workers, Fail(w) PROVE ReportInv'
  <2>1. running[w] \in Jobs /\ status[running[w]] = "running"
    BY <1>1, <1>10, JobAtWork DEF Fail, WorkerInv, Working
  <2>2. /\ \A k \in Jobs : status'[k] = IF k = running[w] THEN "error" ELSE status[k]
        /\ \A v \in Workers \ {w} : running'[v] = running[v] /\ outcome'[v] = outcome[v]
        /\ \A v \in Workers : step'[v] = "finishing" => step[v] = "finishing" /\ v # w
        /\ UNCHANGED <<result, approvals, written, reply, handler>>
    BY <1>1, <1>10 DEF Fail, Done, TypeOK
  <2> QED BY <1>1, <2>1, <2>2 DEF ReportInv
<1>11. CASE UNCHANGED vars
  BY <1>1, <1>11 DEF vars, ReportInv
<1> QED BY <1>2, <1>3, <1>4, <1>5, <1>6, <1>7, <1>8, <1>9, <1>10, <1>11 DEF Next, Handle, Work

LEMMA JobInvHolds == Spec => []JobInv
<1>1. JobInv /\ [Next]_vars => JobInv'
  BY JobTypes, JobWorkers, JobPlaces, JobReports DEF JobInv
<1> QED BY <1>1, JobInit, PTL DEF Spec

\* A predicate that picks at most one element of a finite set counts at most one, and
\* none where it picks none.
LEMMA AtMostOne ==
  ASSUME NEW S, \A a, b \in S : a = b
  PROVE  IsFiniteSet(S) /\ Cardinality(S) \in {0, 1} /\ (Cardinality(S) = 0 <=> S = {})
<1>1. CASE S = {}
  BY <1>1, FS_EmptySet
<1>2. CASE S # {}
  <2>1. PICK x \in S : TRUE
    BY <1>2
  <2>2. S = {x}
    BY <2>1
  <2>3. IsFiniteSet({x}) /\ Cardinality({x}) = 1
    BY FS_Singleton
  <2> QED BY <2>2, <2>3
<1> QED BY <1>1, <1>2

\* Every variable keeps its type.
THEOREM JobTypesHold == Spec => []TypeOK
BY JobInvHolds, PTL DEF JobInv

\* OnePlace: whatever the event loop and the workers do in between, a job is with the
\* handler that submits it, in the queue or at one worker, and nowhere once it is final.
THEOREM JobInOnePlace == Spec => []OnePlace
<1>1. JobInv => OnePlace
  <2>1. SUFFICES ASSUME JobInv, NEW j \in Jobs
        PROVE LET places == Cardinality({i \in DOMAIN queue : queue[i] = j})
                              + Cardinality({w \in Workers : running[w] = j})
              IN  /\ places <= 1
                  /\ status[j] \in {"absent"} \cup Final => places = 0
                  /\ status[j] = "running" => \E w \in Workers : running[w] = j
                  /\ status[j] = "queued" /\ places = 0 => handler = [job |-> j, at |-> "submit"]
    BY DEF OnePlace
  <2> DEFINE Q == {i \in DOMAIN queue : queue[i] = j}
             W == {w \in Workers : running[w] = j}
  <2>2. PlaceInv /\ queue \in Seq(Jobs) /\ j # NoJob
    BY <2>1, JobAssumption DEF JobInv, TypeOK
  <2>3. DOMAIN queue = 1..Len(queue)
    BY <2>2
  <2>4. \A a, b \in Q : a = b
    BY <2>2, <2>3 DEF PlaceInv
  <2>5. \A a, b \in W : a = b
    BY <2>2 DEF PlaceInv
  <2>6. (InQueue(j) <=> Q # {}) /\ (AtWork(j) <=> W # {})
    BY <2>3 DEF InQueue, AtWork
  <2>7. /\ Cardinality(Q) \in {0, 1} /\ (Cardinality(Q) = 0 <=> Q = {})
        /\ Cardinality(W) \in {0, 1} /\ (Cardinality(W) = 0 <=> W = {})
    BY <2>4, <2>5, AtMostOne
  <2> HIDE DEF Q, W
  <2>8. ~InQueue(j) \/ ~AtWork(j)
    BY <2>1, <2>2 DEF PlaceInv
  <2>9. status[j] \in {"absent"} \cup Final => ~InQueue(j) /\ ~AtWork(j)
    BY <2>1, <2>2 DEF PlaceInv, Final
  <2>10. status[j] = "running" => AtWork(j)
    BY <2>1, <2>2 DEF PlaceInv
  <2>11. status[j] = "queued" => InQueue(j) \/ AtWork(j) \/ Submitted(j)
    BY <2>1, <2>2 DEF PlaceInv
  <2>12. Cardinality(Q) + Cardinality(W) <= 1
    BY <2>6, <2>7, <2>8
  <2>13. Cardinality(Q) + Cardinality(W) = 0 <=> ~InQueue(j) /\ ~AtWork(j)
    BY <2>6, <2>7
  <2> QED BY <2>9, <2>10, <2>11, <2>12, <2>13 DEF Q, W, AtWork, Submitted
<1> QED BY <1>1, JobInvHolds, PTL

\* ReportWithStatus: a final status, its result and its report come together, and
\* interrupted says that the automatic sign-offs are used up.
THEOREM JobReportWithStatus == Spec => []ReportWithStatus
<1>1. JobInv => ReportWithStatus
  BY DEF JobInv, ReportInv, ReportWithStatus
<1> QED BY <1>1, JobInvHolds, PTL

\* StatusFlows: the status a client polls goes queued, running, final and never back.
THEOREM JobStatusFlows == Spec => StatusFlows
<1> DEFINE Flows ==
      \A j \in Jobs :
        status'[j] # status[j] =>
          \/ status[j] = "absent" /\ status'[j] = "queued"
          \/ status[j] = "queued" /\ status'[j] = "running"
          \/ status[j] = "running" /\ status'[j] \in Final
<1>1. JobInv /\ [Next]_vars => [Flows]_vars
  <2> SUFFICES ASSUME JobInv, Next PROVE Flows
    OBVIOUS
  <2> USE DEF tableVars, workVars, httpVars
  <2>1. TypeOK /\ WorkerInv
    BY DEF JobInv
  <2>2. ASSUME NEW j \in Jobs, CreateScan(j) PROVE Flows
    BY <2>1, <2>2 DEF CreateScan, TypeOK
  <2>3. ASSUME NEW w \in Workers, MarkRunning(w) PROVE Flows
    BY <2>1, <2>3 DEF MarkRunning, Goto, TypeOK, WorkerInv
  <2>4. ASSUME NEW w \in Workers, Finish(w) PROVE Flows
    <3>1. outcome[w] \in Final /\ status[running[w]] = "running"
      BY <2>1, <2>4 DEF Finish, TypeOK, WorkerInv, Working, Final
    <3> QED BY <2>1, <2>4, <3>1 DEF Finish, TypeOK
  <2>5. ASSUME NEW w \in Workers, Fail(w) PROVE Flows
    <3>1. status[running[w]] = "running"
      BY <2>1, <2>5 DEF Fail, WorkerInv, Working
    <3> QED BY <2>1, <2>5, <3>1 DEF Fail, TypeOK, Final
  <2>6. ASSUME NEW j \in Jobs, AskReport(j) \/ Handle(j) PROVE Flows
    BY <2>6 DEF AskReport, Handle, Submit, ReadResult, ReadReport
  <2>7. ASSUME NEW w \in Workers,
               TakeJob(w) \/ RunEngagement(w) \/ SignOff(w) \/ Resume(w) \/ WriteReport(w)
        PROVE  Flows
    BY <2>7 DEF TakeJob, RunEngagement, SignOff, Resume, Return, WriteReport
  <2> HIDE DEF Flows
  <2> QED BY <2>2, <2>3, <2>4, <2>5, <2>6, <2>7 DEF Next, Work
<1>2. Spec => [][Flows]_vars
  BY <1>1, JobInvHolds, PTL DEF Spec
<1> QED BY <1>2 DEF StatusFlows
=============================================================================
