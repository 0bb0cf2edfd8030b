------------------------------ MODULE AuditLog ------------------------------
(***************************************************************************)
(* The hash-chained audit log (safety/audit.py): threads of one process    *)
(* append under a lock, first to memory and then to the JSON Lines file of *)
(* the engagement.  The file outlives the process: a later process of the  *)
(* same engagement (cli engage, then engage again with --approve) opens    *)
(* the same path and appends to it, starting from the genesis hash.        *)
(*                                                                         *)
(* The payload of an event is everything its hash covers besides seq and   *)
(* prev_hash.                                                              *)
(***************************************************************************)
EXTENDS Naturals, Sequences

CONSTANTS
  Processes,      \* processes that open the log of the engagement
  Threads,        \* their threads
  ProcessOf,      \* the process of each thread
  Payloads,       \* what an event says
  Genesis,        \* GENESIS_HASH
  Hash(_, _, _),  \* sha256 over seq, payload and prev_hash
  NoThread,       \* the lock is free
  MaxEvents       \* bound on the events of one process

ASSUME AuditAssumption ==
  /\ ProcessOf \in [Threads -> Processes]
  /\ NoThread \notin Threads
  /\ MaxEvents \in Nat

VARIABLES
  life,      \* whether each process has opened the log, and still runs
  events,    \* _events of each process
  head,      \* _head of each process
  lock,      \* the thread inside _lock of each process
  pc,        \* where each thread is in append
  draft,     \* the event each thread is building
  disk,      \* the lines of the file
  writers,   \* history: the process that wrote each line
  unwritten  \* history: processes that failed to write one of their events

logVars == <<events, head>>
fileVars == <<disk, writers>>
vars == <<life, events, head, lock, pc, draft, disk, writers, unwritten>>

EventOf(seq, payload, prev) ==
  [seq |-> seq, payload |-> payload, prev |-> prev, hash |-> Hash(seq, payload, prev)]

Init ==
  /\ life = [p \in Processes |-> "new"]
  /\ events = [p \in Processes |-> <<>>]
  /\ head = [p \in Processes |-> Genesis]
  /\ lock = [p \in Processes |-> NoThread]
  /\ pc = [th \in Threads |-> "idle"]
  /\ draft = [th \in Threads |-> <<>>]
  /\ disk = <<>>
  /\ writers = <<>>
  /\ unwritten = {}

\* __init__: an empty list and the genesis hash, whatever the file holds.
Open(p) ==
  /\ life[p] = "new"
  /\ life' = [life EXCEPT ![p] = "open"]
  /\ events' = [events EXCEPT ![p] = <<>>]
  /\ head' = [head EXCEPT ![p] = Genesis]
  /\ UNCHANGED <<lock, pc, draft, fileVars, unwritten>>

\* Mutant: append without the lock.
EnterUnlocked(th) ==
  LET p == ProcessOf[th]
  IN  /\ pc[th] = "idle" /\ life[p] = "open"
      /\ Len(events[p]) < MaxEvents
      /\ lock' = [lock EXCEPT ![p] = th]
      /\ pc' = [pc EXCEPT ![th] = "linking"]
      /\ UNCHANGED <<life, logVars, draft, fileVars, unwritten>>

\* append, line by line under the lock: take it ...
Enter(th) ==
  LET p == ProcessOf[th]
  IN  /\ pc[th] = "idle" /\ life[p] = "open"
      /\ lock[p] = NoThread
      /\ Len(events[p]) < MaxEvents
      /\ lock' = [lock EXCEPT ![p] = th]
      /\ pc' = [pc EXCEPT ![th] = "linking"]
      /\ UNCHANGED <<life, logVars, draft, fileVars, unwritten>>

\* Mutant: every event links to the genesis hash.
LinkToGenesis(th) ==
  LET p == ProcessOf[th]
  IN  /\ pc[th] = "linking"
      /\ \E x \in Payloads :
           draft' = [draft EXCEPT ![th] = EventOf(Len(events[p]), x, Genesis)]
      /\ pc' = [pc EXCEPT ![th] = "pushing"]
      /\ UNCHANGED <<life, logVars, lock, fileVars, unwritten>>

\* ... number the event and link it to the head ...
Link(th) ==
  LET p == ProcessOf[th]
  IN  /\ pc[th] = "linking"
      /\ \E x \in Payloads :
           draft' = [draft EXCEPT ![th] = EventOf(Len(events[p]), x, head[p])]
      /\ pc' = [pc EXCEPT ![th] = "pushing"]
      /\ UNCHANGED <<life, logVars, lock, fileVars, unwritten>>

\* Mutant: the lock is left before the line is written.
PushAndUnlock(th) ==
  LET p == ProcessOf[th]
  IN  /\ pc[th] = "pushing"
      /\ events' = [events EXCEPT ![p] = Append(@, draft[th])]
      /\ head' = [head EXCEPT ![p] = draft[th].hash]
      /\ pc' = [pc EXCEPT ![th] = "writing"]
      /\ lock' = [lock EXCEPT ![p] = NoThread]
      /\ UNCHANGED <<life, draft, fileVars, unwritten>>

\* ... make it the new head in memory ...
Push(th) ==
  LET p == ProcessOf[th]
  IN  /\ pc[th] = "pushing"
      /\ events' = [events EXCEPT ![p] = Append(@, draft[th])]
      /\ head' = [head EXCEPT ![p] = draft[th].hash]
      /\ pc' = [pc EXCEPT ![th] = "writing"]
      /\ UNCHANGED <<life, lock, draft, fileVars, unwritten>>

Leave(th) ==
  /\ lock' = [lock EXCEPT ![ProcessOf[th]] = NoThread]
  /\ pc' = [pc EXCEPT ![th] = "idle"]
  /\ UNCHANGED <<life, logVars, draft>>

\* ... and write its line,
Write(th) ==
  /\ pc[th] = "writing"
  /\ disk' = Append(disk, draft[th])
  /\ writers' = Append(writers, ProcessOf[th])
  /\ Leave(th)
  /\ UNCHANGED unwritten

\* unless the file cannot be opened or written: append raises, and memory
\* keeps an event the file never gets.
WriteFails(th) ==
  /\ pc[th] = "writing"
  /\ unwritten' = unwritten \cup {ProcessOf[th]}
  /\ Leave(th)
  /\ UNCHANGED fileVars

\* The process ends or is killed, wherever its threads are.
Exit(p) ==
  /\ life[p] = "open"
  /\ life' = [life EXCEPT ![p] = "gone"]
  /\ pc' = [th \in Threads |-> IF ProcessOf[th] = p THEN "dead" ELSE pc[th]]
  /\ UNCHANGED <<logVars, lock, draft, fileVars, unwritten>>

AppendStep(th) == Enter(th) \/ Link(th) \/ Push(th) \/ Write(th) \/ WriteFails(th)

Next ==
  \/ \E p \in Processes : Open(p) \/ Exit(p)
  \/ \E th \in Threads : AppendStep(th)

Spec == Init /\ [][Next]_vars
-----------------------------------------------------------------------------
\* Mutant: the hashes are not computed again.
VerifyLinks(chain) ==
  \A i \in DOMAIN chain :
    /\ chain[i].seq = i - 1
    /\ chain[i].prev = IF i = 1 THEN Genesis ELSE chain[i - 1].hash

\* verify() over the events of a process.
Verify(chain) ==
  \A i \in DOMAIN chain :
    /\ chain[i].seq = i - 1
    /\ chain[i].prev = IF i = 1 THEN Genesis ELSE chain[i - 1].hash
    /\ chain[i].hash = Hash(chain[i].seq, chain[i].payload, chain[i].prev)

\* cli.py, audit-verify: the same over the lines of the file, from the genesis hash.
AuditVerify == Verify(disk)

\* The values every variable ranges over (events by their number).
TypeOK ==
  /\ life \in [Processes -> {"new", "open", "gone"}]
  /\ DOMAIN events = Processes /\ DOMAIN head = Processes
  /\ \A p \in Processes : Len(events[p]) <= MaxEvents
  /\ lock \in [Processes -> Threads \cup {NoThread}]
  /\ pc \in [Threads -> {"idle", "linking", "pushing", "writing", "dead"}]
  /\ DOMAIN draft = Threads
  /\ Len(writers) = Len(disk)
  /\ unwritten \subseteq Processes

\* However the threads of a process interleave, the chain in its memory
\* verifies at every moment, and _head is the hash of the last event.
MemoryChained ==
  \A p \in Processes :
    /\ Verify(events[p])
    /\ head[p] = IF events[p] = <<>> THEN Genesis
                 ELSE events[p][Len(events[p])].hash

\* The lines a process wrote are its own events in their order, with a gap
\* at most where a write failed.
DiskFollowsMemory ==
  \A i \in DOMAIN disk :
    LET own == events[writers[i]]
    IN  /\ disk[i].seq < Len(own) /\ disk[i] = own[disk[i].seq + 1]
        /\ \A j \in 1..(i - 1) : writers[j] = writers[i] => disk[j].seq < disk[i].seq

\* A file that one process alone wrote, without a failed write, verifies:
\* what a crash loses is a tail, never a link.
SoleWriterIntact ==
  \A p \in Processes \ unwritten :
    (\A i \in DOMAIN writers : writers[i] = p) => AuditVerify

\* "tampering with any record breaks the chain and is detected" (docs/
\* FRS.md:405): a record of a chain that verifies cannot say something else,
\* not even with its own hash recomputed when another record follows it.
TamperDetected ==
  \A p \in Processes : \A i \in DOMAIN events[p] : \A x \in Payloads :
    LET own == events[p]
        forged == EventOf(own[i].seq, x, own[i].prev)
    IN  x # own[i].payload =>
          /\ ~Verify([own EXCEPT ![i].payload = x])
          /\ i < Len(own) => ~Verify([own EXCEPT ![i] = forged])
=============================================================================
