--------------------------- MODULE AuditLogProofs ---------------------------
(***************************************************************************)
(* Theorems about AuditLog: the chain in memory and the file, for any      *)
(* threads and any processes, any number of events, any hash function.     *)
(***************************************************************************)
EXTENDS AuditLog, SequenceTheorems, TLAPS

InLock == {"linking", "pushing", "writing"}

\* Types of the variables append moves; the events are of no particular set.
LockTypes ==
  /\ pc \in [Threads -> {"idle", "linking", "pushing", "writing", "dead"}]
  /\ lock \in [Processes -> Threads \cup {NoThread}]
  /\ life \in [Processes -> {"new", "open", "gone"}]
  /\ draft = [th \in Threads |-> draft[th]]
  /\ events = [p \in Processes |-> events[p]] /\ head = [p \in Processes |-> head[p]]
  /\ \A p \in Processes : \E S : events[p] \in Seq(S)

\* The lock: a thread inside append holds it, and its process is open.
LockInv ==
  \A th \in Threads : pc[th] \in InLock =>
    lock[ProcessOf[th]] = th /\ life[ProcessOf[th]] # "new"

\* The event a thread is about to push links to the head as it is now.
DraftInv ==
  \A th \in Threads : pc[th] = "pushing" =>
    LET p == ProcessOf[th]
    IN  \E x \in Payloads : draft[th] = EventOf(Len(events[p]), x, head[p])

\* MemoryChained of one process.
Chained(s, h) ==
  /\ Verify(s)
  /\ h = IF s = <<>> THEN Genesis ELSE s[Len(s)].hash

AllChained == \A p \in Processes : Chained(events[p], head[p])

ChainInv == LockTypes /\ LockInv /\ DraftInv /\ AllChained

\* Append, whatever the elements are.
LEMMA AppendAny ==
  ASSUME NEW S, NEW s \in Seq(S), NEW e
  PROVE  /\ Append(s, e) \in Seq(S \cup {e})
         /\ Append(s, e) # <<>>
         /\ Len(Append(s, e)) = Len(s) + 1
         /\ \A i \in 1..Len(s) : Append(s, e)[i] = s[i]
         /\ Append(s, e)[Len(s) + 1] = e
<1>1. s \in Seq(S \cup {e}) /\ e \in S \cup {e}
  OBVIOUS
<1> QED BY <1>1, AppendProperties

\* The empty log is a chain, and a chain followed by an event that links to its
\* last hash is one.
LEMMA ChainEmpty == Chained(<<>>, Genesis)
BY DEF Chained, Verify

LEMMA ChainGrows ==
  ASSUME NEW S, NEW s \in Seq(S), NEW h, NEW x, Chained(s, h)
  PROVE  Chained(Append(s, EventOf(Len(s), x, h)), EventOf(Len(s), x, h).hash)
<1> DEFINE e == EventOf(Len(s), x, h)
           t == Append(s, e)
<1>1. e.seq = Len(s) /\ e.prev = h /\ e.hash = Hash(e.seq, e.payload, e.prev)
  BY DEF EventOf
<1> HIDE DEF e
<1>2. Len(s) \in Nat /\ DOMAIN s = 1..Len(s) /\ (s = <<>> <=> Len(s) = 0)
  BY EmptySeq, LenProperties
<1>3. t \in Seq(S \cup {e}) /\ t # <<>>
  BY AppendAny
<1>4. Len(t) = Len(s) + 1 /\ t[Len(s) + 1] = e
  BY AppendAny
<1>5. \A i \in 1..Len(s) : t[i] = s[i]
  BY AppendAny
<1>6. DOMAIN t = 1..(Len(s) + 1)
  BY <1>3, <1>4, LenProperties
<1> HIDE DEF t
<1>7. ASSUME NEW i \in 1..(Len(s) + 1)
      PROVE  /\ t[i].seq = i - 1
             /\ t[i].prev = IF i = 1 THEN Genesis ELSE t[i - 1].hash
             /\ t[i].hash = Hash(t[i].seq, t[i].payload, t[i].prev)
  <2>1. CASE i \in 1..Len(s)
    <3>1. t[i] = s[i] /\ (i # 1 => t[i - 1] = s[i - 1])
      BY <1>2, <1>5, <2>1
    <3> QED BY <1>2, <2>1, <3>1 DEF Chained, Verify
  <2>2. CASE i = Len(s) + 1
    <3>1. t[i] = e /\ (i # 1 => t[i - 1] = s[Len(s)])
      BY <1>2, <1>4, <1>5, <2>2
    <3>2. h = IF i = 1 THEN Genesis ELSE s[Len(s)].hash
      BY <1>2, <2>2 DEF Chained
    <3> QED BY <1>1, <1>2, <2>2, <3>1, <3>2
  <2> QED BY <1>2, <2>1, <2>2
<1>8. Verify(t)
  BY <1>6, <1>7 DEF Verify
<1>9. e.hash = IF t = <<>> THEN Genesis ELSE t[Len(t)].hash
  BY <1>3, <1>4
<1>10. Chained(t, e.hash)
  BY <1>8, <1>9 DEF Chained
<1> QED BY <1>10 DEF t, e

\* A step that leaves memory alone leaves the chains alone.
LEMMA ChainKept ==
  ASSUME AllChained, UNCHANGED logVars PROVE AllChained'
BY DEF AllChained, logVars

\* Every step keeps the chain: only the holder of the lock pushes, and nobody
\* else moved the head since it linked its event.
LEMMA ChainNext == ChainInv /\ [Next]_vars => ChainInv'
<1> SUFFICES ASSUME ChainInv, [Next]_vars PROVE ChainInv'
  OBVIOUS
<1> USE DEF InLock
<1>0. \A th \in Threads : ProcessOf[th] \in Processes /\ th # NoThread
  BY AuditAssumption
<1>1. ASSUME NEW p \in Processes, Open(p) PROVE ChainInv'
  <2>1. \A th \in Threads : pc[th] \in InLock => ProcessOf[th] # p
    BY <1>0, <1>1 DEF Open, ChainInv, LockInv
  <2>2. LockTypes'
    <3>1. <<>> \in Seq({})
      OBVIOUS
    <3> QED BY <1>1, <3>1 DEF Open, ChainInv, LockTypes
  <2>3. LockInv' /\ DraftInv'
    BY <1>0, <1>1, <2>1 DEF Open, ChainInv, LockTypes, LockInv, DraftInv
  <2>4. AllChained'
    <3>1. events' = [events EXCEPT ![p] = <<>>] /\ head' = [head EXCEPT ![p] = Genesis]
      BY <1>1 DEF Open
    <3>2. events'[p] = <<>> /\ head'[p] = Genesis
      BY <3>1 DEF ChainInv, LockTypes
    <3>3. \A q \in Processes : q # p => events'[q] = events[q] /\ head'[q] = head[q]
      BY <3>1 DEF ChainInv, LockTypes
    <3> QED BY <3>2, <3>3, ChainEmpty DEF ChainInv, AllChained
  <2> QED BY <2>2, <2>3, <2>4 DEF ChainInv
<1>2. ASSUME NEW th \in Threads, Enter(th) PROVE ChainInv'
  <2>1. LockTypes' /\ AllChained'
    <3>1. LockTypes'
      BY <1>0, <1>2 DEF Enter, ChainInv, LockTypes, logVars
    <3> QED BY <1>2, <3>1, ChainKept DEF Enter, ChainInv
  <2>2. LockInv' /\ DraftInv'
    BY ZenonT(40), <1>0, <1>2 DEF Enter, ChainInv, LockTypes, LockInv, DraftInv, logVars
  <2> QED BY <2>1, <2>2 DEF ChainInv
<1>3. ASSUME NEW th \in Threads, Link(th) PROVE ChainInv'
  <2>1. LockTypes' /\ AllChained' /\ LockInv'
    <3>1. AllChained'
      BY <1>3, ChainKept DEF Link, ChainInv
    <3>2. /\ pc' = [pc EXCEPT ![th] = "pushing"] /\ pc[th] = "linking"
          /\ \E x : draft' = [draft EXCEPT ![th] = x]
          /\ UNCHANGED <<life, logVars, lock>>
      BY <1>3 DEF Link
    <3>3. LockTypes'
      BY <3>2 DEF ChainInv, LockTypes, logVars
    <3>4. LockInv'
      BY <1>0, <3>2 DEF ChainInv, LockTypes, LockInv, logVars
    <3> QED BY <3>1, <3>3, <3>4
  <2>2. DraftInv'
    BY <1>0, <1>3 DEF Link, ChainInv, LockTypes, DraftInv, logVars
  <2> QED BY <2>1, <2>2 DEF ChainInv
<1>4. ASSUME NEW th \in Threads, Push(th) PROVE ChainInv'
  <2> DEFINE p == ProcessOf[th]
  <2>1. p \in Processes /\ pc[th] = "pushing"
    BY <1>0, <1>4 DEF Push
  <2>2. PICK x \in Payloads : draft[th] = EventOf(Len(events[p]), x, head[p])
    BY <2>1 DEF ChainInv, DraftInv
  <2>3. PICK S : events[p] \in Seq(S)
    BY <2>1 DEF ChainInv, LockTypes
  <2>4. /\ events' = [events EXCEPT ![p] = Append(events[p], draft[th])]
        /\ head' = [head EXCEPT ![p] = draft[th].hash]
        /\ pc' = [pc EXCEPT ![th] = "writing"]
        /\ UNCHANGED <<life, lock, draft>>
    BY <1>4 DEF Push
  <2>5. LockTypes'
    <3>1. Append(events[p], draft[th]) \in Seq(S \cup {draft[th]})
      BY <2>3, AppendAny
    <3> QED BY <2>1, <2>4, <3>1 DEF ChainInv, LockTypes
  <2>6. LockInv'
    BY <1>0, <2>1, <2>4 DEF ChainInv, LockTypes, LockInv
  <2>7. DraftInv'
    <3>1. \A other \in Threads : other # th /\ pc[other] = "pushing" => ProcessOf[other] # p
      BY <1>0, <2>1 DEF ChainInv, LockInv
    <3> QED BY <1>0, <2>1, <2>4, <3>1 DEF ChainInv, LockTypes, DraftInv
  <2>8. AllChained'
    <3>1. Chained(Append(events[p], draft[th]), draft[th].hash)
      BY <2>1, <2>2, <2>3, ChainGrows DEF ChainInv, AllChained
    <3>2. events'[p] = Append(events[p], draft[th]) /\ head'[p] = draft[th].hash
      BY <2>1, <2>4 DEF ChainInv, LockTypes
    <3>3. \A q \in Processes : q # p => events'[q] = events[q] /\ head'[q] = head[q]
      BY <2>4 DEF ChainInv, LockTypes
    <3> HIDE DEF p
    <3> QED BY <3>1, <3>2, <3>3 DEF ChainInv, AllChained
  <2> QED BY <2>5, <2>6, <2>7, <2>8 DEF ChainInv
<1>5. ASSUME NEW th \in Threads, Write(th) \/ WriteFails(th) PROVE ChainInv'
  <2>1. \A other \in Threads : other # th /\ pc[other] \in InLock => ProcessOf[other] # ProcessOf[th]
    BY <1>0, <1>5 DEF Write, WriteFails, ChainInv, LockInv
  <2>2. LockTypes' /\ AllChained'
    <3>1. AllChained'
      BY <1>5, ChainKept DEF Write, WriteFails, Leave, ChainInv
    <3>2. Leave(th)
      BY <1>5 DEF Write, WriteFails
    <3>3. LockTypes'
      BY <1>0, <3>2 DEF Leave, ChainInv, LockTypes, logVars
    <3> QED BY <3>1, <3>3
  <2>3. LockInv' /\ DraftInv'
    BY ZenonT(40), <1>0, <1>5, <2>1 DEF Write, WriteFails, Leave, ChainInv, LockTypes, LockInv, DraftInv, logVars
  <2> QED BY <2>2, <2>3 DEF ChainInv
<1>6. ASSUME NEW p \in Processes, Exit(p) PROVE ChainInv'
  <2>1. LockTypes' /\ AllChained'
    <3>1. LockTypes'
      BY <1>6 DEF Exit, ChainInv, LockTypes, logVars
    <3> QED BY <1>6, <3>1, ChainKept DEF Exit, ChainInv
  <2>2. LockInv' /\ DraftInv'
    BY <1>0, <1>6 DEF Exit, ChainInv, LockTypes, LockInv, DraftInv, logVars
  <2> QED BY <2>1, <2>2 DEF ChainInv
<1>7. CASE UNCHANGED vars
  BY <1>7 DEF vars, logVars, ChainInv, LockTypes, LockInv, DraftInv, AllChained
<1> QED BY <1>1, <1>2, <1>3, <1>4, <1>5, <1>6, <1>7 DEF Next, AppendStep

\* However the threads of a process interleave, its chain verifies and _head
\* is the hash of its last event (MemoryChained).
THEOREM MemoryStaysChained == Spec => []MemoryChained
<1>1. Init => ChainInv
  <2> SUFFICES ASSUME Init PROVE ChainInv
    OBVIOUS
  <2>1. <<>> \in Seq({})
    OBVIOUS
  <2>2. LockTypes
    BY <2>1 DEF Init, LockTypes
  <2>3. LockInv /\ DraftInv /\ AllChained
    BY ChainEmpty DEF Init, LockInv, DraftInv, AllChained, InLock
  <2> QED BY <2>2, <2>3 DEF ChainInv
<1>2. ChainInv => MemoryChained
  BY DEF ChainInv, AllChained, Chained, MemoryChained
<1> QED BY ChainNext, <1>1, <1>2, PTL DEF Spec
-----------------------------------------------------------------------------
(* The file.                                                               *)

FileTypes ==
  /\ writers \in Seq(Processes) /\ Len(writers) = Len(disk)
  /\ \E S : disk \in Seq(S)

\* Who is inside append, or wrote a line, has opened the log.
Opened ==
  /\ \A th \in Threads : pc[th] \in InLock => life[ProcessOf[th]] = "open"
  /\ \A i \in 1..Len(disk) : life[writers[i]] # "new"

\* The event a thread is about to write is the last one of its process.
Unsaved(th) ==
  LET own == events[ProcessOf[th]]
  IN  /\ Len(own) > 0 /\ draft[th] = own[Len(own)]
      /\ \A i \in 1..Len(disk) : writers[i] = ProcessOf[th] => disk[i].seq < Len(own) - 1

\* A line is an event of its writer, at its number.
Line(i) ==
  LET own == events[writers[i]]
  IN  disk[i].seq \in 0..(Len(own) - 1) /\ disk[i] = own[disk[i].seq + 1]

Ordered ==
  \A i, j \in 1..Len(disk) : j < i /\ writers[j] = writers[i] => disk[j].seq < disk[i].seq

FollowsInv ==
  /\ \A th \in Threads : pc[th] = "writing" => Unsaved(th)
  /\ \A i \in 1..Len(disk) : Line(i)
  /\ Ordered

Alone(p) == \A i \in 1..Len(disk) : writers[i] = p
Writing(p) == \E th \in Threads : ProcessOf[th] = p /\ pc[th] = "writing"

\* Of a process that wrote the file alone and failed at none of its lines, the file is
\* the chain without what it is about to write, or what its end cut off.
Whole(p) ==
  LET own == events[p]
  IN  /\ Len(disk) <= Len(own)
      /\ \A i \in 1..Len(disk) : disk[i] = own[i]
      /\ life[p] # "gone" => Len(disk) = IF Writing(p) THEN Len(own) - 1 ELSE Len(own)

SoleInv == \A p \in Processes \ unwritten : Alone(p) => Whole(p)

FileInv == FileTypes /\ Opened /\ FollowsInv /\ SoleInv

\* The lock is one thread's.
LEMMA OneInLock ==
  ASSUME ChainInv, NEW a \in Threads, NEW b \in Threads,
         pc[a] \in InLock, pc[b] \in InLock, ProcessOf[a] = ProcessOf[b]
  PROVE  a = b
BY DEF ChainInv, LockInv

\* What the chain says of an event's number.
LEMMA SeqOfEvent ==
  ASSUME ChainInv, NEW p \in Processes, NEW i \in 1..Len(events[p])
  PROVE  events[p][i].seq = i - 1 /\ Len(events[p]) \in Nat
<1>1. PICK S : events[p] \in Seq(S)
  BY DEF ChainInv, LockTypes
<1>2. DOMAIN events[p] = 1..Len(events[p]) /\ Len(events[p]) \in Nat
  BY <1>1, LenProperties
<1> QED BY <1>2 DEF ChainInv, AllChained, Chained, Verify

\* A step that moves neither memory nor file, takes no thread to writing and ends
\* no other life than by Exit keeps what the file says.
LEMMA FileKept ==
  ASSUME FileInv, UNCHANGED <<events, disk, writers, unwritten, life>>,
         Opened',
         \A th \in Threads : (pc'[th] = "writing") = (pc[th] = "writing"),
         \A th \in Threads : pc[th] = "writing" => draft'[th] = draft[th]
  PROVE  FileInv'
<1>1. FileTypes'
  BY DEF FileInv, FileTypes
<1>2. FollowsInv'
  BY DEF FileInv, FollowsInv, Unsaved, Line, Ordered
<1>3. SoleInv'
  <2>1. \A p : Writing(p)' = Writing(p)
    BY DEF Writing
  <2> QED BY <2>1 DEF FileInv, SoleInv, Alone, Whole
<1> QED BY <1>1, <1>2, <1>3 DEF FileInv

\* Every step keeps what the file says: only the holder of the lock writes, and it
\* writes what it pushed before anybody pushes again.
LEMMA FileNext == ChainInv /\ FileInv /\ [Next]_vars => FileInv'
<1> SUFFICES ASSUME ChainInv, FileInv, [Next]_vars PROVE FileInv'
  OBVIOUS
<1> USE DEF InLock
<1>0. \A th \in Threads : ProcessOf[th] \in Processes /\ th # NoThread
  BY AuditAssumption
<1>t. /\ pc \in [Threads -> {"idle", "linking", "pushing", "writing", "dead"}]
      /\ life \in [Processes -> {"new", "open", "gone"}]
      /\ events = [p \in Processes |-> events[p]]
      /\ Len(disk) \in Nat /\ \A i \in 1..Len(disk) : writers[i] \in Processes
  <2>1. PICK S : disk \in Seq(S)
    BY DEF FileInv, FileTypes
  <2>2. Len(disk) \in Nat
    BY <2>1, LenProperties
  <2>3. \A i \in 1..Len(writers) : writers[i] \in Processes
    BY ElementOfSeq DEF FileInv, FileTypes
  <2> QED BY <2>2, <2>3 DEF ChainInv, LockTypes, FileInv, FileTypes
<1>1. ASSUME NEW p \in Processes, Open(p) PROVE FileInv'
  <2>1. /\ life[p] = "new" /\ life' = [life EXCEPT ![p] = "open"]
        /\ events' = [events EXCEPT ![p] = <<>>]
        /\ UNCHANGED <<pc, draft, disk, writers, unwritten>>
    BY <1>1 DEF Open, fileVars
  <2>2. \A i \in 1..Len(disk) : writers[i] # p
    BY <1>t, <2>1 DEF FileInv, Opened
  <2>3. \A th \in Threads : pc[th] \in InLock => ProcessOf[th] # p
    BY <1>0, <2>1 DEF FileInv, Opened
  <2>4. FileTypes' /\ Opened'
    BY <1>0, <1>t, <2>1 DEF FileInv, FileTypes, Opened
  <2>5. \A q \in Processes : q # p => events'[q] = events[q] /\ life'[q] = life[q]
    BY <1>t, <2>1
  <2>6. FollowsInv'
    <3>1. ASSUME NEW th \in Threads, pc[th] = "writing" PROVE Unsaved(th)'
      BY <1>0, <2>1, <2>3, <2>5, <3>1 DEF FileInv, FollowsInv, Unsaved
    <3>2. ASSUME NEW i \in 1..Len(disk) PROVE Line(i)'
      BY <1>t, <2>1, <2>2, <2>5 DEF FileInv, FollowsInv, Line
    <3> QED BY <2>1, <3>1, <3>2 DEF FileInv, FollowsInv, Ordered
  <2>7. SoleInv'
    <3>1. ASSUME NEW q \in Processes \ unwritten, Alone(q) PROVE Whole(q)'
      <4>1. CASE q = p
        <5>1. Len(disk) = 0
          <6>1. Len(disk) # 0 => 1 \in 1..Len(disk)
            BY <1>t
          <6> QED BY <2>2, <3>1, <4>1, <6>1 DEF Alone
        <5>2. events'[p] = <<>> /\ ~Writing(p)'
          BY <1>t, <2>1, <2>3 DEF Writing
        <5> QED BY <2>1, <4>1, <5>1, <5>2 DEF Whole
      <4>2. CASE q # p
        <5>1. Writing(q)' = Writing(q)
          BY <2>1 DEF Writing
        <5> QED BY <2>1, <2>5, <3>1, <4>2, <5>1 DEF FileInv, SoleInv, Whole
      <4> QED BY <4>1, <4>2
    <3> QED BY <2>1, <3>1 DEF SoleInv, Alone
  <2> QED BY <2>4, <2>6, <2>7 DEF FileInv
<1>2. ASSUME NEW th \in Threads, Enter(th) PROVE FileInv'
  <2>1. Opened'
    BY <1>0, <1>2, <1>t DEF Enter, FileInv, Opened, fileVars
  <2> QED BY <1>2, <1>t, <2>1, FileKept DEF Enter, fileVars, logVars
<1>3. ASSUME NEW th \in Threads, Link(th) PROVE FileInv'
  <2>1. /\ pc[th] = "linking" /\ pc' = [pc EXCEPT ![th] = "pushing"]
        /\ \E x : draft' = [draft EXCEPT ![th] = x]
        /\ UNCHANGED <<life, events, disk, writers, unwritten>>
    BY <1>3 DEF Link, fileVars, logVars
  <2>2. Opened'
    BY <1>0, <1>t, <2>1 DEF FileInv, Opened
  <2>3. \A b \in Threads : pc[b] = "writing" => draft'[b] = draft[b]
    BY <2>1 DEF ChainInv, LockTypes
  <2> QED BY <1>t, <2>1, <2>2, <2>3, FileKept
<1>4. ASSUME NEW th \in Threads, Push(th) PROVE FileInv'
  <2> DEFINE p == ProcessOf[th]
             own == events[p]
  <2>1. /\ pc[th] = "pushing" /\ pc' = [pc EXCEPT ![th] = "writing"]
        /\ events' = [events EXCEPT ![p] = Append(own, draft[th])]
        /\ UNCHANGED <<life, draft, disk, writers, unwritten>>
    BY <1>4 DEF Push, fileVars
  <2>2. p \in Processes /\ life[p] = "open"
    BY <1>0, <2>1 DEF FileInv, Opened
  <2>3. PICK S : own \in Seq(S)
    BY <2>2 DEF ChainInv, LockTypes
  <2>4. /\ events'[p] = Append(own, draft[th])
        /\ \A q \in Processes : q # p => events'[q] = events[q]
    BY <1>t, <2>1, <2>2
  <2>5. /\ Len(own) \in Nat /\ Len(events'[p]) = Len(own) + 1
        /\ events'[p][Len(own) + 1] = draft[th]
        /\ \A i \in 1..Len(own) : events'[p][i] = own[i]
    BY <2>3, <2>4, AppendAny, LenProperties
  <2>6. \A b \in Threads : b # th /\ pc[b] \in InLock => ProcessOf[b] # p
    BY <2>1, OneInLock
  <2>7. FileTypes' /\ Opened'
    BY <1>t, <2>1, <2>2 DEF FileInv, FileTypes, Opened
  <2>8. \A i \in 1..Len(disk) : Line(i)
    BY DEF FileInv, FollowsInv
  <2> HIDE DEF own
  <2>9. FollowsInv'
    <3>1. Unsaved(th)'
      BY SMTT(30), <1>t, <2>1, <2>5, <2>8 DEF Unsaved, Line, own
    <3>2. ASSUME NEW b \in Threads, b # th, pc[b] = "writing" PROVE Unsaved(b)'
      BY <1>0, <2>1, <2>4, <2>6, <3>2 DEF FileInv, FollowsInv, Unsaved
    <3>3. ASSUME NEW i \in 1..Len(disk) PROVE Line(i)'
      <4>1. CASE writers[i] = p
        <5>1. disk[i].seq \in 0..(Len(own) - 1) /\ disk[i] = own[disk[i].seq + 1]
          BY <2>8, <4>1 DEF Line, own
        <5>2. disk[i].seq + 1 \in 1..Len(own) /\ disk[i].seq \in 0..(Len(own) + 1 - 1)
          BY <2>5, <5>1
        <5> QED BY SMTT(30), <2>1, <2>5, <4>1, <5>1, <5>2 DEF Line
      <4>2. CASE writers[i] # p
        BY <1>t, <2>1, <2>4, <2>8, <4>2 DEF Line
      <4> QED BY <4>1, <4>2
    <3> QED BY <1>t, <2>1, <3>1, <3>2, <3>3 DEF FileInv, FollowsInv, Ordered
  <2>10. SoleInv'
    <3>1. ASSUME NEW q \in Processes \ unwritten, Alone(q) PROVE Whole(q)'
      <4>1. CASE q = p
        <5>1. Whole(p) /\ ~Writing(p) /\ Writing(p)'
          BY <1>t, <2>1, <2>6, <3>1, <4>1 DEF FileInv, SoleInv, Writing
        <5>2. Len(disk) = Len(own) /\ \A i \in 1..Len(disk) : disk[i] = own[i]
          BY <2>2, <5>1 DEF Whole, own
        <5> QED BY <2>1, <2>2, <2>5, <4>1, <5>1, <5>2 DEF Whole
      <4>2. CASE q # p
        <5>1. Writing(q)' = Writing(q)
          BY <1>t, <2>1, <4>2 DEF Writing
        <5> QED BY <2>1, <2>4, <3>1, <4>2, <5>1 DEF FileInv, SoleInv, Whole
      <4> QED BY <4>1, <4>2
    <3> QED BY <2>1, <3>1 DEF SoleInv, Alone
  <2> QED BY <2>7, <2>9, <2>10 DEF FileInv
<1>5. ASSUME NEW th \in Threads, Write(th) PROVE FileInv'
  <2> DEFINE p == ProcessOf[th]
             own == events[p]
             n == Len(disk)
  <2>1. /\ pc[th] = "writing" /\ pc' = [pc EXCEPT ![th] = "idle"]
        /\ disk' = Append(disk, draft[th]) /\ writers' = Append(writers, p)
        /\ UNCHANGED <<life, events, draft, unwritten>>
    BY <1>5 DEF Write, Leave, logVars
  <2>2. p \in Processes /\ life[p] = "open"
    BY <1>0, <2>1 DEF FileInv, Opened
  <2>3. /\ Len(own) \in Nat /\ Len(own) > 0 /\ draft[th] = own[Len(own)]
        /\ \A i \in 1..n : writers[i] = p => disk[i].seq < Len(own) - 1
    <3>1. Unsaved(th)
      BY <2>1 DEF FileInv, FollowsInv
    <3>2. PICK S : own \in Seq(S)
      BY <2>2 DEF ChainInv, LockTypes
    <3> QED BY <3>1, <3>2, LenProperties DEF Unsaved
  <2>4. draft[th].seq = Len(own) - 1
    BY <2>2, <2>3, SeqOfEvent
  <2>5. PICK S : disk \in Seq(S)
    BY DEF FileInv, FileTypes
  <2>6. /\ Len(disk') = n + 1 /\ disk'[n + 1] = draft[th]
        /\ \A i \in 1..n : disk'[i] = disk[i]
        /\ disk' \in Seq(S \cup {draft[th]})
    BY <2>1, <2>5, AppendAny
  <2>7. /\ Len(writers') = n + 1 /\ writers'[n + 1] = p
        /\ \A i \in 1..n : writers'[i] = writers[i]
        /\ writers' \in Seq(Processes)
    BY <2>1, <2>2, AppendProperties DEF FileInv, FileTypes
  <2>8. \A i \in 1..(n + 1) : i \in 1..n \/ i = n + 1
    BY <1>t
  <2>9. \A b \in Threads : b # th /\ pc[b] \in InLock => ProcessOf[b] # p
    BY <2>1, OneInLock
  <2> HIDE DEF own, n
  <2>10. FileTypes' /\ Opened'
    <3>1. FileTypes'
      BY <2>6, <2>7 DEF FileTypes
    <3>2. Opened'
      BY <1>t, <2>1, <2>2, <2>6, <2>7, <2>8 DEF FileInv, Opened, n
    <3> QED BY <3>1, <3>2
  <2>11. FollowsInv'
    <3>1. ASSUME NEW b \in Threads, pc'[b] = "writing" PROVE Unsaved(b)'
      <4>1. b # th /\ pc[b] = "writing"
        BY <1>t, <2>1, <3>1
      <4>2. Unsaved(b) /\ ProcessOf[b] # p
        BY <2>9, <4>1 DEF FileInv, FollowsInv
      <4> QED BY <2>1, <2>6, <2>7, <2>8, <4>2 DEF Unsaved, n
    <3>2. ASSUME NEW i \in 1..(n + 1) PROVE Line(i)'
      <4>1. CASE i \in 1..n
        BY <2>1, <2>6, <2>7, <4>1 DEF FileInv, FollowsInv, Line, n
      <4>2. CASE i = n + 1
        <5>1. writers'[i] = p /\ disk'[i] = own[Len(own)] /\ disk'[i].seq = Len(own) - 1
          BY <2>3, <2>4, <2>6, <2>7, <4>2
        <5>2. events'[writers'[i]] = own
          BY <2>1, <5>1 DEF own
        <5>3. Len(own) - 1 \in 0..(Len(own) - 1) /\ Len(own) - 1 + 1 = Len(own)
          BY <2>3
        <5> HIDE DEF p
        <5> QED BY <5>1, <5>2, <5>3 DEF Line
      <4> QED BY <2>8, <4>1, <4>2
    <3>3. Ordered'
      <4>1. ASSUME NEW i \in 1..(n + 1), NEW j \in 1..(n + 1), j < i, writers'[j] = writers'[i]
            PROVE  disk'[j].seq < disk'[i].seq
        <5>1. CASE i \in 1..n
          BY <1>t, <2>6, <2>7, <4>1, <5>1 DEF FileInv, FollowsInv, Ordered, n
        <5>2. CASE i = n + 1
          BY <1>t, <2>3, <2>4, <2>6, <2>7, <2>8, <4>1, <5>2 DEF n
        <5> QED BY <2>8, <5>1, <5>2
      <4> QED BY <2>6, <4>1 DEF Ordered
    <3> QED BY <2>6, <3>1, <3>2, <3>3 DEF FollowsInv
  <2>12. SoleInv'
    <3>1. ASSUME NEW q \in Processes \ unwritten, Alone(q)' PROVE Whole(q)'
      <4>1. q = p
        BY <1>t, <2>6, <2>7, <3>1 DEF Alone, n
      <4>2. Alone(p)
        BY <1>t, <2>6, <2>7, <3>1, <4>1 DEF Alone, n
      <4>3. n = Len(own) - 1 /\ \A i \in 1..n : disk[i] = own[i]
        BY <2>1, <2>2, <3>1, <4>1, <4>2 DEF FileInv, SoleInv, Whole, Writing, own, n
      <4>4. ~Writing(p)'
        BY <1>t, <2>1, <2>9 DEF Writing
      <4>5. \A i \in 1..(n + 1) : disk'[i] = own[i]
        BY <2>3, <2>6, <2>8, <4>3
      <4> QED BY <2>1, <2>3, <2>6, <4>1, <4>3, <4>4, <4>5 DEF Whole, own
    <3> QED BY <2>1, <3>1 DEF SoleInv
  <2> QED BY <2>10, <2>11, <2>12 DEF FileInv
<1>6. ASSUME NEW th \in Threads, WriteFails(th) PROVE FileInv'
  <2> DEFINE p == ProcessOf[th]
  <2>1. /\ pc' = [pc EXCEPT ![th] = "idle"] /\ unwritten' = unwritten \cup {p}
        /\ UNCHANGED <<life, events, draft, disk, writers>>
    BY <1>6 DEF WriteFails, Leave, logVars, fileVars
  <2>2. FileTypes' /\ Opened' /\ FollowsInv'
    BY <1>t, <2>1 DEF FileInv, FileTypes, Opened, FollowsInv, Unsaved, Line, Ordered
  <2>3. SoleInv'
    <3>1. \A q \in Processes : q # p => Writing(q)' = Writing(q)
      BY <1>t, <2>1 DEF Writing
    <3> QED BY <2>1, <3>1 DEF FileInv, SoleInv, Alone, Whole
  <2> QED BY <2>2, <2>3 DEF FileInv
<1>7. ASSUME NEW p \in Processes, Exit(p) PROVE FileInv'
  <2>1. /\ life' = [life EXCEPT ![p] = "gone"]
        /\ pc' = [th \in Threads |-> IF ProcessOf[th] = p THEN "dead" ELSE pc[th]]
        /\ UNCHANGED <<events, draft, disk, writers, unwritten>>
    BY <1>7 DEF Exit, logVars, fileVars
  <2>2. FileTypes' /\ Opened' /\ FollowsInv'
    <3>1. Opened'
      BY <1>0, <1>t, <2>1 DEF FileInv, Opened
    <3> QED BY <2>1, <3>1 DEF FileInv, FileTypes, FollowsInv, Unsaved, Line, Ordered
  <2>3. SoleInv'
    <3>1. \A q \in Processes : q # p => Writing(q)' = Writing(q) /\ life'[q] = life[q]
      BY <1>t, <2>1 DEF Writing
    <3>2. life'[p] = "gone"
      BY <1>t, <2>1
    <3> QED BY <2>1, <3>1, <3>2 DEF FileInv, SoleInv, Alone, Whole
  <2> QED BY <2>2, <2>3 DEF FileInv
<1>8. CASE UNCHANGED vars
  BY <1>8, FileKept DEF vars, FileInv, Opened, logVars, fileVars
<1> QED BY <1>1, <1>2, <1>3, <1>4, <1>5, <1>6, <1>7, <1>8 DEF Next, AppendStep

LEMMA InvInit == Init => ChainInv /\ FileInv
<1> SUFFICES ASSUME Init PROVE ChainInv /\ FileInv
  OBVIOUS
<1>1. <<>> \in Seq({}) /\ <<>> \in Seq(Processes) /\ Len(<<>>) = 0 /\ 1..0 = {}
  OBVIOUS
<1>2. LockTypes
  BY <1>1 DEF Init, LockTypes
<1>3. LockInv /\ DraftInv /\ AllChained
  BY ChainEmpty DEF Init, LockInv, DraftInv, AllChained, InLock
<1>4. FileTypes /\ Opened /\ FollowsInv
  BY <1>1 DEF Init, FileTypes, Opened, FollowsInv, Ordered, InLock
<1>5. SoleInv
  BY <1>1 DEF Init, SoleInv, Whole, Writing
<1> QED BY <1>2, <1>3, <1>4, <1>5 DEF ChainInv, FileInv

\* The lines a process wrote are its own events in their order (DiskFollowsMemory).
THEOREM FileFollowsMemory == Spec => []DiskFollowsMemory
<1>1. FileInv => DiskFollowsMemory
  <2> SUFFICES ASSUME FileInv PROVE DiskFollowsMemory
    OBVIOUS
  <2>1. PICK S : disk \in Seq(S)
    BY DEF FileInv, FileTypes
  <2>2. DOMAIN disk = 1..Len(disk) /\ Len(disk) \in Nat
    BY <2>1, LenProperties
  <2>3. ASSUME NEW i \in 1..Len(disk)
        PROVE  LET own == events[writers[i]]
               IN  /\ disk[i].seq < Len(own) /\ disk[i] = own[disk[i].seq + 1]
                   /\ \A j \in 1..(i - 1) : writers[j] = writers[i] => disk[j].seq < disk[i].seq
    BY <2>2 DEF FileInv, FollowsInv, Line, Ordered
  <2> QED BY <2>2, <2>3 DEF DiskFollowsMemory
<1> QED BY InvInit, ChainNext, FileNext, <1>1, PTL DEF Spec

\* A file that one process alone wrote, with no line that failed, verifies, wherever
\* the process ended (SoleWriterIntact).
THEOREM SoleFileVerifies == Spec => []SoleWriterIntact
<1>1. ChainInv /\ FileInv => SoleWriterIntact
  <2> SUFFICES ASSUME ChainInv, FileInv, NEW p \in Processes \ unwritten,
                      \A i \in DOMAIN writers : writers[i] = p
               PROVE  AuditVerify
    BY DEF SoleWriterIntact
  <2>1. PICK S : disk \in Seq(S)
    BY DEF FileInv, FileTypes
  <2>2. DOMAIN disk = 1..Len(disk) /\ DOMAIN writers = 1..Len(disk) /\ Len(disk) \in Nat
    BY <2>1, LenProperties DEF FileInv, FileTypes
  <2>3. Len(disk) <= Len(events[p]) /\ \A i \in 1..Len(disk) : disk[i] = events[p][i]
    BY <2>2 DEF FileInv, SoleInv, Alone, Whole
  <2>4. PICK T : events[p] \in Seq(T)
    BY DEF ChainInv, LockTypes
  <2>5. DOMAIN events[p] = 1..Len(events[p]) /\ Len(events[p]) \in Nat
    BY <2>4, LenProperties
  <2>6. Verify(events[p])
    BY DEF ChainInv, AllChained, Chained
  <2>7. ASSUME NEW i \in 1..Len(disk)
        PROVE  /\ disk[i].seq = i - 1
               /\ disk[i].prev = IF i = 1 THEN Genesis ELSE disk[i - 1].hash
               /\ disk[i].hash = Hash(disk[i].seq, disk[i].payload, disk[i].prev)
    <3>1. i \in DOMAIN events[p] /\ disk[i] = events[p][i]
      BY <2>2, <2>3, <2>5
    <3>2. i # 1 => disk[i - 1] = events[p][i - 1]
      BY <2>2, <2>3
    <3> QED BY <2>6, <3>1, <3>2 DEF Verify
  <2> QED BY <2>2, <2>7 DEF AuditVerify, Verify
<1> QED BY InvInit, ChainNext, FileNext, <1>1, PTL DEF Spec
-----------------------------------------------------------------------------
(* The rest of TypeOK, and what a changed record does to the chain.        *)

IsEvent(e) == \E seq, payload, prev : e = EventOf(seq, payload, prev)

ShapeInv ==
  /\ unwritten \subseteq Processes
  /\ \A p \in Processes : Len(events[p]) <= MaxEvents
  /\ \A th \in Threads : pc[th] \in {"linking", "pushing"} =>
       Len(events[ProcessOf[th]]) < MaxEvents
  /\ \A p \in Processes : \A i \in 1..Len(events[p]) : IsEvent(events[p][i])

LEMMA ShapeNext == ChainInv /\ ShapeInv /\ [Next]_vars => ShapeInv'
<1> SUFFICES ASSUME ChainInv, ShapeInv, [Next]_vars PROVE ShapeInv'
  OBVIOUS
<1>0. \A th \in Threads : ProcessOf[th] \in Processes
  BY AuditAssumption
<1>t. /\ pc \in [Threads -> {"idle", "linking", "pushing", "writing", "dead"}]
      /\ events = [p \in Processes |-> events[p]]
      /\ \A p \in Processes : Len(events[p]) \in Nat
  <2>1. ASSUME NEW p \in Processes PROVE Len(events[p]) \in Nat
    <3>1. PICK S : events[p] \in Seq(S)
      BY DEF ChainInv, LockTypes
    <3> QED BY <3>1, LenProperties
  <2> QED BY <2>1 DEF ChainInv, LockTypes
<1>1. ASSUME NEW p \in Processes, Open(p) PROVE ShapeInv'
  <2>1. /\ life[p] = "new" /\ events' = [events EXCEPT ![p] = <<>>]
        /\ UNCHANGED <<pc, unwritten>>
    BY <1>1 DEF Open
  <2>2. \A th \in Threads : pc[th] \in {"linking", "pushing"} => ProcessOf[th] # p
    BY <2>1 DEF ChainInv, LockInv, InLock
  <2>3. Len(<<>>) = 0 /\ 1..0 = {} /\ 0 <= MaxEvents
    BY AuditAssumption
  <2>4. events'[p] = <<>> /\ \A q \in Processes : q # p => events'[q] = events[q]
    BY <1>t, <2>1
  <2> QED BY <1>0, <2>1, <2>2, <2>3, <2>4 DEF ShapeInv
<1>2. ASSUME NEW th \in Threads, Enter(th) PROVE ShapeInv'
  BY <1>0, <1>t, <1>2 DEF Enter, ShapeInv, logVars, fileVars
<1>3. ASSUME NEW th \in Threads, Link(th) PROVE ShapeInv'
  <2>1. pc[th] = "linking" /\ pc' = [pc EXCEPT ![th] = "pushing"] /\ UNCHANGED <<events, unwritten>>
    BY <1>3 DEF Link, logVars
  <2> QED BY <1>0, <1>t, <2>1 DEF ShapeInv
<1>4. ASSUME NEW th \in Threads, Push(th) PROVE ShapeInv'
  <2> DEFINE p == ProcessOf[th]
             own == events[p]
  <2>1. /\ pc[th] = "pushing" /\ pc' = [pc EXCEPT ![th] = "writing"]
        /\ events' = [events EXCEPT ![p] = Append(own, draft[th])] /\ UNCHANGED unwritten
    BY <1>4 DEF Push
  <2>2. p \in Processes
    BY <1>0
  <2>3. PICK S : own \in Seq(S)
    BY <2>2 DEF ChainInv, LockTypes
  <2>4. /\ events'[p] = Append(own, draft[th])
        /\ \A q \in Processes : q # p => events'[q] = events[q]
    BY <1>t, <2>1, <2>2
  <2>5. /\ Len(own) \in Nat /\ Len(events'[p]) = Len(own) + 1
        /\ events'[p][Len(own) + 1] = draft[th]
        /\ \A i \in 1..Len(own) : events'[p][i] = own[i]
    BY <2>3, <2>4, AppendAny, LenProperties
  <2>6. IsEvent(draft[th])
    BY <2>1 DEF ChainInv, DraftInv, IsEvent
  <2>7. \A b \in Threads : b # th /\ pc[b] \in {"linking", "pushing"} => ProcessOf[b] # p
    BY <2>1, OneInLock DEF InLock
  <2> HIDE DEF own
  <2>8. Len(own) + 1 <= MaxEvents /\ Len(own) < MaxEvents
    BY <2>1, <2>5, AuditAssumption DEF ShapeInv, own
  <2>9. \A i \in 1..(Len(own) + 1) : IsEvent(events'[p][i])
    <3>1. \A i \in 1..Len(own) : IsEvent(own[i])
      BY <2>2 DEF ShapeInv, own
    <3>2. \A i \in 1..(Len(own) + 1) : i \in 1..Len(own) \/ i = Len(own) + 1
      BY <2>5
    <3> QED BY <2>5, <2>6, <3>1, <3>2
  <2> HIDE DEF p
  <2>10. \A q \in Processes : Len(events'[q]) <= MaxEvents
    BY <2>4, <2>5, <2>8 DEF ShapeInv
  <2>11. \A b \in Threads : pc'[b] \in {"linking", "pushing"} => Len(events'[ProcessOf[b]]) < MaxEvents
    BY <1>0, <1>t, <2>1, <2>4, <2>7 DEF ShapeInv
  <2>12. \A q \in Processes : \A i \in 1..Len(events'[q]) : IsEvent(events'[q][i])
    BY <2>4, <2>5, <2>9 DEF ShapeInv
  <2> QED BY <2>1, <2>10, <2>11, <2>12 DEF ShapeInv
<1>5. ASSUME NEW th \in Threads, Write(th) \/ WriteFails(th) PROVE ShapeInv'
  <2>1. /\ pc' = [pc EXCEPT ![th] = "idle"] /\ UNCHANGED events
        /\ unwritten' \subseteq unwritten \cup {ProcessOf[th]}
    BY <1>5 DEF Write, WriteFails, Leave, logVars
  <2> QED BY <1>0, <1>t, <2>1 DEF ShapeInv
<1>6. ASSUME NEW p \in Processes, Exit(p) PROVE ShapeInv'
  BY <1>t, <1>6 DEF Exit, ShapeInv, logVars
<1>7. CASE UNCHANGED vars
  BY <1>7 DEF vars, logVars, ShapeInv
<1> QED BY <1>1, <1>2, <1>3, <1>4, <1>5, <1>6, <1>7 DEF Next, AppendStep

LEMMA ShapeInit == Init => ShapeInv
<1> SUFFICES ASSUME Init PROVE ShapeInv
  OBVIOUS
<1>1. Len(<<>>) = 0 /\ 1..0 = {} /\ 0 <= MaxEvents
  BY AuditAssumption
<1> QED BY <1>1 DEF Init, ShapeInv

\* Every variable keeps its type, and no process appends more than the bound.
THEOREM AuditTypeOK == Spec => []TypeOK
<1>1. ChainInv /\ FileInv /\ ShapeInv => TypeOK
  <2> SUFFICES ASSUME ChainInv, FileInv, ShapeInv PROVE TypeOK
    OBVIOUS
  <2>1. DOMAIN events = Processes /\ DOMAIN head = Processes /\ DOMAIN draft = Threads
    BY DEF ChainInv, LockTypes
  <2> QED BY <2>1 DEF ChainInv, LockTypes, FileInv, FileTypes, ShapeInv, TypeOK
<1> QED BY InvInit, ShapeInit, ChainNext, FileNext, ShapeNext, <1>1, PTL DEF Spec

\* What sha256 is taken for: two payloads at one place of a chain differ in their hash.
CollisionFree ==
  \A seq, prev, x, y : Hash(seq, x, prev) = Hash(seq, y, prev) => x = y

\* With such a hash, no record of a chain that verifies can say something else, nor can
\* any but the last be replaced with its hash computed again (TamperDetected).
THEOREM TamperingIsDetected ==
  ASSUME CollisionFree
  PROVE  Spec => []TamperDetected
<1>1. ChainInv /\ ShapeInv => TamperDetected
  <2> SUFFICES ASSUME ChainInv, ShapeInv, NEW p \in Processes, NEW i \in DOMAIN events[p],
                      NEW x \in Payloads, x # events[p][i].payload
               PROVE  LET own == events[p]
                          forged == EventOf(own[i].seq, x, own[i].prev)
                      IN  /\ ~Verify([own EXCEPT ![i].payload = x])
                          /\ i < Len(own) => ~Verify([own EXCEPT ![i] = forged])
    BY DEF TamperDetected
  <2> DEFINE own == events[p]
             e == own[i]
             forged == EventOf(e.seq, x, e.prev)
  <2>1. PICK S : own \in Seq(S)
    BY DEF ChainInv, LockTypes
  <2>2. DOMAIN own = 1..Len(own) /\ Len(own) \in Nat /\ i \in 1..Len(own)
    BY <2>1, LenProperties
  <2>3. Verify(own)
    BY DEF ChainInv, AllChained, Chained
  <2>4. IsEvent(e) /\ e.hash = Hash(e.seq, e.payload, e.prev)
    BY <2>2, <2>3 DEF ShapeInv, Verify
  <2>5. own = [j \in DOMAIN own |-> own[j]]
    BY <2>1
  <2>6. ~Verify([own EXCEPT ![i].payload = x])
    <3> DEFINE t == [own EXCEPT ![i].payload = x]
    <3>1. t[i] = [e EXCEPT !.payload = x] /\ DOMAIN t = DOMAIN own
      BY <2>2, <2>5
    <3>2. t[i].seq = e.seq /\ t[i].prev = e.prev /\ t[i].hash = e.hash /\ t[i].payload = x
      BY <2>4, <3>1 DEF IsEvent, EventOf
    <3>3. Verify(t) => t[i].hash = Hash(t[i].seq, t[i].payload, t[i].prev)
      BY <3>1 DEF Verify
    <3> HIDE DEF t
    <3> QED BY <2>4, <3>2, <3>3 DEF CollisionFree, t
  <2>7. i < Len(own) => ~Verify([own EXCEPT ![i] = forged])
    <3> DEFINE t == [own EXCEPT ![i] = forged]
    <3> SUFFICES ASSUME i < Len(own), Verify(t) PROVE FALSE
      OBVIOUS
    <3>1. i + 1 \in 1..Len(own) /\ i + 1 # 1 /\ i + 1 # i /\ i + 1 - 1 = i
      BY <2>2
    <3>2. t[i] = forged /\ t[i + 1] = own[i + 1] /\ i + 1 \in DOMAIN t
      BY <2>2, <2>5, <3>1
    <3>3. own[i + 1].prev = e.hash
      BY <2>2, <2>3, <3>1 DEF Verify
    <3>4. own[i + 1].prev = t[i].hash
      BY <3>1, <3>2 DEF Verify
    <3>5. t[i].hash = Hash(e.seq, x, e.prev)
      BY <3>2 DEF EventOf
    <3> QED BY <2>4, <3>3, <3>4, <3>5 DEF CollisionFree
  <2> QED BY <2>6, <2>7
<1> QED BY InvInit, ShapeInit, ChainNext, ShapeNext, <1>1, PTL DEF Spec
=============================================================================
