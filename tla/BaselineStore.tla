--------------------------- MODULE BaselineStore ---------------------------
(***************************************************************************)
(* Continuous mode: ContinuousRunner.record over the directory of          *)
(* baselines (continuous/runner.py, continuous/baseline.py), called at the *)
(* end of every `engage` (cli.py).  A cycle is one such process.  Nothing  *)
(* keeps the cycles of an engagement apart: record is cut wherever another *)
(* cycle's access to the directory can come between.                       *)
(***************************************************************************)
EXTENDS Integers, FiniteSets

CONSTANTS
  Cycles,       \* processes that record a bundle
  Keys,         \* "technique|host" keys of a detection index
  Verdicts,     \* the verdicts bundles of this instance have
  Tools,
  Weaknesses,   \* (asset, title) pairs a finding may be about
  Limit,        \* file names have four digits: 10000 of them sort by number
  NoBaseline,
  Empty,        \* content of a file that was opened and not yet written
  Torn          \* content that is not JSON

ASSUME StoreAssumption ==
  /\ Limit \in Nat \ {0}
  /\ Verdicts \subseteq {"BLOCKED", "DETECTED", "PARTIAL", "MISSED"}

\* What record is given of a report: the verdict of each key, and for each
\* weakness the tool that is part of its finding's id (the first to report it).
Bundles ==
  [index : UNION {[K -> Verdicts] : K \in SUBSET Keys},
   finds : UNION {[W -> Tools] : W \in SUBSET Weaknesses}]

ASSUME ContentsDiffer ==
  /\ NoBaseline \notin Bundles
  /\ Empty \notin Bundles
  /\ Torn \notin Bundles
  /\ Empty # Torn

VARIABLES
  pc,        \* pc[c]: where the cycle is in record
  bundle,    \* bundle[c]: its report_data
  seen,      \* seen[c]: the file latest found last in the directory
  prior,     \* prior[c]: what latest returned
  diff,      \* diff[c]: the RegressionReport
  slot,      \* slot[c]: the number save gave its file
  number,    \* number[c]: the cycle_index it returned
  files,     \* the directory: contents by number
  last,      \* history: the bundle written last
  overlap    \* history: two cycles were in record at once

vars == <<pc, bundle, seen, prior, diff, slot, number, files, last, overlap>>
-----------------------------------------------------------------------------
(* diff_reports                                                            *)

Covered(verdict) == verdict \in {"DETECTED", "BLOCKED"}
Ids(b) == {<<b.finds[w], w>> : w \in DOMAIN b.finds}

NoDiff ==
  [regressions |-> {}, improvements |-> {}, newGaps |-> {}, resolvedGaps |-> {},
   newFindings |-> {}, resolvedFindings |-> {}]

\* Mutant: a key the current report lacks is not looked at for gaps resolved,
\* and a new gap is looked for among the keys both reports have.
DiffReportsButCommonKeys(base, cur) ==
  LET both == DOMAIN base.index \cap DOMAIN cur.index
  IN  [regressions |-> {k \in both : Covered(base.index[k]) /\ ~Covered(cur.index[k])},
       improvements |-> {k \in both : ~Covered(base.index[k]) /\ Covered(cur.index[k])},
       newGaps |-> {}, resolvedGaps |-> {},
       newFindings |-> Ids(cur) \ Ids(base), resolvedFindings |-> Ids(base) \ Ids(cur)]

DiffReports(base, cur) ==
  LET both == DOMAIN base.index \cap DOMAIN cur.index
  IN  [regressions |-> {k \in both : Covered(base.index[k]) /\ ~Covered(cur.index[k])},
       improvements |-> {k \in both : ~Covered(base.index[k]) /\ Covered(cur.index[k])},
       newGaps |-> {k \in DOMAIN cur.index \ both : ~Covered(cur.index[k])},
       resolvedGaps |-> {k \in DOMAIN base.index \ both : ~Covered(base.index[k])},
       newFindings |-> Ids(cur) \ Ids(base),
       resolvedFindings |-> Ids(base) \ Ids(cur)]
-----------------------------------------------------------------------------
(* The directory.                                                          *)

\* BaselineStore.count, also the number save gives the next file.
Count == Cardinality(DOMAIN files)

\* Mutant: the first of the sorted names.
NewestOldest == 0

\* The last of the sorted names.  With more than Limit files the names have
\* different lengths, and 9999 sorts after 10000.
Newest == IF Count <= Limit THEN Count - 1 ELSE Limit - 1

Active(c) == pc[c] \in {"glob", "read", "count", "open", "write", "index"}

Init ==
  /\ pc = [c \in Cycles |-> "idle"]
  /\ bundle = [c \in Cycles |-> NoBaseline]
  /\ seen = [c \in Cycles |-> 0]
  /\ prior = [c \in Cycles |-> NoBaseline]
  /\ diff = [c \in Cycles |-> NoDiff]
  /\ slot = [c \in Cycles |-> 0]
  /\ number = [c \in Cycles |-> 0]
  /\ files = [i \in {} |-> Empty]
  /\ last = NoBaseline
  /\ overlap = FALSE

\* An engagement is complete: its bundle is built and record is called.
Record(c, b) ==
  /\ pc[c] = "idle"
  /\ pc' = [pc EXCEPT ![c] = "glob"]
  /\ bundle' = [bundle EXCEPT ![c] = b]
  /\ overlap' = (overlap \/ \E d \in Cycles : Active(d))
  /\ UNCHANGED <<seen, prior, diff, slot, number, files, last>>

\* latest: the names are listed; without any there is nothing to read.
Glob(c) ==
  /\ pc[c] = "glob"
  /\ IF Count = 0
       THEN /\ pc' = [pc EXCEPT ![c] = "count"]
            /\ UNCHANGED seen
       ELSE /\ pc' = [pc EXCEPT ![c] = "read"]
            /\ seen' = [seen EXCEPT ![c] = Newest]
  /\ UNCHANGED <<bundle, prior, diff, slot, number, files, last, overlap>>

\* latest: the file is read, and the diff with it computed.
Read(c) ==
  /\ pc[c] = "read"
  /\ files[seen[c]] \notin {Empty, Torn}
  /\ pc' = [pc EXCEPT ![c] = "count"]
  /\ prior' = [prior EXCEPT ![c] = files[seen[c]]]
  /\ diff' = [diff EXCEPT ![c] = DiffReports(files[seen[c]], bundle[c])]
  /\ UNCHANGED <<bundle, seen, slot, number, files, last, overlap>>

\* latest: json.loads raises, and nothing catches it.
ReadFails(c) ==
  /\ pc[c] = "read"
  /\ files[seen[c]] \in {Empty, Torn}
  /\ pc' = [pc EXCEPT ![c] = "failed"]
  /\ UNCHANGED <<bundle, seen, prior, diff, slot, number, files, last, overlap>>

\* Mutant: the number after the last name's, counted from one.
NumberFromOne(c) ==
  /\ pc[c] = "count"
  /\ pc' = [pc EXCEPT ![c] = "open"]
  /\ slot' = [slot EXCEPT ![c] = Count + 1]
  /\ UNCHANGED <<bundle, seen, prior, diff, number, files, last, overlap>>

\* Mutant: the number of the file that was compared with, when there is one.
NumberLast(c) ==
  /\ pc[c] = "count"
  /\ pc' = [pc EXCEPT ![c] = "open"]
  /\ slot' = [slot EXCEPT ![c] = IF Count = 0 THEN 0 ELSE Count - 1]
  /\ UNCHANGED <<bundle, seen, prior, diff, number, files, last, overlap>>

\* save: the file's number is the number of files.
Number(c) ==
  /\ pc[c] = "count"
  /\ pc' = [pc EXCEPT ![c] = "open"]
  /\ slot' = [slot EXCEPT ![c] = Count]
  /\ UNCHANGED <<bundle, seen, prior, diff, number, files, last, overlap>>

\* save: write_text opens the file, which creates or empties it.
Open(c) ==
  /\ pc[c] = "open"
  /\ pc' = [pc EXCEPT ![c] = "write"]
  /\ files' = [i \in DOMAIN files \cup {slot[c]} |->
                 IF i = slot[c] THEN Empty ELSE files[i]]
  /\ UNCHANGED <<bundle, seen, prior, diff, slot, number, last, overlap>>

\* save: the text is written.  Over what another cycle wrote since the file
\* was opened, the end of a longer text stays behind.
Write(c) ==
  /\ pc[c] = "write"
  /\ pc' = [pc EXCEPT ![c] = "index"]
  /\ \E text \in {bundle[c], Torn} :
       /\ text = Torn => files[slot[c]] # Empty
       /\ files' = [files EXCEPT ![slot[c]] = text]
  /\ last' = bundle[c]
  /\ UNCHANGED <<bundle, seen, prior, diff, slot, number, overlap>>

\* record returns: the cycle's index is the number of files less one.
Return(c) ==
  /\ pc[c] = "index"
  /\ pc' = [pc EXCEPT ![c] = "done"]
  /\ number' = [number EXCEPT ![c] = Count - 1]
  /\ UNCHANGED <<bundle, seen, prior, diff, slot, files, last, overlap>>

\* The process dies, or the file system raises: a file that was opened and
\* not written stays as it is.
Fail(c) ==
  /\ Active(c)
  /\ pc' = [pc EXCEPT ![c] = "failed"]
  /\ UNCHANGED <<bundle, seen, prior, diff, slot, number, files, last, overlap>>

Next ==
  \E c \in Cycles :
    \/ \E b \in Bundles : Record(c, b)
    \/ Glob(c) \/ Read(c) \/ ReadFails(c)
    \/ Number(c) \/ Open(c) \/ Write(c) \/ Return(c)
    \/ Fail(c)

Spec == Init /\ [][Next]_vars
-----------------------------------------------------------------------------
Diffs ==
  [regressions : SUBSET Keys, improvements : SUBSET Keys,
   newGaps : SUBSET Keys, resolvedGaps : SUBSET Keys,
   newFindings : SUBSET (Tools \X Weaknesses),
   resolvedFindings : SUBSET (Tools \X Weaknesses)]

\* The variables have their types, and however cycles overlap and fail the files
\* are numbered from 0 without a gap: counting names never skips a number, only
\* files that exist are read, and the count stays the next free number.
TypeOK ==
  /\ pc \in [Cycles -> {"idle", "glob", "read", "count", "open", "write",
                        "index", "done", "failed"}]
  /\ bundle \in [Cycles -> Bundles \cup {NoBaseline}]
  /\ seen \in [Cycles -> Nat]
  /\ prior \in [Cycles -> Bundles \cup {NoBaseline}]
  /\ diff \in [Cycles -> Diffs]
  /\ slot \in [Cycles -> Nat]
  /\ number \in [Cycles -> Nat]
  /\ DOMAIN files = 0 .. (Count - 1)
  /\ \A i \in DOMAIN files : files[i] \in Bundles \cup {Empty, Torn}
  /\ last \in Bundles \cup {NoBaseline}
  /\ overlap \in BOOLEAN
  /\ \A c \in Cycles : /\ pc[c] # "idle" => bundle[c] \in Bundles
                       /\ pc[c] = "read" => seen[c] \in DOMAIN files
                       /\ pc[c] = "write" => slot[c] \in DOMAIN files

\* As long as cycles come one after the other, and fewer files than Limit were
\* there, a cycle compares with the bundle recorded before it, failed cycles
\* between them or not, and the index it returns is that of its own bundle
\* ("newest last", baseline.py; runner.py, record).
CyclesChain ==
  ~overlap =>
    \A c \in Cycles :
      /\ pc[c] \in {"count", "open"} /\ Count <= Limit => prior[c] = last
      /\ pc[c] = "done" => /\ number[c] \in DOMAIN files
                           /\ files[number[c]] = bundle[c]

\* The comparison, by what happened to each weakness and each key: a weakness
\* that is only in one of the reports is always reported new or resolved, one in
\* both is so exactly when another tool found it first; a key that both have is
\* a regression or improvement exactly when its coverage changed, and a gap that
\* is only in one is a new or resolved one (diff_reports).
DiffTellsChanges ==
  \A c \in Cycles :
    prior[c] # NoBaseline =>
      LET old == prior[c]
          new == bundle[c]
          d   == diff[c]
          Gap(b, k) == k \in DOMAIN b.index /\ b.index[k] \in {"MISSED", "PARTIAL"}
          Caught(b, k) == k \in DOMAIN b.index /\ ~Gap(b, k)
          Changed(w) == w \in DOMAIN old.finds /\ w \in DOMAIN new.finds
                          /\ old.finds[w] # new.finds[w]
      IN  /\ \A w \in Weaknesses :
               /\ (\E t \in Tools : <<t, w>> \in d.newFindings)
                    <=> (w \in DOMAIN new.finds \ DOMAIN old.finds \/ Changed(w))
               /\ (\E t \in Tools : <<t, w>> \in d.resolvedFindings)
                    <=> (w \in DOMAIN old.finds \ DOMAIN new.finds \/ Changed(w))
          /\ \A k \in Keys :
               /\ k \in d.regressions <=> Caught(old, k) /\ Gap(new, k)
               /\ k \in d.improvements <=> Gap(old, k) /\ Caught(new, k)
               /\ k \in d.newGaps \cup d.regressions <=>
                    Gap(new, k) /\ ~Gap(old, k)
               /\ k \in d.resolvedGaps \cup d.improvements <=>
                    Gap(old, k) /\ ~Gap(new, k)

\* "Append-only store" (baseline.py): until two cycles overlap, a file that holds
\* a whole bundle is never written again, even after cycles that failed.
AppendOnlyAlone ==
  [][~overlap' => \A i \in DOMAIN files :
                    files[i] \in Bundles => /\ i \in DOMAIN files'
                                            /\ files'[i] = files[i]]_vars
=============================================================================
