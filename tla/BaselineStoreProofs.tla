------------------------- MODULE BaselineStoreProofs -------------------------
(***************************************************************************)
(* Theorems about BaselineStore, for any number of cycles, keys, weak-     *)
(* nesses, tools and files: the numbers of the files, what a cycle is      *)
(* compared with, what the comparison says, and what is written over.      *)
(***************************************************************************)
EXTENDS BaselineStore, FiniteSetTheorems, TLAPS

LEMMA BundleFields ==
  ASSUME NEW b \in Bundles
  PROVE  /\ DOMAIN b.index \subseteq Keys /\ \A k \in DOMAIN b.index : b.index[k] \in Verdicts
         /\ DOMAIN b.finds \subseteq Weaknesses
         /\ \A w \in DOMAIN b.finds : b.finds[w] \in Tools
<1>1. PICK K \in SUBSET Keys : b.index \in [K -> Verdicts]
  BY DEF Bundles
<1>2. PICK W \in SUBSET Weaknesses : b.finds \in [W -> Tools]
  BY DEF Bundles
<1> QED BY <1>1, <1>2

LEMMA DiffTypes ==
  /\ NoDiff \in Diffs
  /\ \A b, c \in Bundles : DiffReports(b, c) \in Diffs
<1>1. \A b \in Bundles : Ids(b) \subseteq Tools \X Weaknesses
  BY BundleFields DEF Ids
<1>2. ASSUME NEW b \in Bundles, NEW c \in Bundles PROVE DiffReports(b, c) \in Diffs
  <2>1. DOMAIN b.index \subseteq Keys /\ DOMAIN c.index \subseteq Keys
    BY BundleFields
  <2>2. Ids(b) \subseteq Tools \X Weaknesses /\ Ids(c) \subseteq Tools \X Weaknesses
    BY <1>1
  <2> HIDE DEF Ids
  <2> QED BY <2>1, <2>2 DEF DiffReports, Diffs
<1> QED BY <1>2 DEF NoDiff, Diffs

-----------------------------------------------------------------------------
(* The numbers of the files.                                               *)

LEMMA NumbersCount ==
  ASSUME NEW n \in Nat
  PROVE  Cardinality(0 .. (n - 1)) = n
<1>1. Cardinality(0 .. (n - 1)) = IF 0 > n - 1 THEN 0 ELSE (n - 1) - 0 + 1
  BY FS_Interval
<1> QED BY <1>1

\* Where the files of the cycles in record are.
PlaceInv ==
  /\ Count \in Nat
  /\ DOMAIN files = 0 .. (Count - 1)
  /\ \A c \in Cycles :
       /\ pc[c] = "read" => seen[c] \in DOMAIN files
       /\ pc[c] = "open" => slot[c] \in 0 .. Count
       /\ pc[c] \in {"write", "index"} => slot[c] \in DOMAIN files

StoreInv == TypeOK /\ PlaceInv

LEMMA StoreInit == Init => StoreInv
<1> SUFFICES ASSUME Init PROVE StoreInv
  OBVIOUS
<1>1. DOMAIN files = {} /\ Count = 0
  BY FS_EmptySet DEF Init, Count
<1>2. 0 .. (Count - 1) = {}
  BY <1>1
<1>3. NoDiff \in Diffs
  BY DiffTypes
<1> QED BY <1>1, <1>2, <1>3 DEF Init, StoreInv, TypeOK, PlaceInv

\* Opening a file with a number up to the next free one leaves no gap.
LEMMA OpenPlaces ==
  ASSUME PlaceInv, NEW c \in Cycles, Open(c)
  PROVE  /\ Count' \in Nat /\ DOMAIN files' = 0 .. (Count' - 1)
         /\ Count' = IF slot[c] = Count THEN Count + 1 ELSE Count
         /\ slot[c] \in DOMAIN files' /\ DOMAIN files \subseteq DOMAIN files'
<1>1. /\ slot[c] \in 0 .. Count /\ Count \in Nat /\ DOMAIN files = 0 .. (Count - 1)
      /\ DOMAIN files' = DOMAIN files \cup {slot[c]}
  BY DEF PlaceInv, Open
<1>2. DOMAIN files' = 0 .. ((IF slot[c] = Count THEN Count + 1 ELSE Count) - 1)
  BY <1>1
<1>3. Count' = IF slot[c] = Count THEN Count + 1 ELSE Count
  BY <1>1, <1>2, NumbersCount DEF Count
<1> QED BY <1>1, <1>2, <1>3

\* A step that leaves the files alone leaves their number alone.
LEMMA SameFiles == files' = files => Count' = Count
BY DEF Count

LEMMA StoreNext == StoreInv /\ [Next]_vars => StoreInv'
<1> SUFFICES ASSUME StoreInv, [Next]_vars PROVE StoreInv'
  OBVIOUS
<1>1. TypeOK /\ PlaceInv /\ Count \in Nat
  BY DEF StoreInv, PlaceInv
<1>2. ASSUME NEW c \in Cycles, NEW b \in Bundles, Record(c, b) PROVE StoreInv'
  <2>1. Count' = Count /\ files' = files
    BY <1>2, SameFiles DEF Record
  <2>2. TypeOK'
    BY <1>1, <1>2, <2>1 DEF TypeOK, Record
  <2> QED BY <1>1, <1>2, <2>1, <2>2 DEF StoreInv, TypeOK, PlaceInv, Record
<1>3. ASSUME NEW c \in Cycles, Glob(c) PROVE StoreInv'
  <2>1. Count' = Count /\ files' = files
    BY <1>3, SameFiles DEF Glob
  <2>2. Limit \in Nat \ {0}
    BY StoreAssumption
  <2>3. CASE Count = 0
    BY <1>1, <1>3, <2>1, <2>3 DEF StoreInv, TypeOK, PlaceInv, Glob
  <2>4. CASE Count # 0
    <3>1. Newest \in Nat /\ Newest \in DOMAIN files
      BY <1>1, <2>2, <2>4 DEF Newest, PlaceInv
    <3>2. pc' = [pc EXCEPT ![c] = "read"] /\ seen' = [seen EXCEPT ![c] = Newest]
          /\ UNCHANGED <<bundle, prior, diff, slot, number, files, last, overlap>>
      BY <1>3, <2>4 DEF Glob
    <3>3. pc[c] = "glob"
      BY <1>3 DEF Glob
    <3> HIDE DEF Newest
    <3>4. TypeOK'
      BY <1>1, <2>1, <3>1, <3>2, <3>3 DEF TypeOK
    <3>5. PlaceInv'
      BY <1>1, <2>1, <3>1, <3>2, <3>3 DEF TypeOK, PlaceInv
    <3> QED BY <3>4, <3>5 DEF StoreInv
  <2> QED BY <2>3, <2>4
<1>4. ASSUME NEW c \in Cycles, Read(c) PROVE StoreInv'
  <2>1. Count' = Count /\ files' = files
    BY <1>4, SameFiles DEF Read
  <2>2. files[seen[c]] \in Bundles /\ bundle[c] \in Bundles
    BY <1>1, <1>4 DEF TypeOK, Read
  <2>3. DiffReports(files[seen[c]], bundle[c]) \in Diffs
    BY <2>2, DiffTypes
  <2> HIDE DEF DiffReports
  <2> QED BY <1>1, <1>4, <2>1, <2>2, <2>3 DEF StoreInv, TypeOK, PlaceInv, Read
<1>5. ASSUME NEW c \in Cycles, ReadFails(c) \/ Fail(c) PROVE StoreInv'
  <2>1. Count' = Count /\ files' = files
    BY <1>5, SameFiles DEF ReadFails, Fail
  <2>2. pc' = [pc EXCEPT ![c] = "failed"] /\ pc[c] # "idle"
        /\ UNCHANGED <<bundle, seen, prior, diff, slot, number, last, overlap>>
    BY <1>5 DEF ReadFails, Fail, Active
  <2> QED BY <1>1, <2>1, <2>2 DEF StoreInv, TypeOK, PlaceInv
<1>6. ASSUME NEW c \in Cycles, Number(c) PROVE StoreInv'
  <2>1. Count' = Count /\ files' = files
    BY <1>6, SameFiles DEF Number
  <2>2. Count \in 0 .. Count
    BY <1>1
  <2>3. pc[c] = "count" /\ pc' = [pc EXCEPT ![c] = "open"] /\ slot' = [slot EXCEPT ![c] = Count]
        /\ UNCHANGED <<bundle, seen, prior, diff, number, last, overlap>>
    BY <1>6 DEF Number
  <2> QED BY <1>1, <2>1, <2>2, <2>3 DEF StoreInv, TypeOK, PlaceInv
<1>7. ASSUME NEW c \in Cycles, Open(c) PROVE StoreInv'
  <2>1. /\ Count' \in Nat /\ DOMAIN files' = 0 .. (Count' - 1) /\ Count <= Count'
        /\ slot[c] \in DOMAIN files' /\ DOMAIN files \subseteq DOMAIN files'
    BY <1>1, <1>7, OpenPlaces
  <2>2. /\ pc[c] = "open" /\ pc' = [pc EXCEPT ![c] = "write"]
        /\ files' = [i \in DOMAIN files \cup {slot[c]} |->
                       IF i = slot[c] THEN Empty ELSE files[i]]
        /\ UNCHANGED <<bundle, seen, prior, diff, slot, number, last, overlap>>
    BY <1>7 DEF Open
  <2>3. \A i \in DOMAIN files' : files'[i] \in Bundles \cup {Empty, Torn}
    BY <1>1, <2>2 DEF TypeOK
  <2>4. TypeOK'
    BY <1>1, <2>1, <2>2, <2>3 DEF TypeOK
  <2>5. PlaceInv'
    BY <1>1, <2>1, <2>2 DEF TypeOK, PlaceInv
  <2> QED BY <2>4, <2>5 DEF StoreInv
<1>8. ASSUME NEW c \in Cycles, Write(c) PROVE StoreInv'
  <2>1. /\ pc[c] = "write" /\ pc' = [pc EXCEPT ![c] = "index"]
        /\ last' = bundle[c]
        /\ UNCHANGED <<bundle, seen, prior, diff, slot, number, overlap>>
    BY <1>8 DEF Write
  <2>2. PICK text \in {bundle[c], Torn} : files' = [files EXCEPT ![slot[c]] = text]
    BY <1>8 DEF Write
  <2>3. bundle[c] \in Bundles
    BY <1>1, <2>1 DEF TypeOK
  <2>4. DOMAIN files' = DOMAIN files
    BY <2>2
  <2>5. Count' = Count
    BY <2>4 DEF Count
  <2>6. \A i \in DOMAIN files' : files'[i] \in Bundles \cup {Empty, Torn}
    BY <1>1, <2>2, <2>3 DEF TypeOK
  <2>7. TypeOK'
    BY <1>1, <2>1, <2>3, <2>4, <2>5, <2>6 DEF TypeOK
  <2>8. PlaceInv'
    BY <1>1, <2>1, <2>4, <2>5 DEF TypeOK, PlaceInv
  <2> QED BY <2>7, <2>8 DEF StoreInv
<1>9. ASSUME NEW c \in Cycles, Return(c) PROVE StoreInv'
  <2>1. Count' = Count /\ files' = files
    BY <1>9, SameFiles DEF Return
  <2>2. pc[c] = "index" /\ pc' = [pc EXCEPT ![c] = "done"]
        /\ number' = [number EXCEPT ![c] = Count - 1]
        /\ UNCHANGED <<bundle, seen, prior, diff, slot, last, overlap>>
    BY <1>9 DEF Return
  <2>3. slot[c] \in 0 .. (Count - 1)
    BY <1>1, <2>2 DEF PlaceInv
  <2>4. Count - 1 \in Nat
    BY <1>1, <2>3
  <2> QED BY <1>1, <2>1, <2>2, <2>4 DEF StoreInv, TypeOK, PlaceInv
<1>10. CASE UNCHANGED vars
  <2>1. Count' = Count
    BY <1>10, SameFiles DEF vars
  <2> QED BY <1>1, <1>10, <2>1 DEF vars, StoreInv, TypeOK, PlaceInv
<1> QED BY <1>2, <1>3, <1>4, <1>5, <1>6, <1>7, <1>8, <1>9, <1>10 DEF Next

LEMMA StoreInvHolds == Spec => []StoreInv
BY StoreInit, StoreNext, PTL DEF Spec

\* The variables keep their types, and however cycles overlap and fail the files are
\* numbered from 0 without a gap (TypeOK).
THEOREM FilesNumbered == Spec => []TypeOK
BY StoreInvHolds, PTL DEF StoreInv

-----------------------------------------------------------------------------
(* The comparison.                                                         *)

\* A cycle that has not read the last bundle has compared nothing.
DiffInv ==
  \A c \in Cycles :
    /\ pc[c] \in {"idle", "glob", "read"} => prior[c] = NoBaseline
    /\ prior[c] # NoBaseline => diff[c] = DiffReports(prior[c], bundle[c])

LEMMA DiffNext == StoreInv /\ DiffInv /\ [Next]_vars => DiffInv'
<1> SUFFICES ASSUME StoreInv, DiffInv, [Next]_vars PROVE DiffInv'
  OBVIOUS
<1> USE DEF StoreInv, TypeOK, DiffInv
<1> HIDE DEF DiffReports
<1>1. ASSUME NEW c \in Cycles, NEW b \in Bundles, Record(c, b) PROVE DiffInv'
  BY <1>1 DEF Record
<1>2. ASSUME NEW c \in Cycles, Glob(c) PROVE DiffInv'
  BY <1>2 DEF Glob
<1>3. ASSUME NEW c \in Cycles, Read(c) PROVE DiffInv'
  BY <1>3 DEF Read
<1>4. ASSUME NEW c \in Cycles, ReadFails(c) \/ Number(c) \/ Open(c) \/ Return(c) \/ Fail(c)
      PROVE  DiffInv'
  BY <1>4 DEF ReadFails, Number, Open, Return, Fail, Active
<1>5. ASSUME NEW c \in Cycles, Write(c) PROVE DiffInv'
  BY <1>5 DEF Write
<1>6. CASE UNCHANGED vars
  BY <1>6 DEF vars
<1> QED BY <1>1, <1>2, <1>3, <1>4, <1>5, <1>6 DEF Next

\* DiffTellsChanges: the comparison says of each weakness and each key what became of
\* it since the bundle it was compared with.
THEOREM DiffIsRight == Spec => []DiffTellsChanges
<1>1. Init => DiffInv
  BY DEF Init, DiffInv
<1>2. ASSUME StoreInv, DiffInv PROVE DiffTellsChanges
  <2> SUFFICES ASSUME NEW c \in Cycles, prior[c] # NoBaseline
               PROVE  LET old == prior[c]
                          new == bundle[c]
                          d   == diff[c]
                          Gap(b, k) == k \in DOMAIN b.index /\ b.index[k] \in {"MISSED", "PARTIAL"}
                          Caught(b, k) == k \in DOMAIN b.index /\ ~Gap(b, k)
                          Changed(w) == w \in DOMAIN old.finds /\ w \in DOMAIN new.finds
                                          /\ old.finds[w] # new.finds[w]
                      IN  /\ \A w \in Weaknesses :
                               /\ (\E t \in Tools : <<t, w>> \in d.newFindings)
                                    <=> (w \in DOMAIN new.finds \ DOMAIN old.finds \/ Changed(w))
                               /\ (\E t \in Tools : <<t, w>> \in d.resolvedFindings)
                                    <=> (w \in DOMAIN old.finds \ DOMAIN new.finds \/ Changed(w))
                          /\ \A k \in Keys :
                               /\ k \in d.regressions <=> Caught(old, k) /\ Gap(new, k)
                               /\ k \in d.improvements <=> Gap(old, k) /\ Caught(new, k)
                               /\ k \in d.newGaps \cup d.regressions <=>
                                    Gap(new, k) /\ ~Gap(old, k)
                               /\ k \in d.resolvedGaps \cup d.improvements <=>
                                    Gap(old, k) /\ ~Gap(new, k)
    BY DEF DiffTellsChanges
  <2> DEFINE old == prior[c]
             new == bundle[c]
             d == diff[c]
             Gap(b, k) == k \in DOMAIN b.index /\ b.index[k] \in {"MISSED", "PARTIAL"}
             Caught(b, k) == k \in DOMAIN b.index /\ ~Gap(b, k)
             Changed(w) == w \in DOMAIN old.finds /\ w \in DOMAIN new.finds
                             /\ old.finds[w] # new.finds[w]
  <2>1. old \in Bundles /\ new \in Bundles /\ d = DiffReports(old, new)
    BY <1>2 DEF StoreInv, TypeOK, DiffInv
  <2>2. /\ d.newFindings = Ids(new) \ Ids(old) /\ d.resolvedFindings = Ids(old) \ Ids(new)
        /\ d.regressions = {k \in DOMAIN old.index \cap DOMAIN new.index :
                              Covered(old.index[k]) /\ ~Covered(new.index[k])}
        /\ d.improvements = {k \in DOMAIN old.index \cap DOMAIN new.index :
                              ~Covered(old.index[k]) /\ Covered(new.index[k])}
        /\ d.newGaps = {k \in DOMAIN new.index \ (DOMAIN old.index \cap DOMAIN new.index) :
                          ~Covered(new.index[k])}
        /\ d.resolvedGaps = {k \in DOMAIN old.index \ (DOMAIN old.index \cap DOMAIN new.index) :
                               ~Covered(old.index[k])}
    BY <2>1 DEF DiffReports
  <2>3. ASSUME NEW b \in Bundles, NEW w \in Weaknesses, NEW t
        PROVE  <<t, w>> \in Ids(b) <=> w \in DOMAIN b.finds /\ t = b.finds[w]
    BY DEF Ids
  <2>4. ASSUME NEW w \in Weaknesses
        PROVE  /\ (\E t \in Tools : <<t, w>> \in d.newFindings)
                    <=> (w \in DOMAIN new.finds \ DOMAIN old.finds \/ Changed(w))
               /\ (\E t \in Tools : <<t, w>> \in d.resolvedFindings)
                    <=> (w \in DOMAIN old.finds \ DOMAIN new.finds \/ Changed(w))
    <3>1. /\ w \in DOMAIN old.finds => old.finds[w] \in Tools
          /\ w \in DOMAIN new.finds => new.finds[w] \in Tools
      BY <2>1, BundleFields
    <3>2. \A t \in Tools : /\ <<t, w>> \in d.newFindings
                                <=> <<t, w>> \in Ids(new) /\ <<t, w>> \notin Ids(old)
                           /\ <<t, w>> \in d.resolvedFindings
                                <=> <<t, w>> \in Ids(old) /\ <<t, w>> \notin Ids(new)
      BY <2>2
    <3>3. \A t \in Tools : /\ <<t, w>> \in Ids(new) <=> w \in DOMAIN new.finds /\ t = new.finds[w]
                           /\ <<t, w>> \in Ids(old) <=> w \in DOMAIN old.finds /\ t = old.finds[w]
      BY <2>1, <2>3
    <3> HIDE DEF old, new, d
    <3> QED BY <3>1, <3>2, <3>3
  <2>5. ASSUME NEW b \in Bundles, NEW k \in DOMAIN b.index
        PROVE  Covered(b.index[k]) <=> b.index[k] \notin {"MISSED", "PARTIAL"}
    BY BundleFields, StoreAssumption DEF Covered
  <2>6. ASSUME NEW k \in Keys
        PROVE  /\ k \in d.regressions <=> Caught(old, k) /\ Gap(new, k)
               /\ k \in d.improvements <=> Gap(old, k) /\ Caught(new, k)
               /\ k \in d.newGaps \cup d.regressions <=> Gap(new, k) /\ ~Gap(old, k)
               /\ k \in d.resolvedGaps \cup d.improvements <=> Gap(old, k) /\ ~Gap(new, k)
    <3>1. /\ k \in DOMAIN old.index => (Covered(old.index[k]) <=> old.index[k] \notin {"MISSED", "PARTIAL"})
          /\ k \in DOMAIN new.index => (Covered(new.index[k]) <=> new.index[k] \notin {"MISSED", "PARTIAL"})
      BY <2>1, <2>5
    <3> HIDE DEF old, new, d
    <3> QED BY <2>2, <3>1
  <2> QED BY <2>4, <2>6
<1> QED BY <1>1, <1>2, DiffNext, StoreInvHolds, PTL DEF Spec

-----------------------------------------------------------------------------
(* Cycles that come one after the other.                                   *)

\* One cycle is in record at a time; the newest file is the bundle written last, or one
\* that a cycle opened and died over; the cycle writes after the newest file.
AloneInv ==
  /\ \A c, d \in Cycles : Active(c) /\ Active(d) => c = d
  /\ \/ Count = 0 /\ last = NoBaseline
     \/ Count > 0 /\ files[Count - 1] \in {Empty, last}
  /\ \A c \in Cycles :
       /\ pc[c] = "read" /\ Count <= Limit => seen[c] = Count - 1
       /\ pc[c] \in {"count", "open"} /\ Count <= Limit => prior[c] = last
       /\ pc[c] = "open" => slot[c] = Count
       /\ pc[c] = "write" => slot[c] = Count - 1 /\ files[slot[c]] = Empty
       /\ pc[c] = "index" => slot[c] = Count - 1 /\ files[slot[c]] = bundle[c]
       /\ pc[c] = "done" => number[c] \in DOMAIN files /\ files[number[c]] = bundle[c]

ChainInv == StoreInv /\ DiffInv /\ (~overlap => AloneInv)

LEMMA AloneNext ==
  ASSUME StoreInv, DiffInv, AloneInv, [Next]_vars, ~overlap'
  PROVE  AloneInv'
<1>1. TypeOK /\ PlaceInv /\ Count \in Nat /\ Limit \in Nat /\ DOMAIN files = 0 .. (Count - 1)
  BY StoreAssumption DEF StoreInv, PlaceInv
<1>2. ASSUME NEW c \in Cycles, NEW b \in Bundles, Record(c, b) PROVE AloneInv'
  <2>1. Count' = Count /\ files' = files
    BY <1>2, SameFiles DEF Record
  <2>2. \A d \in Cycles : ~Active(d)
    BY <1>2 DEF Record
  <2>3. /\ pc[c] = "idle" /\ pc' = [pc EXCEPT ![c] = "glob"]
        /\ bundle' = [bundle EXCEPT ![c] = b]
        /\ UNCHANGED <<seen, prior, diff, slot, number, files, last>>
    BY <1>2 DEF Record
  <2> QED BY <1>1, <2>1, <2>2, <2>3 DEF AloneInv, Active, TypeOK
<1>3. ASSUME NEW c \in Cycles, Glob(c) PROVE AloneInv'
  <2>1. Count' = Count /\ files' = files
    BY <1>3, SameFiles DEF Glob
  <2>2. CASE Count = 0
    <3>1. /\ pc[c] = "glob" /\ pc' = [pc EXCEPT ![c] = "count"]
          /\ UNCHANGED <<seen, bundle, prior, diff, slot, number, files, last>>
      BY <1>3, <2>2 DEF Glob
    <3>2. prior[c] = NoBaseline /\ last = NoBaseline
      BY <2>2, <3>1 DEF DiffInv, AloneInv
    <3> QED BY <1>1, <2>1, <3>1, <3>2 DEF AloneInv, Active, TypeOK
  <2>3. CASE Count # 0
    <3>1. /\ pc[c] = "glob" /\ pc' = [pc EXCEPT ![c] = "read"]
          /\ seen' = [seen EXCEPT ![c] = Newest]
          /\ UNCHANGED <<bundle, prior, diff, slot, number, files, last>>
      BY <1>3, <2>3 DEF Glob
    <3>2. Count <= Limit => Newest = Count - 1
      BY DEF Newest
    <3> HIDE DEF Newest
    <3> QED BY <1>1, <2>1, <3>1, <3>2 DEF AloneInv, Active, TypeOK
  <2> QED BY <2>2, <2>3
<1>4. ASSUME NEW c \in Cycles, Read(c) PROVE AloneInv'
  <2>1. Count' = Count /\ files' = files
    BY <1>4, SameFiles DEF Read
  <2>2. /\ pc[c] = "read" /\ pc' = [pc EXCEPT ![c] = "count"]
        /\ prior' = [prior EXCEPT ![c] = files[seen[c]]]
        /\ files[seen[c]] \notin {Empty, Torn}
        /\ UNCHANGED <<bundle, seen, slot, number, files, last>>
    BY <1>4 DEF Read
  <2>3. Count > 0
    BY <1>1, <2>2 DEF PlaceInv
  <2>4. Count <= Limit => files[seen[c]] = last
    BY <1>1, <2>2, <2>3 DEF AloneInv
  <2> QED BY <1>1, <2>1, <2>2, <2>4 DEF AloneInv, Active, TypeOK
<1>5. ASSUME NEW c \in Cycles, ReadFails(c) \/ Fail(c) PROVE AloneInv'
  <2>1. Count' = Count /\ files' = files
    BY <1>5, SameFiles DEF ReadFails, Fail
  <2>2. pc' = [pc EXCEPT ![c] = "failed"]
        /\ UNCHANGED <<bundle, seen, prior, diff, slot, number, last>>
    BY <1>5 DEF ReadFails, Fail
  <2> QED BY <1>1, <2>1, <2>2 DEF AloneInv, Active, TypeOK
<1>6. ASSUME NEW c \in Cycles, Number(c) PROVE AloneInv'
  <2>1. Count' = Count /\ files' = files
    BY <1>6, SameFiles DEF Number
  <2>2. pc[c] = "count" /\ pc' = [pc EXCEPT ![c] = "open"] /\ slot' = [slot EXCEPT ![c] = Count]
        /\ UNCHANGED <<bundle, seen, prior, diff, number, last>>
    BY <1>6 DEF Number
  <2> QED BY <1>1, <2>1, <2>2 DEF AloneInv, Active, TypeOK
<1>7. ASSUME NEW c \in Cycles, Open(c) PROVE AloneInv'
  <2>1. slot[c] = Count /\ \A d \in Cycles : Active(d) => d = c
    BY <1>7 DEF AloneInv, Open, Active
  <2>2. Count' = Count + 1 /\ DOMAIN files \subseteq DOMAIN files' /\ slot[c] \in DOMAIN files'
    BY <1>1, <1>7, <2>1, OpenPlaces
  <2>3. /\ pc[c] = "open" /\ pc' = [pc EXCEPT ![c] = "write"]
        /\ UNCHANGED <<bundle, seen, prior, diff, slot, number, last>>
    BY <1>7 DEF Open
  <2>4. files'[slot[c]] = Empty /\ \A i \in DOMAIN files : files'[i] = files[i]
    BY <1>1, <1>7, <2>1 DEF Open
  <2>5. \A d \in Cycles : pc'[d] = IF d = c THEN "write" ELSE pc[d]
    BY <1>1, <2>3 DEF TypeOK
  <2>6. \A d \in Cycles : Active(d)' => d = c
    BY <2>1, <2>5 DEF Active
  <2>7. \A d \in Cycles : pc'[d] = "done" => number'[d] \in DOMAIN files' /\ files'[number'[d]] = bundle'[d]
    BY <2>2, <2>3, <2>4, <2>5 DEF AloneInv
  <2> QED BY <1>1, <2>1, <2>2, <2>3, <2>4, <2>5, <2>6, <2>7 DEF AloneInv, Active
<1>8. ASSUME NEW c \in Cycles, Write(c) PROVE AloneInv'
  <2>1. slot[c] = Count - 1 /\ files[slot[c]] = Empty /\ \A d \in Cycles : Active(d) => d = c
    BY <1>8 DEF AloneInv, Write, Active
  <2>2. /\ pc[c] = "write" /\ pc' = [pc EXCEPT ![c] = "index"]
        /\ last' = bundle[c]
        /\ UNCHANGED <<bundle, seen, prior, diff, slot, number>>
    BY <1>8 DEF Write
  <2>3. files' = [files EXCEPT ![slot[c]] = bundle[c]]
    BY <1>8, <2>1 DEF Write
  <2>4. DOMAIN files' = DOMAIN files
    BY <2>3
  <2>5. Count' = Count
    BY <2>4 DEF Count
  <2>6. slot[c] \in DOMAIN files
    BY <1>1, <2>2 DEF PlaceInv
  <2>7. files'[slot[c]] = bundle[c] /\ \A i \in DOMAIN files : i # slot[c] => files'[i] = files[i]
    BY <2>3, <2>6
  <2>8. \A d \in Cycles : pc'[d] = IF d = c THEN "index" ELSE pc[d]
    BY <1>1, <2>2 DEF TypeOK
  <2>9. \A d \in Cycles : Active(d)' => d = c
    BY <2>1, <2>8 DEF Active
  <2>10. ASSUME NEW d \in Cycles, pc[d] = "done"
         PROVE  number[d] \in DOMAIN files /\ number[d] # slot[c] /\ files[number[d]] = bundle[d]
    <3>1. bundle[d] \in Bundles /\ files[number[d]] = bundle[d] /\ number[d] \in DOMAIN files
      BY <1>1, <2>10 DEF AloneInv, TypeOK
    <3> QED BY <2>1, <3>1, ContentsDiffer
  <2>11. \A d \in Cycles : pc'[d] = "done" => number'[d] \in DOMAIN files' /\ files'[number'[d]] = bundle'[d]
    BY <2>2, <2>4, <2>7, <2>8, <2>10
  <2>12. Count > 0 /\ files'[Count - 1] = last'
    BY <1>1, <2>1, <2>2, <2>6, <2>7
  <2> QED BY <1>1, <2>1, <2>2, <2>4, <2>5, <2>7, <2>8, <2>9, <2>11, <2>12 DEF AloneInv, Active
<1>9. ASSUME NEW c \in Cycles, Return(c) PROVE AloneInv'
  <2>1. Count' = Count /\ files' = files
    BY <1>9, SameFiles DEF Return
  <2>2. pc[c] = "index" /\ pc' = [pc EXCEPT ![c] = "done"]
        /\ number' = [number EXCEPT ![c] = Count - 1]
        /\ UNCHANGED <<bundle, seen, prior, diff, slot, last>>
    BY <1>9 DEF Return
  <2>3. slot[c] \in DOMAIN files
    BY <1>1, <2>2 DEF PlaceInv
  <2> QED BY <1>1, <2>1, <2>2, <2>3 DEF AloneInv, Active, TypeOK
<1>10. CASE UNCHANGED vars
  <2>1. Count' = Count
    BY <1>10, SameFiles DEF vars
  <2> QED BY <1>10, <2>1 DEF vars, AloneInv, Active
<1> QED BY <1>2, <1>3, <1>4, <1>5, <1>6, <1>7, <1>8, <1>9, <1>10 DEF Next

LEMMA OverlapStays == [Next]_vars /\ ~overlap' /\ overlap \in BOOLEAN => ~overlap
BY DEF Next, Record, Glob, Read, ReadFails, Number, Open, Write, Return, Fail, vars

LEMMA ChainInvHolds == Spec => []ChainInv
<1>1. Init => ChainInv
  <2> SUFFICES ASSUME Init PROVE ChainInv
    OBVIOUS
  <2>1. DiffInv
    BY DEF Init, DiffInv
  <2>2. DOMAIN files = {}
    BY DEF Init
  <2>3. Count = 0
    BY <2>2, FS_EmptySet DEF Count
  <2>4. AloneInv
    BY <2>3 DEF Init, AloneInv, Active
  <2> QED BY <2>1, <2>4, StoreInit DEF ChainInv
<1>2. ChainInv /\ [Next]_vars => ChainInv'
  <2> SUFFICES ASSUME ChainInv, [Next]_vars PROVE ChainInv'
    OBVIOUS
  <2>1. StoreInv' /\ DiffInv'
    BY StoreNext, DiffNext DEF ChainInv
  <2>2. ~overlap' => AloneInv'
    BY AloneNext, OverlapStays DEF ChainInv, StoreInv, TypeOK
  <2> QED BY <2>1, <2>2 DEF ChainInv
<1> QED BY <1>1, <1>2, PTL DEF Spec

\* CyclesChain: cycles that come one after the other are each compared with the bundle
\* recorded before them, and return the number of their own.
THEOREM EachCycleFollowsTheLast == Spec => []CyclesChain
<1>1. ChainInv => CyclesChain
  BY DEF ChainInv, AloneInv, CyclesChain
<1> QED BY <1>1, ChainInvHolds, PTL

\* AppendOnlyAlone: until two cycles overlap, no bundle is written over.
THEOREM NothingIsWrittenOver == Spec => AppendOnlyAlone
<1> DEFINE Kept == ~overlap' => \A i \in DOMAIN files :
                     files[i] \in Bundles => i \in DOMAIN files' /\ files'[i] = files[i]
<1>1. ASSUME ChainInv, [Next]_vars PROVE [Kept]_vars
  <2> SUFFICES ASSUME Next, ~overlap' PROVE Kept
    BY <1>1
  <2>1. AloneInv /\ PlaceInv /\ TypeOK
    BY <1>1, OverlapStays DEF ChainInv, StoreInv, TypeOK
  <2>2. ASSUME NEW c \in Cycles, Open(c) PROVE Kept
    <3>1. slot[c] = Count /\ DOMAIN files = 0 .. (Count - 1) /\ Count \in Nat
      BY <2>1, <2>2 DEF AloneInv, PlaceInv, Open
    <3>2. slot[c] \notin DOMAIN files
      BY <3>1
    <3> QED BY <2>2, <3>2 DEF Open
  <2>3. ASSUME NEW c \in Cycles, Write(c) PROVE Kept
    <3>1. files[slot[c]] = Empty
      BY <2>1, <2>3 DEF AloneInv, Write
    <3>2. PICK text : files' = [files EXCEPT ![slot[c]] = text]
      BY <2>3 DEF Write
    <3> QED BY <3>1, <3>2, ContentsDiffer
  <2>4. ASSUME files' = files PROVE Kept
    BY <2>4
  <2>5. \/ \E c \in Cycles : Open(c) \/ Write(c)
        \/ files' = files
    BY DEF Next, Record, Glob, Read, ReadFails, Number, Return, Fail
  <2> QED BY <2>2, <2>3, <2>4, <2>5
<1>2. ChainInv /\ [Next]_vars =>
        [~overlap' => \A i \in DOMAIN files :
                        files[i] \in Bundles => /\ i \in DOMAIN files'
                                                /\ files'[i] = files[i]]_vars
  BY <1>1
<1> QED BY <1>2, ChainInvHolds, PTL DEF Spec, AppendOnlyAlone
=============================================================================
