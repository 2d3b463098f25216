--------------------------- MODULE CoWSnapshotSet ---------------------------
(***************************************************************************)
(* Tier 2 of snapshot_set: a snapshot is a version number, and every       *)
(* element keeps the history of its membership, one record per version in  *)
(* which it changed.                                                       *)
(***************************************************************************)
EXTENDS Integers, Sequences, TLAPS

CONSTANTS Elements, MaxSnapshots   \* bound: snapshots taken

ASSUME SnapshotAssumption == MaxSnapshots \in Nat

VARIABLES
    version,
    history,    \* of each element: records, the oldest first; the elements
                \* that are no key of the dict have none
    live,
    handles     \* the version each snapshot handed out captured

vars == <<version, history, live, handles>>

Record == [version : Nat, present : BOOLEAN]

Init ==
    /\ version = 0
    /\ history = [x \in Elements |-> <<>>]
    /\ live = {}
    /\ handles = <<>>

\* the history h after a change at the running version, whose record
\* replaces the one it already has for that version
Recorded(h, present) ==
    IF h # <<>> /\ h[Len(h)].version = version
    THEN [h EXCEPT ![Len(h)] = [version |-> version, present |-> present]]
    ELSE Append(h, [version |-> version, present |-> present])

Add(x) ==
    /\ x \notin live
    /\ live' = live \union {x}
    /\ history' = [history EXCEPT ![x] = Recorded(@, TRUE)]
    /\ UNCHANGED <<version, handles>>

Remove(x) ==
    /\ x \in live
    /\ live' = live \ {x}
    /\ history' = [history EXCEPT ![x] = Recorded(@, FALSE)]
    /\ UNCHANGED <<version, handles>>

Snapshot ==
    /\ Len(handles) < MaxSnapshots
    /\ handles' = Append(handles, version)
    /\ version' = version + 1
    /\ UNCHANGED <<history, live>>

\* the last record at or before v, which bisect_right finds in a sorted list
Last(h, v, i) ==
    /\ i \in 1 .. Len(h)
    /\ h[i].version <= v
    /\ \A j \in 1 .. Len(h) : j > i => h[j].version > v

PresentAt(h, v) == \E i \in 1 .. Len(h) : Last(h, v, i) /\ h[i].present

ItemsAt(v) == {x \in Elements : PresentAt(history[x], v)}

Next == Snapshot \/ \E x \in Elements : Add(x) \/ Remove(x)

Spec == Init /\ [][Next]_vars

-----------------------------------------------------------------------------
(* Properties *)

\* Every variable has its type.
TypeOK ==
    /\ version \in Nat
    /\ history \in [Elements -> Seq(Record)]
    /\ live \subseteq Elements
    /\ handles \in Seq(Nat)

Ordered(h) ==
    /\ \A i, j \in 1 .. Len(h) : i < j => h[i].version < h[j].version
    /\ \A i \in 1 .. Len(h) : h[i].version <= version

\* What bisect_right needs: records in the order of their versions, one for
\* each version, and none from the future.
Sorted == \A x \in Elements : Ordered(history[x])

\* "No write can ever touch version v": the captured versions are closed, and
\* no two snapshots share one.
CapturedAreClosed ==
    /\ \A n \in 1 .. Len(handles) : handles[n] < version
    /\ \A m, n \in 1 .. Len(handles) : handles[m] = handles[n] => m = n

\* The live set is what the history says of the running version.
LiveIsLatest ==
    \A x \in Elements :
        x \in live <=> history[x] # <<>> /\ history[x][Len(history[x])].present

\* A snapshot reads the copy that tier 1 would have made of the set.
Copies == INSTANCE SimpleSnapshotSet WITH
    taken <- Len(handles),
    snaps <- [h \in 1 .. Len(handles) |-> ItemsAt(handles[h])]
ImplementsCopies == Copies!Spec

-----------------------------------------------------------------------------
(* Proofs *)

CoWInv == TypeOK /\ Sorted /\ LiveIsLatest /\ CapturedAreClosed

\* A record and its fields.
LEMMA Fields ==
    /\ \A r \in Record : r.version \in Nat /\ r.present \in BOOLEAN
    /\ \A v \in Nat, p \in BOOLEAN : [version |-> v, present |-> p] \in Record
BY DEF Record

\* _record leaves a history in order, ending with the change it records.
LEMMA RecordedLast ==
    ASSUME NEW h \in Seq(Record), NEW p \in BOOLEAN, version \in Nat, Ordered(h)
    PROVE  /\ Recorded(h, p) \in Seq(Record)
           /\ Ordered(Recorded(h, p))
           /\ Recorded(h, p) # <<>>
           /\ Recorded(h, p)[Len(Recorded(h, p))].present = p
<1> DEFINE r == [version |-> version, present |-> p]
<1>1. r \in Record /\ r.version = version /\ r.present = p
  BY DEF Record
<1> HIDE DEF r
<1>2. CASE h # <<>> /\ h[Len(h)].version = version
  <2>1. Recorded(h, p) = [h EXCEPT ![Len(h)] = r]
    BY <1>2 DEF Recorded, r
  <2> QED BY <1>1, <1>2, <2>1, Fields DEF Ordered
<1>3. CASE ~(h # <<>> /\ h[Len(h)].version = version)
  <2>1. Recorded(h, p) = Append(h, r)
    BY <1>3 DEF Recorded, r
  <2>2. \A i \in 1 .. Len(h) : h[i].version < version
    BY <1>3, Fields DEF Ordered
  <2> QED BY SMTT(30), <1>1, <2>1, <2>2, Fields DEF Ordered
<1> QED BY <1>2, <1>3

\* _record changes nothing that an earlier version reads.
LEMMA RecordedKeepsPast ==
    ASSUME NEW h \in Seq(Record), NEW p \in BOOLEAN, version \in Nat, Ordered(h),
           NEW v \in Nat, v < version
    PROVE  PresentAt(Recorded(h, p), v) <=> PresentAt(h, v)
<1> DEFINE r == [version |-> version, present |-> p]
<1>1. r \in Record /\ r.version = version
  BY DEF Record
<1> HIDE DEF r
<1>2. CASE h # <<>> /\ h[Len(h)].version = version
  <2>1. Recorded(h, p) = [h EXCEPT ![Len(h)] = r]
    BY <1>2 DEF Recorded, r
  <2> QED BY SMTT(30), <1>1, <1>2, <2>1, Fields DEF PresentAt, Last
<1>3. CASE ~(h # <<>> /\ h[Len(h)].version = version)
  <2>1. Recorded(h, p) = Append(h, r)
    BY <1>3 DEF Recorded, r
  <2> QED BY SMTT(30), <1>1, <2>1, Fields DEF PresentAt, Last
<1> QED BY <1>2, <1>3

\* The running version reads the last record.
LEMMA PresentNow ==
    ASSUME NEW h \in Seq(Record), version \in Nat, Ordered(h)
    PROVE  PresentAt(h, version) <=> h # <<>> /\ h[Len(h)].present
BY Fields DEF Ordered, PresentAt, Last

\* Initially there is no record and no handle.
LEMMA CoWInitInv == Init => CoWInv
BY DEF Init, CoWInv, TypeOK, Sorted, Ordered, LiveIsLatest, CapturedAreClosed

\* A write at the running version keeps the invariant and every captured view.
LEMMA WriteStep ==
    ASSUME CoWInv, NEW x \in Elements, Add(x) \/ Remove(x)
    PROVE  /\ CoWInv'
           /\ \A n \in 1 .. Len(handles) : ItemsAt(handles[n])' = ItemsAt(handles[n])
<1> DEFINE p == x \notin live
           h == history[x]
<1>1. /\ history' = [history EXCEPT ![x] = Recorded(h, p)]
      /\ live' = IF p THEN live \union {x} ELSE live \ {x}
      /\ UNCHANGED <<version, handles>>
      /\ p \in BOOLEAN
  <2>1. CASE Add(x)
    BY <2>1 DEF Add
  <2>2. CASE Remove(x)
    BY <2>2 DEF Remove
  <2> QED BY <2>1, <2>2
<1>2. h \in Seq(Record) /\ Ordered(h) /\ version \in Nat /\ history \in [Elements -> Seq(Record)]
  BY DEF CoWInv, TypeOK, Sorted
<1> HIDE DEF p, h
<1>3. /\ history'[x] = Recorded(h, p)
      /\ \A y \in Elements : y # x => history'[y] = history[y]
      /\ history' \in [Elements -> Seq(Record)]
  BY <1>1, <1>2, RecordedLast
<1>4. TypeOK'
  BY <1>1, <1>3 DEF CoWInv, TypeOK
<1>5. Sorted'
  <2>1. \A g : Ordered(g)' <=> Ordered(g')
    BY <1>1 DEF Ordered
  <2>2. \A y \in Elements : Ordered(history'[y])
    BY <1>1, <1>2, <1>3, RecordedLast DEF CoWInv, Sorted
  <2> QED BY <1>1, <2>2 DEF Sorted, Ordered
<1>6. LiveIsLatest'
  <2>1. /\ history'[x] # <<>>
        /\ history'[x][Len(history'[x])].present = p
    BY <1>1, <1>2, <1>3, RecordedLast
  <2>2. x \in live' <=> p
    BY <1>1
  <2>3. \A y \in Elements : y # x => (y \in live' <=> y \in live)
    BY <1>1
  <2> QED BY <1>3, <2>1, <2>2, <2>3 DEF CoWInv, LiveIsLatest
<1>7. CapturedAreClosed'
  BY <1>1 DEF CoWInv, CapturedAreClosed
<1>8. ASSUME NEW n \in 1 .. Len(handles)
      PROVE  ItemsAt(handles[n])' = ItemsAt(handles[n])
  <2>1. handles[n] \in Nat /\ handles[n] < version /\ handles'[n] = handles[n]
    BY <1>1 DEF CoWInv, TypeOK, CapturedAreClosed
  <2>2. \A y \in Elements : PresentAt(history'[y], handles[n]) <=> PresentAt(history[y], handles[n])
    BY <1>1, <1>2, <1>3, <2>1, RecordedKeepsPast DEF h
  <2> QED BY <2>1, <2>2 DEF ItemsAt, PresentAt, Last
<1> QED BY <1>4, <1>5, <1>6, <1>7, <1>8 DEF CoWInv

\* A snapshot closes the running version, which reads the live set, and keeps
\* every other captured view.
LEMMA SnapshotStep ==
    ASSUME CoWInv, Snapshot
    PROVE  /\ CoWInv'
           /\ Len(handles') = Len(handles) + 1
           /\ handles'[Len(handles) + 1] = version
           /\ \A n \in 1 .. Len(handles) : handles'[n] = handles[n] /\ handles[n] < version
           /\ ItemsAt(handles[Len(handles)])' = live
           /\ \A n \in 1 .. Len(handles) : ItemsAt(handles[n])' = ItemsAt(handles[n])
<1>1. /\ handles' = Append(handles, version) /\ version' = version + 1
      /\ UNCHANGED <<history, live>>
      /\ version \in Nat /\ handles \in Seq(Nat)
  BY DEF Snapshot, CoWInv, TypeOK
<1>2. /\ handles' \in Seq(Nat) /\ Len(handles) \in Nat /\ Len(handles') = Len(handles) + 1
      /\ handles'[Len(handles) + 1] = version
      /\ \A n \in 1 .. Len(handles) : handles'[n] = handles[n]
  BY <1>1
<1>3. \A n \in 1 .. Len(handles) : handles[n] \in Nat /\ handles[n] < version
  BY <1>1 DEF CoWInv, CapturedAreClosed
<1>4. TypeOK' /\ LiveIsLatest'
  BY <1>1, <1>2 DEF CoWInv, TypeOK, LiveIsLatest
<1>5. Sorted'
  <2> SUFFICES ASSUME NEW y \in Elements, Ordered(history[y])
               PROVE  Ordered(history[y])'
    BY DEF CoWInv, Sorted
  <2>1. history[y] \in Seq(Record)
    BY DEF CoWInv, TypeOK
  <2>2. \A i \in 1 .. Len(history[y]) : history[y][i].version \in Nat
    BY <2>1, Fields
  <2> QED BY <1>1, <2>2 DEF Ordered
<1>6. CapturedAreClosed'
  BY <1>1, <1>2, <1>3 DEF CoWInv, CapturedAreClosed
<1>7. \A n \in 1 .. Len(handles) : ItemsAt(handles[n])' = ItemsAt(handles[n])
  BY <1>1, <1>2 DEF ItemsAt, PresentAt, Last
<1>8. ItemsAt(version) = live
  BY <1>1, PresentNow DEF ItemsAt, CoWInv, TypeOK, Sorted, LiveIsLatest
<1>9. ItemsAt(handles[Len(handles)])' = ItemsAt(version)
  BY <1>1, <1>2 DEF ItemsAt, PresentAt, Last
<1> QED BY <1>2, <1>3, <1>4, <1>5, <1>6, <1>7, <1>8, <1>9 DEF CoWInv

\* Versions only help: the invariant of tier 2.
THEOREM CoWInvariance == Spec => []CoWInv
<1>1. CoWInv /\ [Next]_vars => CoWInv'
  <2> SUFFICES ASSUME CoWInv, [Next]_vars PROVE CoWInv'
    OBVIOUS
  <2>1. CASE UNCHANGED vars
    BY <2>1 DEF vars, CoWInv, TypeOK, Sorted, Ordered, LiveIsLatest, CapturedAreClosed
  <2> QED BY <2>1, WriteStep, SnapshotStep DEF Next
<1> QED BY <1>1, CoWInitInv, PTL DEF Spec

\* A version number stands for a copy: every snapshot of tier 2 reads the set
\* as it was when it was taken (CoWSnapshot, "Isolation comes from the
\* version, not a copy").
THEOREM CoWRefinement == Spec => ImplementsCopies
<1> DEFINE Views == [n \in 1 .. Len(handles) |-> ItemsAt(handles[n])]
<1>1. Init => Copies!Init
  BY DEF Init, Copies!Init
<1>2. CoWInv /\ [Next]_vars => [Copies!Next]_(Copies!vars)
  <2> SUFFICES ASSUME CoWInv, [Next]_vars PROVE [Copies!Next]_(Copies!vars)
    OBVIOUS
  <2>1. ASSUME NEW x \in Elements, Add(x) \/ Remove(x)
        PROVE  Copies!Next
    <3>1. \A n \in 1 .. Len(handles) : ItemsAt(handles[n])' = ItemsAt(handles[n])
      BY <2>1, WriteStep
    <3>2. handles' = handles
      BY <2>1 DEF Add, Remove
    <3>3. Views' = Views
      BY <3>1, <3>2
    <3>4. Copies!Add(x) \/ Copies!Remove(x)
      BY <2>1, <3>2, <3>3 DEF Add, Remove, Copies!Add, Copies!Remove
    <3> QED BY <3>4 DEF Copies!Next
  <2>2. ASSUME Snapshot
        PROVE  Copies!Next
    <3>1. /\ Len(handles') = Len(handles) + 1 /\ Len(handles) \in Nat
          /\ ItemsAt(handles[Len(handles)])' = live
          /\ \A n \in 1 .. Len(handles) : ItemsAt(handles[n])' = ItemsAt(handles[n])
      BY <2>2, SnapshotStep DEF CoWInv, TypeOK
    <3>2. 1 .. Len(handles') = (1 .. Len(handles)) \union {Len(handles) + 1}
      BY <3>1
    <3>3. Views' = [h \in (DOMAIN Views) \union {Len(handles) + 1} |->
                      IF h = Len(handles) + 1 THEN live ELSE Views[h]]
      BY <3>1, <3>2
    <3>4. Copies!Snapshot
      BY <2>2, <3>1, <3>3 DEF Snapshot, Copies!Snapshot
    <3> QED BY <3>4 DEF Copies!Next
  <2>3. CASE UNCHANGED vars
    BY <2>3 DEF vars, Copies!vars, ItemsAt, PresentAt, Last
  <2> QED BY <2>1, <2>2, <2>3 DEF Next
<1> QED BY <1>1, <1>2, CoWInvariance, PTL DEF Spec, ImplementsCopies, Copies!Spec
=============================================================================
