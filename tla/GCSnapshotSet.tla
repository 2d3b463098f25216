--------------------------- MODULE GCSnapshotSet ---------------------------
(***************************************************************************)
(* Tier 3 of snapshot_set: the versions of tier 2, reference counts of the *)
(* versions that handles pin, and a collection of the history that no      *)
(* handle can read, run by every release.                                  *)
(***************************************************************************)
EXTENDS CoWSnapshotSet, FiniteSets

VARIABLES
    pins,       \* how many handles pin each pinned version
    released    \* the handles released, which raise when read

gcvars == <<vars, pins, released>>

GCInit == Init /\ pins = [v \in {} |-> 0] /\ released = {}

GCAdd(x) == Add(x) /\ UNCHANGED <<pins, released>>
GCRemove(x) == Remove(x) /\ UNCHANGED <<pins, released>>

GCSnapshot ==
    /\ Snapshot
    /\ pins' = [v \in (DOMAIN pins) \union {version} |->
                  IF v \notin DOMAIN pins THEN 1
                  ELSE IF v = version THEN pins[v] + 1 ELSE pins[v]]
    /\ UNCHANGED released

\* a count of zero stays in the dict
UnpinnedKeepsZero(v) == [pins EXCEPT ![v] = pins[v] - 1]

Unpinned(v) ==
    IF pins[v] <= 1
    THEN [u \in (DOMAIN pins) \ {v} |-> pins[u]]
    ELSE [pins EXCEPT ![v] = pins[v] - 1]

\* the newest pinned version
HorizonNewest(P) ==
    IF P = {} THEN version ELSE CHOOSE v \in P : \A u \in P : v >= u

Horizon(P) ==
    IF P = {} THEN version ELSE CHOOSE v \in P : \A u \in P : v <= u

\* the superseded prefix stays
KeptAll(h, horizon) == h

\* the record in effect at the horizon and everything after it
Kept(h, horizon) ==
    IF \E i \in 1 .. Len(h) : Last(h, horizon, i)
    THEN SubSeq(h, CHOOSE i \in 1 .. Len(h) : Last(h, horizon, i), Len(h))
    ELSE h

\* a single record that says "absent" is no news of an element not in the set
Collected(x, h) ==
    IF Len(h) = 1 /\ ~h[1].present /\ x \notin live THEN <<>> ELSE h

Release(n) ==
    /\ n \in 1 .. Len(handles)
    /\ n \notin released
    /\ released' = released \union {n}
    /\ pins' = Unpinned(handles[n])
    /\ history' = [x \in Elements |->
                     Collected(x, Kept(history[x], Horizon(DOMAIN pins')))]
    /\ UNCHANGED <<version, live, handles>>

GCNext ==
    \/ GCSnapshot
    \/ \E x \in Elements : GCAdd(x) \/ GCRemove(x)
    \/ \E n \in 1 .. Len(handles) : Release(n)

GCSpec == GCInit /\ [][GCNext]_gcvars

-----------------------------------------------------------------------------
(* Properties *)

Held == (1 .. Len(handles)) \ released

\* The pins are the versions of the handles still held: nothing stays pinned
\* by a released handle and nothing that can be read is unpinned.
PinsAreHeld ==
    /\ DOMAIN pins = {handles[n] : n \in Held}
    /\ \A v \in DOMAIN pins : pins[v] = Cardinality({n \in Held : handles[n] = v})

\* A collection never reaches what a held handle reads: the tier implements
\* the copies of tier 1, and a release gives one of them up.
HeldCopies == INSTANCE SimpleSnapshotSet WITH
    taken <- Len(handles),
    snaps <- [n \in Held |-> ItemsAt(handles[n])]
ImplementsHeldCopies == HeldCopies!Spec

\* "After releasing every snapshot it collapses toward the live set's size":
\* the release that unpins the last version leaves one record for each element
\* of the set and none for the others.
LastReleaseCollapses ==
    [][pins # pins' /\ DOMAIN pins' = {} =>
          \A x \in Elements : Len(history'[x]) = IF x \in live THEN 1 ELSE 0]_gcvars

\* "History older than every live snapshot is reclaimed": an element keeps at
\* most one record from before the oldest held version, and one for each
\* version since.
HistorySinceHorizon ==
    \A x \in Elements : Len(history[x]) <= version - Horizon(DOMAIN pins) + 2
=============================================================================
