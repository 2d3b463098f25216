------------------------- MODULE SimpleSnapshotSet -------------------------
(***************************************************************************)
(* Tier 1 of snapshot_set: a snapshot is a copy of the live set.  It is    *)
(* the plainest statement of what every tier promises, so it is also the   *)
(* specification the versioned tiers implement: a snapshot reads what the  *)
(* set was when it was taken, until its holder gives it up.                *)
(***************************************************************************)
EXTENDS Naturals

CONSTANTS Elements, MaxSnapshots   \* bound: snapshots taken

VARIABLES
    live,       \* the set
    taken,      \* how many snapshots were taken
    snaps       \* the contents of each snapshot that is still held

vars == <<live, taken, snaps>>

Init == live = {} /\ taken = 0 /\ snaps = [h \in {} |-> {}]

\* an element already present, or absent, is a silent no-op
Add(x) ==
    /\ x \notin live
    /\ live' = live \union {x}
    /\ UNCHANGED <<taken, snaps>>

Remove(x) ==
    /\ x \in live
    /\ live' = live \ {x}
    /\ UNCHANGED <<taken, snaps>>

Snapshot ==
    /\ taken < MaxSnapshots
    /\ taken' = taken + 1
    /\ snaps' = [h \in (DOMAIN snaps) \union {taken + 1} |->
                   IF h = taken + 1 THEN live ELSE snaps[h]]
    /\ UNCHANGED live

Release(h) ==
    /\ h \in DOMAIN snaps
    /\ snaps' = [g \in (DOMAIN snaps) \ {h} |-> snaps[g]]
    /\ UNCHANGED <<live, taken>>

Next ==
    \/ \E x \in Elements : Add(x) \/ Remove(x)
    \/ Snapshot
    \/ \E h \in DOMAIN snaps : Release(h)

Spec == Init /\ [][Next]_vars
=============================================================================
