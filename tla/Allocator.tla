------------------------------ MODULE Allocator ------------------------------
(***************************************************************************)
(* Tier 1 of id_allocator: a FIFO freelist of released ids, a counter that *)
(* mints fresh ones, and the set of the ids in use.                        *)
(***************************************************************************)
EXTENDS Integers, Sequences

CONSTANT max_id

\* what the constants must be
AllocatorConstants == max_id \in Nat

VARIABLES
    pool,       \* the freelist
    in_use,
    max_seen,   \* the next id to mint
    answer      \* what the last allocate returned

vars == <<pool, in_use, max_seen, answer>>

Ids == 0 .. max_id - 1
None == -1

Init == pool = <<>> /\ in_use = {} /\ max_seen = 0 /\ answer = None

Reuse ==
    /\ pool # <<>>
    /\ pool' = Tail(pool)
    /\ in_use' = in_use \union {Head(pool)}
    /\ answer' = Head(pool)
    /\ UNCHANGED max_seen

Mint ==
    /\ pool = <<>> /\ max_seen < max_id
    /\ max_seen' = max_seen + 1
    /\ in_use' = in_use \union {max_seen}
    /\ answer' = max_seen
    /\ UNCHANGED pool

Exhausted ==
    /\ pool = <<>> /\ max_seen >= max_id
    /\ answer' = None
    /\ UNCHANGED <<pool, in_use, max_seen>>

\* the id is not looked up first
ReleaseUnchecked(id) ==
    /\ in_use' = in_use \ {id}
    /\ pool' = Append(pool, id)
    /\ UNCHANGED <<max_seen, answer>>

\* an id that is not in use is ignored
Release(id) ==
    /\ id \in in_use
    /\ in_use' = in_use \ {id}
    /\ pool' = Append(pool, id)
    /\ UNCHANGED <<max_seen, answer>>

Next == Reuse \/ Mint \/ Exhausted \/ \E id \in Ids : Release(id)

Spec == Init /\ [][Next]_vars

-----------------------------------------------------------------------------
(* Properties *)

\* Every variable has its type.
TypeOK ==
    /\ pool \in Seq(Ids)
    /\ in_use \subseteq Ids
    /\ max_seen \in 0 .. max_id
    /\ answer \in Ids \union {None}

\* No id is handed out twice, and None only when all are in use.
Promise == INSTANCE IdAllocator
ImplementsIdAllocator == Promise!Spec
=============================================================================
