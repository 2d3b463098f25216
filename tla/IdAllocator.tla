----------------------------- MODULE IdAllocator -----------------------------
(***************************************************************************)
(* What every tier of id_allocator promises: allocate returns an id that   *)
(* is not in use, or None once every id is; release makes an id free.      *)
(***************************************************************************)
EXTENDS Integers

CONSTANT max_id

VARIABLES
    in_use,
    answer      \* what the last allocate returned

vars == <<in_use, answer>>

Ids == 0 .. max_id - 1
None == -1

Init == in_use = {} /\ answer = None

Allocate(id) ==
    /\ id \in Ids \ in_use
    /\ in_use' = in_use \union {id}
    /\ answer' = id

Exhausted ==
    /\ in_use = Ids
    /\ answer' = None
    /\ UNCHANGED in_use

Release(id) ==
    /\ in_use' = in_use \ {id}
    /\ UNCHANGED answer

Next == Exhausted \/ \E id \in Ids : Allocate(id) \/ Release(id)

Spec == Init /\ [][Next]_vars
=============================================================================
