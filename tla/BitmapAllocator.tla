--------------------------- MODULE BitmapAllocator ---------------------------
(***************************************************************************)
(* Tier 2 of id_allocator: one bit per id.  allocate and release compute   *)
(* the byte with the bit set or cleared in a local variable, and neither   *)
(* stores it back.                                                         *)
(***************************************************************************)
EXTENDS Integers, FiniteSets

CONSTANT max_id

\* what the constants must be
BitmapConstants == max_id \in Nat

VARIABLES
    bits,
    free_count,
    answer,     \* what the last allocate returned
    issued      \* the ids returned by allocate and not released since

vars == <<bits, free_count, answer, issued>>

Ids == 0 .. max_id - 1
None == -1

Init ==
    /\ bits = [i \in Ids |-> 0]
    /\ free_count = max_id
    /\ answer = None
    /\ issued = {}

\* the first id whose bit is 0
Allocate(i) ==
    /\ free_count # 0
    /\ bits[i] = 0 /\ \A j \in 0 .. i - 1 : bits[j] = 1
    /\ free_count' = free_count - 1
    /\ answer' = i
    /\ issued' = issued \union {i}
    /\ UNCHANGED bits

Exhausted ==
    /\ free_count = 0 \/ \A i \in Ids : bits[i] = 1
    /\ answer' = None
    /\ UNCHANGED <<bits, free_count, issued>>

Release(i) ==
    /\ free_count' = IF bits[i] = 1 THEN free_count + 1 ELSE free_count
    /\ issued' = issued \ {i}
    /\ UNCHANGED <<bits, answer>>

Next == Exhausted \/ \E i \in Ids : Allocate(i) \/ Release(i)

Spec == Init /\ [][Next]_vars

-----------------------------------------------------------------------------
(* Properties *)

\* Every variable has its type: no release, of whatever id, counts more free
\* ids than there are.
TypeOK ==
    /\ bits \in [Ids -> {0, 1}]
    /\ free_count \in 0 .. max_id
    /\ answer \in Ids \union {None}
    /\ issued \subseteq Ids

\* "Return an ID not currently in use": allocate takes no id that is issued.
AllocatesWhatIsFree ==
    [][free_count' = free_count - 1 => answer' \notin issued]_vars
=============================================================================
