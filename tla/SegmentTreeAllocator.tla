------------------------ MODULE SegmentTreeAllocator ------------------------
(***************************************************************************)
(* Tier 3 of id_allocator: a segment tree whose every node says whether    *)
(* all the ids of its range are in use.  Node 1 is the root, the children  *)
(* of node i are 2i and 2i + 1, and the ranges are carried down the        *)
(* recursion.  A call frame is a node with its range; a descent gives the  *)
(* frame at every depth, the leaf again and again once it is reached; on   *)
(* the way back the leaf is set and each frame refreshes its summary.      *)
(***************************************************************************)
EXTENDS Integers

CONSTANT max_id

\* what the constant must be: with max_id = 0 the tree has no root, and
\* allocate raises
SegmentTreeConstants == max_id \in Nat \ {0}

VARIABLES
    tree,
    answer      \* what the last allocate returned

vars == <<tree, answer>>

Ids == 0 .. max_id - 1
None == -1
Nodes == 1 .. 4 * max_id - 1

Init == tree = [i \in Nodes |-> 0] /\ answer = None

\* the frames, from the root down
Frames == [node : Nat, lo : Nat, hi : Nat]
Root == [node |-> 1, lo |-> 0, hi |-> max_id - 1]
Mid(x) == (x.lo + x.hi) \div 2
Left(x) == [node |-> 2 * x.node, lo |-> x.lo, hi |-> Mid(x)]
Right(x) == [node |-> 2 * x.node + 1, lo |-> Mid(x) + 1, hi |-> x.hi]
IsLeaf(x) == x.lo = x.hi

\* what a frame calls: down to the lowest free id, left whenever the left is
\* not full, or to the leaf of target
ClaimBelow(t) ==
    [x \in Frames |-> IF IsLeaf(x) THEN x ELSE IF t[2 * x.node] = 0 THEN Left(x) ELSE Right(x)]

FreeBelow(target) ==
    [x \in Frames |-> IF IsLeaf(x) THEN x ELSE IF target <= Mid(x) THEN Left(x) ELSE Right(x)]

\* as each frame has fewer ids than the one that calls it
Depths == 0 .. max_id - 1

Descent(below) ==
    LET path[k \in Depths] == IF k = 0 THEN Root ELSE below[path[k - 1]] IN path

ClaimPath(t) == Descent(ClaimBelow(t))
FreePath(target) == Descent(FreeBelow(target))

Leaf(path) == path[max_id - 1]

\* what a frame makes of the tree on the way back; & of two bits is *
Summarised ==
    [x \in Frames |-> [t \in [Nodes -> {0, 1}] |->
        IF IsLeaf(x) THEN t
        ELSE [t EXCEPT ![x.node] = t[2 * x.node] * t[2 * x.node + 1]]]]

\* the tree after a descent that sets its leaf to bit, the lowest frame first
Refreshed(t, path, bit) ==
    LET after[k \in Depths] ==
          IF k = 0 THEN [t EXCEPT ![Leaf(path).node] = bit]
          ELSE Summarised[path[max_id - 1 - k]][after[k - 1]]
    IN after[max_id - 1]

Allocate ==
    /\ tree[1] = 0
    /\ tree' = Refreshed(tree, ClaimPath(tree), 1)
    /\ answer' = Leaf(ClaimPath(tree)).lo

Exhausted ==
    /\ tree[1] = 1
    /\ answer' = None
    /\ UNCHANGED tree

\* the summaries above a released leaf still say full
ReleaseLeafOnly(id) ==
    /\ tree' = [tree EXCEPT ![Leaf(FreePath(id)).node] = 0]
    /\ UNCHANGED answer

\* also of an id that is free
Release(id) ==
    /\ tree' = Refreshed(tree, FreePath(id), 0)
    /\ UNCHANGED answer

Next == Allocate \/ Exhausted \/ \E id \in Ids : Release(id)

Spec == Init /\ [][Next]_vars

-----------------------------------------------------------------------------
(* Properties *)

\* The ids whose leaf is set.
InUse == {id \in Ids : tree[Leaf(FreePath(id)).node] = 1}

\* Every variable has its type: every recursion stays within 4 * max_id cells.
TypeOK ==
    /\ tree \in [Nodes -> {0, 1}]
    /\ answer \in Ids \union {None}

\* "tree[i] == 1 exactly when every id in node i's range is allocated": every
\* frame is on the descent to some id.
SummariesAreExact ==
    \A id \in Ids : \A k \in Depths :
        LET x == FreePath(id)[k] IN tree[x.node] = 1 <=> x.lo .. x.hi \subseteq InUse

\* No id is handed out twice, and None only when all are in use.
Promise == INSTANCE IdAllocator WITH in_use <- InUse
ImplementsIdAllocator == Promise!Spec

\* "allocate() returns the smallest free id", and every change of the tree
\* leaves the summaries exact.
LowestFirst == \A id \in InUse' \ InUse : \A free \in Ids \ InUse : id <= free
StaysSound == [][tree' # tree => SummariesAreExact' /\ LowestFirst]_vars
=============================================================================
