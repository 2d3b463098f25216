-------------------------- MODULE CachedPermissions --------------------------
(***************************************************************************)
(* Tier 2 of permissions_fs: the answers of has_access are kept until a    *)
(* change of access to the folder or to one above it.  What an answer      *)
(* should be is the walk of Tier 1, SimplePermissions.                     *)
(***************************************************************************)
CONSTANTS
    Folders,
    Parent,         \* of each folder: the folder it is in, or NoFolder
    NoFolder

ASSUME PermissionsAssumption ==
    /\ NoFolder \notin Folders
    /\ Parent \in [Folders -> Folders \union {NoFolder}]

VARIABLES
    access,     \* the folders access was granted to
    kept        \* the answers in _cache, of the folders that have one

permissions == <<access, kept>>

\* the inverse of Parent, built once
Children(f) == {g \in Folders : Parent[g] = f}

\* the folders a walk up from f comes to
Above(f) ==
    {a \in Folders : \A S \in SUBSET Folders :
        f \in S /\ (\A g \in S : Parent[g] \in S \union {NoFolder}) => a \in S}

\* the folders a walk down from f comes to
Below(f) ==
    {b \in Folders : \A S \in SUBSET Folders :
        f \in S /\ (\A g \in S : Children(g) \subseteq S) => b \in S}

\* every walk up ends at a folder that is in none
ASSUME TreeAssumption == \A f \in Folders : \E a \in Above(f) : Parent[a] = NoFolder

\* has_access of SimplePermissions
Walk(f) == Above(f) \intersect access # {}

PermissionsInit == access = {} /\ kept = [f \in {} |-> FALSE]

\* the folder itself and what is directly in it
InvalidateChildren(f) ==
    kept' = [g \in DOMAIN kept \ ({f} \union Children(f)) |-> kept[g]]

InvalidateSubtree(f) == kept' = [g \in DOMAIN kept \ Below(f) |-> kept[g]]

AddAccess(f) == access' = access \union {f} /\ InvalidateSubtree(f)

RemoveAccess(f) == access' = access \ {f} /\ InvalidateSubtree(f)

\* has_access of a folder whose answer is kept changes nothing
HasAccess(f) ==
    /\ f \notin DOMAIN kept
    /\ kept' = [g \in DOMAIN kept \union {f} |-> IF g = f THEN Walk(f) ELSE kept[g]]
    /\ UNCHANGED access

PermissionsNext == \E f \in Folders : AddAccess(f) \/ RemoveAccess(f) \/ HasAccess(f)

PermissionsSpec == PermissionsInit /\ [][PermissionsNext]_permissions

-----------------------------------------------------------------------------
(* Properties *)

\* "Same boolean answer, just faster": a kept answer is what the walk would
\* find now, whatever was granted and revoked above the folder since.
CacheAgreesWithWalk == \A f \in DOMAIN kept : kept[f] = Walk(f)
=============================================================================
