------------------------------ MODULE MCStores ------------------------------
(***************************************************************************)
(* What one process keeps and hands out, on small instances: the sets of   *)
(* snapshot_set, the allocators of id_allocator, the stores of kv_store,   *)
(* the counters of hit_counter, the cache of lru, the permissions of       *)
(* permissions_fs and the ledger of preparation/probe10.  A program        *)
(* constructs one of them; the variables of the others stay as they are,   *)
(* and those with a clock share it.                                        *)
(***************************************************************************)
EXTENDS GCSnapshotSet, CachedPermissions

CONSTANTS
    Tiers,                                      \* the ones to check
    Nobody, NoCall, Nothing, Tombstone,
    root, etc, usr, local, bin, t1,             \* what the definitions below name
    \* what the instances are made with
    freelist_max_id, bitmap_max_id, tree_max_id, sharded_max_id,
    ShardSize, AllocatorShards, MaxHeld, Threads,
    StoreKeys, StoreValues, StoreTtls, MaxTime, MaxVersion,
    Window, MaxHits, NumShards, PickedShard,
    CacheKeys, CacheTtls, MaxAge, Capacity, Front, Back,
    Clients, Accounts, Amounts, Opening

VARIABLES
    tier,
    cow_version, cow_history, cow_live, cow_handles,        \* of the sets
    pool, in_use, max_seen, freelist_answer,                \* of the allocators
    bits, free_count, bitmap_answer, issued,
    tree, tree_answer,
    used, lock, unvisited, at, held,
    now,
    base, txn, txn_asked,                                   \* of the stores
    store, store_asked, entries, heap_asked, heap, versions,
    hits, ts, rings, call,                                  \* of the counters
    cache, links,                                           \* of the LRU cache
    balance, holder, stage, order                           \* of the ledger

cow_vars == <<cow_version, cow_history, cow_live, cow_handles>>
freelist_vars == <<pool, in_use, max_seen, freelist_answer>>
bitmap_vars == <<bits, free_count, bitmap_answer, issued>>
tree_vars == <<tree, tree_answer>>
shards_vars == <<used, lock, unvisited, at, held>>
transactional_vars == <<base, txn, txn_asked>>
expiring_vars == <<store, store_asked, entries, heap_asked, heap, versions>>
counter_vars == <<hits, ts, rings, call>>
lru_vars == <<cache, links>>
ledger_vars == <<balance, holder, stage, order>>
all == <<tier, gcvars, permissions, cow_vars, freelist_vars, bitmap_vars, tree_vars,
         shards_vars, now, transactional_vars, expiring_vars, counter_vars, lru_vars, ledger_vars>>

SetTiers == {"cow", "gc", "freelist", "tree", "shards", "lru", "permissions"}
StoreTiers == {"transactional", "expiring", "heap", "deque", "rings", "ledger"}
JustBitmap == {"bitmap"}
FiveFolders == {root, etc, usr, local, bin}
TheParents == [f \in FiveFolders |->
    CASE f \in {etc, usr} -> root [] f = local -> usr [] f = bin -> local [] OTHER -> Nothing]

OneShardEach == [th \in Threads |-> IF th = t1 THEN 0 ELSE 1]
ThirdIsEmpty == [n \in 1 .. 3 |-> IF n = 3 THEN 0 ELSE 1]

CoW == INSTANCE CoWSnapshotSet WITH
    version <- cow_version, history <- cow_history, live <- cow_live, handles <- cow_handles

Freelist == INSTANCE Allocator WITH max_id <- freelist_max_id, answer <- freelist_answer
Bitmap == INSTANCE BitmapAllocator WITH max_id <- bitmap_max_id, answer <- bitmap_answer
Tree == INSTANCE SegmentTreeAllocator WITH max_id <- tree_max_id, answer <- tree_answer
Sharded == INSTANCE ThreadSafeAllocator WITH
    Shards <- AllocatorShards, shard_size <- ShardSize, max_id <- sharded_max_id

Transactional == INSTANCE TransactionalKV WITH
    Keys <- StoreKeys, Values <- StoreValues, None <- Nothing, asked <- txn_asked
Expiring == INSTANCE TTLKV WITH
    Keys <- StoreKeys, Values <- StoreValues, Ttls <- StoreTtls, None <- Nothing,
    asked <- store_asked

Counters == INSTANCE HitCounters WITH ShardOf <- PickedShard, Idle <- NoCall

LRU == INSTANCE LRUCache WITH
    Keys <- CacheKeys, Ttls <- CacheTtls, MaxTime <- MaxAge, None <- Nothing

Book == INSTANCE Ledger WITH Free <- Nobody, at <- stage

ASSUME TierConstants ==
    /\ Freelist!AllocatorConstants /\ Bitmap!BitmapConstants
    /\ Tree!SegmentTreeConstants /\ Sharded!ThreadSafeConstants
    /\ Transactional!TransactionalConstants /\ Expiring!TTLConstants
    /\ Counters!HitCountersConstants /\ LRU!LRUConstants /\ Book!LedgerConstants

StoresInit ==
    /\ tier \in Tiers
    /\ GCInit /\ CoW!Init /\ PermissionsInit
    /\ Freelist!Init /\ Bitmap!Init /\ Tree!Init /\ Sharded!Init
    /\ Transactional!Init /\ Expiring!Init /\ Counters!Init /\ LRU!Init /\ Book!Init

CoWStep == tier = "cow" /\ CoW!Next
GCStep == tier = "gc" /\ GCNext
FreelistStep == tier = "freelist" /\ Freelist!Next
BitmapStep == tier = "bitmap" /\ Bitmap!Next
TreeStep == tier = "tree" /\ Tree!Next
ShardsStep == tier = "shards" /\ Sharded!Next
TransactionalStep == tier = "transactional" /\ Transactional!Next
ExpiringStep == tier = "expiring" /\ Expiring!Next
HeapStep == tier = "heap" /\ Expiring!HeapNext
DequeStep == tier = "deque" /\ Counters!DequeNext
RingsStep == tier = "rings" /\ Counters!RingsNext
LRUStep == tier = "lru" /\ LRU!Next
LedgerStep == tier = "ledger" /\ Book!Next
PermissionsStep == tier = "permissions" /\ PermissionsNext

OthersRest ==
    /\ UNCHANGED tier
    /\ tier # "cow" => UNCHANGED cow_vars
    /\ tier # "gc" => UNCHANGED gcvars
    /\ tier # "freelist" => UNCHANGED freelist_vars
    /\ tier # "bitmap" => UNCHANGED bitmap_vars
    /\ tier # "tree" => UNCHANGED tree_vars
    /\ tier # "shards" => UNCHANGED shards_vars
    /\ tier # "transactional" => UNCHANGED transactional_vars
    /\ tier \notin {"expiring", "heap"} => UNCHANGED expiring_vars
    /\ tier \notin {"deque", "rings"} => UNCHANGED counter_vars
    /\ tier # "lru" => UNCHANGED lru_vars
    /\ tier # "ledger" => UNCHANGED ledger_vars
    /\ tier \notin {"expiring", "heap", "deque", "rings", "lru"} => UNCHANGED now
    /\ tier # "permissions" => UNCHANGED permissions

StoresNext ==
    /\ \/ CoWStep \/ GCStep \/ FreelistStep \/ BitmapStep \/ TreeStep \/ ShardsStep
       \/ TransactionalStep \/ ExpiringStep \/ HeapStep \/ DequeStep \/ RingsStep
       \/ LRUStep \/ LedgerStep \/ PermissionsStep
    /\ OthersRest

StoresSpec == StoresInit /\ [][StoresNext]_all

-----------------------------------------------------------------------------
(* Properties *)

\* History is reclaimed: an element keeps one record from before the oldest
\* held version and one for each version since, and after the last release
\* only the live set is left.
CollectionReclaims == []HistorySinceHorizon /\ LastReleaseCollapses

\* The snapshots of the versioned set read what copies would have kept.  The
\* freelist hands no id out twice, and None only when all are in use.
SetsImplementTheirSpecs == CoW!ImplementsCopies /\ Freelist!ImplementsIdAllocator

\* A transaction is seen at once and kept or dropped as a whole, and neither
\* lazy eviction nor a stale item of the heap is ever seen: the stores implement
\* their abstract stores.
StoresImplementTheirSpecs ==
    /\ Transactional!TransactionsAreAtomic
    /\ Expiring!TTLImplementsExpiringStore /\ Expiring!HeapImplementsExpiringStore

\* The bitmap allocator takes no id that is issued.
BitmapAllocatesWhatIsFree == Bitmap!AllocatesWhatIsFree

\* The segment tree hands no id out twice, and None only when all are in use:
\* every summary is exact, and the smallest free id comes first.
TreeIsSound == []Tree!TypeOK /\ Tree!ImplementsIdAllocator /\ Tree!StaysSound

\* Threads hold distinct ids, exactly those their shards have marked and none
\* beyond the end of the last shard.
ShardedHeldIsUsed ==
    /\ Freelist!TypeOK /\ Bitmap!TypeOK /\ Sharded!TypeOK
    /\ Sharded!HeldIsUsed

\* A read that nothing interrupts is exact in both counters, and no less so
\* for hits that come in any order within the window.
CountersAreExact ==
    /\ tier = "deque" => Counters!DequeIsExact
    /\ tier = "rings" => Counters!RingsAreExact

\* Reads of the sharded counter that hits and the clock interrupt.
InterruptedReadsAreBounded == Counters!ScansAreBounded

\* The list and the map of the LRU cache stay in step.
LinksMirrorTheMap == LRU!LinksMirrorTheMap

\* Transfers of the ledger keep the money and never block each other.
LedgerIsSound == Book!LedgerIsSound

\* The list of the LRU cache is in the order of the last uses.
LeastRecentGoes == LRU!LeastRecentGoes
=============================================================================
