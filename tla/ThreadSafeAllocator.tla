------------------------- MODULE ThreadSafeAllocator -------------------------
(***************************************************************************)
(* Tier 4 of id_allocator: shards with a lock each.  allocate visits the   *)
(* shards in a random order and takes the lowest id of the first that has  *)
(* one; nothing is locked between two shards.  A shard is what Tier 3      *)
(* promises: the set of its ids in use, searched for the lowest free one.  *)
(* The search and the claim are two steps under the shard's lock.          *)
(***************************************************************************)
EXTENDS Integers, FiniteSets

CONSTANTS
    Threads,
    Nobody,         \* no thread: the holder of a free lock
    Shards,         \* 0 .. n - 1
    shard_size,
    max_id,         \* the last shard may be smaller than the others
    MaxHeld         \* bound: the ids a thread holds at once

\* what the constants must be
ThreadSafeConstants ==
    /\ Nobody \notin Threads
    /\ shard_size \in Nat \ {0} /\ max_id \in Nat \ {0} /\ MaxHeld \in Nat
    /\ Shards = 0 .. (max_id - 1) \div shard_size

VARIABLES
    used,           \* of each shard: the local ids in use
    lock,           \* of each shard: the thread that holds its lock, or Nobody
    unvisited,      \* of each thread in allocate: the shards still to visit
    at,             \* of each thread: where it is, and with which id
    held            \* the global ids each thread has been given

vars == <<used, lock, unvisited, at, held>>

Idle == [pc |-> "idle"]
Scanning == [pc |-> "scanning"]

LocalIds(s) == {l \in 0 .. shard_size - 1 : s * shard_size + l < max_id}
Global(s, l) == s * shard_size + l
ShardOf(id) == id \div shard_size
LocalOf(id) == id % shard_size

Init ==
    /\ used = [s \in Shards |-> {}]
    /\ lock = [s \in Shards |-> Nobody]
    /\ unvisited = [t \in Threads |-> {}]
    /\ at = [t \in Threads |-> Idle]
    /\ held = [t \in Threads |-> {}]

CallAllocate(t) ==
    /\ at[t] = Idle
    /\ Cardinality(held[t]) < MaxHeld
    /\ at' = [at EXCEPT ![t] = Scanning]
    /\ unvisited' = [unvisited EXCEPT ![t] = Shards]
    /\ UNCHANGED <<used, lock, held>>

\* the lowest free id, or any number if there is none
Lowest(s) ==
    CHOOSE l \in LocalIds(s) \ used[s] : \A m \in LocalIds(s) \ used[s] : l <= m

\* the search without the lock
SearchUnlocked(t, s) ==
    /\ at[t] = Scanning /\ s \in unvisited[t]
    /\ unvisited' = [unvisited EXCEPT ![t] = @ \ {s}]
    /\ IF used[s] = LocalIds(s)
       THEN UNCHANGED <<at, lock>>
       ELSE /\ at' = [at EXCEPT ![t] = [pc |-> "claiming", shard |-> s, local |-> Lowest(s)]]
            /\ lock' = [lock EXCEPT ![s] = t]
    /\ UNCHANGED <<used, held>>

\* the lock is taken and the shard searched; a full shard is left at once
Search(t, s) ==
    /\ at[t] = Scanning /\ s \in unvisited[t]
    /\ lock[s] = Nobody
    /\ unvisited' = [unvisited EXCEPT ![t] = @ \ {s}]
    /\ IF used[s] = LocalIds(s)
       THEN UNCHANGED <<at, lock>>
       ELSE /\ at' = [at EXCEPT ![t] = [pc |-> "claiming", shard |-> s, local |-> Lowest(s)]]
            /\ lock' = [lock EXCEPT ![s] = t]
    /\ UNCHANGED <<used, held>>

\* the leaf is set, the lock given back and the global id returned
Claim(t) ==
    /\ at[t].pc = "claiming"
    /\ used' = [used EXCEPT ![at[t].shard] = @ \union {at[t].local}]
    /\ lock' = [lock EXCEPT ![at[t].shard] = Nobody]
    /\ held' = [held EXCEPT ![t] = @ \union {Global(at[t].shard, at[t].local)}]
    /\ at' = [at EXCEPT ![t] = Idle]
    /\ UNCHANGED unvisited

ReturnNone(t) ==
    /\ at[t] = Scanning /\ unvisited[t] = {}
    /\ at' = [at EXCEPT ![t] = Idle]
    /\ UNCHANGED <<used, lock, unvisited, held>>

\* a thread gives back an id it was given
Release(t, id) ==
    /\ at[t] = Idle
    /\ id \in held[t]
    /\ lock[ShardOf(id)] = Nobody
    /\ used' = [used EXCEPT ![ShardOf(id)] = @ \ {LocalOf(id)}]
    /\ held' = [held EXCEPT ![t] = @ \ {id}]
    /\ UNCHANGED <<lock, unvisited, at>>

Next == \E t \in Threads :
    \/ CallAllocate(t) \/ Claim(t) \/ ReturnNone(t)
    \/ \E s \in Shards : Search(t, s)
    \/ \E id \in held[t] : Release(t, id)

Spec == Init /\ [][Next]_vars

-----------------------------------------------------------------------------
(* Properties *)

\* Every variable has its type.
TypeOK ==
    /\ \A s \in Shards : used[s] \subseteq LocalIds(s)
    /\ lock \in [Shards -> Threads \union {Nobody}]
    /\ unvisited \in [Threads -> SUBSET Shards]
    /\ \A t \in Threads :
        \/ at[t] \in {Idle, Scanning}
        \/ at[t] \in [pc : {"claiming"}, shard : Shards, local : 0 .. shard_size - 1]
    /\ held \in [Threads -> SUBSET (0 .. max_id - 1)]

\* "A, B, C are distinct ids": no id is held by two threads, and the ids held
\* are exactly those the shards have marked.
HeldIsUsed ==
    /\ \A t, u \in Threads : t # u => held[t] \intersect held[u] = {}
    /\ \A s \in Shards : used[s] = {LocalOf(id) : id \in {i \in UNION {held[t] : t \in Threads} : ShardOf(i) = s}}
=============================================================================
