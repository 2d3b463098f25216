------------------------------- MODULE TTLKV -------------------------------
(***************************************************************************)
(* Two stores whose entries carry the time they expire at.  In tier 2 of   *)
(* kv_store they stay until a read or a sweep evicts them.  The store of   *)
(* preparation/probe5 queues them in a heap as well, and every call evicts *)
(* what is due; a queued item that an overwrite or a delete has made stale *)
(* is told by its version.                                                 *)
(***************************************************************************)
EXTENDS Integers

CONSTANTS
    Keys, Values, Ttls, None,
    MaxTime,        \* bound: the clock
    MaxVersion      \* bound: the puts of one key into the heap's store

\* what the constants must be: None is an object of its own
TTLConstants ==
    /\ None \in Ttls /\ Ttls \subseteq Int \union {None} /\ None \notin Int
    /\ None \notin [value : Values, expires_at : Int \union {None}]
    /\ None \notin [value : Values, expires_at : Int \union {None}, version : Nat]

VARIABLES
    now,        \* what _clock answers
    store,      \* of each key: None when it is missing, or its entry
    asked,      \* the last put or delete: for the property only
    entries,    \* what store and asked are, for the store with the heap
    heap_asked,
    heap,       \* when its entries expire, with their key and version
    versions    \* of each key, kept when it is deleted

heap_vars == <<entries, heap_asked, heap, versions>>
vars == <<now, store, asked, heap_vars>>

Init ==
    /\ now = 0 /\ store = [k \in Keys |-> None] /\ asked = None
    /\ entries = store /\ heap_asked = None
    /\ heap = {} /\ versions = [k \in Keys |-> 0]

Tick == now < MaxTime /\ now' = now + 1 /\ UNCHANGED <<store, asked, heap_vars>>

\* "a TTL of N seconds expires exactly at t = N"
IsExpired(entry) == entry.expires_at # None /\ now >= entry.expires_at

Put(k, value, ttl) ==
    /\ store' = [store EXCEPT ![k] =
                   [value |-> value, expires_at |-> IF ttl = None THEN None ELSE now + ttl]]
    /\ asked' = <<k, value, ttl>>
    /\ UNCHANGED <<now, heap_vars>>

Missing(k) == store[k] = None \/ IsExpired(store[k])

\* what get answers, with its time to live
Answer(k) == IF Missing(k) THEN None ELSE store[k]

\* a read that finds an expired entry evicts it
Get(k) ==
    /\ store' = [store EXCEPT ![k] = Answer(k)]
    /\ UNCHANGED <<now, asked, heap_vars>>

Delete(k) ==
    /\ store' = [store EXCEPT ![k] = None]
    /\ asked' = <<k>>
    /\ UNCHANGED <<now, heap_vars>>

SweepExpired ==
    /\ store' = [k \in Keys |-> Answer(k)]
    /\ UNCHANGED <<now, asked, heap_vars>>

Next ==
    \/ Tick \/ SweepExpired
    \/ \E k \in Keys : Get(k) \/ Delete(k)
    \/ \E k \in Keys, value \in Values, ttl \in Ttls : Put(k, value, ttl)

-----------------------------------------------------------------------------
(* The store with the heap. *)

Due == {item \in heap : item.at <= now}

\* the heap's entry was put last: not overwritten, nor deleted and put again
Current(item) == entries[item.key] # None /\ entries[item.key].version = item.version

\* _lazy_delete, with which every call begins: what it leaves of the store
Swept == [k \in Keys |-> IF \E item \in Due : item.key = k /\ Current(item) THEN None ELSE entries[k]]

\* a time to live of 0 is taken for none
HeapPut(k, value, ttl) ==
    LET version == versions[k] + 1
        mortal == ttl # None /\ ttl # 0
        expires_at == IF mortal THEN now + ttl ELSE None
    IN
    /\ version <= MaxVersion
    /\ versions' = [versions EXCEPT ![k] = version]
    /\ entries' = [Swept EXCEPT ![k] =
                   [value |-> value, expires_at |-> expires_at, version |-> version]]
    /\ heap' = (heap \ Due) \union
                   (IF mortal THEN {[at |-> now + ttl, key |-> k, version |-> version]} ELSE {})
    /\ heap_asked' = <<k, value, IF mortal THEN ttl ELSE None>>
    /\ UNCHANGED <<now, store, asked>>

\* a get, the background sweep, or a delete of what is not there
HeapLook ==
    /\ entries' = Swept /\ heap' = heap \ Due
    /\ UNCHANGED <<now, store, asked, heap_asked, versions>>

HeapDelete(k) ==
    /\ entries' = [Swept EXCEPT ![k] = None] /\ heap' = heap \ Due
    /\ heap_asked' = <<k>>
    /\ UNCHANGED <<now, store, asked, versions>>

HeapNext ==
    \/ Tick \/ HeapLook
    \/ \E k \in Keys : HeapDelete(k) \/ \E value \in Values, ttl \in Ttls : HeapPut(k, value, ttl)

-----------------------------------------------------------------------------
(* Properties *)

Live == [k \in Keys |-> Answer(k)]
Eager == INSTANCE ExpiringStore WITH live <- Live

\* Lazy eviction and the sweep are never seen: reads answer as if every entry
\* left the store at the very time it expires.
TTLImplementsExpiringStore == Eager!Spec

\* what a get would answer now
HeapLive == [k \in Keys |->
    IF Swept[k] = None THEN None
    ELSE [value |-> entries[k].value, expires_at |-> entries[k].expires_at]]
Heaped == INSTANCE ExpiringStore WITH live <- HeapLive, asked <- heap_asked

\* The heap is never seen either: no entry outlives its time, and no stale item
\* evicts the entry that replaced it.
HeapImplementsExpiringStore == Heaped!Spec
=============================================================================
