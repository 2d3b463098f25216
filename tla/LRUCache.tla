------------------------------ MODULE LRUCache ------------------------------
(***************************************************************************)
(* The tiers of lru: a map from keys to the nodes of a doubly-linked list  *)
(* between two sentinels, the most recently used node first, and entries   *)
(* that expire.  With one lock around every call (Tier 2) a call is one    *)
(* step, and Tier 1 is Tier 3 with no entry that expires.  A node is named *)
(* by its key: at most one node of a key is ever in the list, and what the *)
(* pointers of a node outside of it say is overwritten before it is read.  *)
(***************************************************************************)
EXTENDS Integers, Sequences, FiniteSets

CONSTANTS
    Keys,
    Front, Back,        \* the sentinels, _head and _tail
    Capacity,
    Ttls,               \* what put may be given as ttl_seconds
    None,
    MaxTime             \* bound on the clock

LRUConstants ==
    /\ Front \notin Keys /\ Back \notin Keys /\ Front # Back
    /\ Capacity \in Nat \ {0} /\ MaxTime \in Nat
    /\ Ttls \subseteq Nat \union {None} /\ None \notin Nat

VARIABLES
    now,
    cache,      \* the keys in the map, each with its node's expires_at
    links       \* prev and next of every node

vars == <<now, cache, links>>

Nodes == Keys \union {Front, Back}
Cached == DOMAIN cache

Init ==
    /\ now = 0
    /\ cache = [k \in {} |-> None]
    /\ links = [next |-> [n \in Nodes |-> Back], prev |-> [n \in Nodes |-> Front]]

\* only the neighbour before it learns of it
UnlinkOneWay(l, n) == [l EXCEPT !.next[l.prev[n]] = l.next[n]]

\* the neighbours join hands
Unlink(l, n) ==
    [next |-> [l.next EXCEPT ![l.prev[n]] = l.next[n]],
     prev |-> [l.prev EXCEPT ![l.next[n]] = l.prev[n]]]

AddToFront(l, n) ==
    LET first == l.next[Front] IN
    [next |-> [l.next EXCEPT ![n] = first, ![Front] = n],
     prev |-> [l.prev EXCEPT ![n] = Front, ![first] = n]]

\* nothing moves
MoveToFrontForgotten(l, n) == l

MoveToFront(l, n) == AddToFront(Unlink(l, n), n)

Without(k) == [j \in Cached \ {k} |-> cache[j]]
With(k, expires_at) == [j \in Cached \union {k} |-> IF j = k THEN expires_at ELSE cache[j]]

\* an entry of the map that is over
Expired(k) == k \in Cached /\ cache[k] # None /\ now >= cache[k]

\* reading counts as a use, also of the entry that it then drops
Get(k) ==
    /\ k \in Cached
    /\ LET used == MoveToFront(links, k) IN
       IF Expired(k)
       THEN cache' = Without(k) /\ links' = Unlink(used, k)
       ELSE UNCHANGED cache /\ links' = used
    /\ UNCHANGED now

Put(k, ttl) ==
    LET expires_at == IF ttl = None THEN None ELSE now + ttl
        added == AddToFront(links, k)
        lru == added.prev[Back]
    IN  /\ \/ /\ k \in Cached
              /\ cache' = With(k, expires_at)
              /\ links' = MoveToFront(links, k)
           \/ /\ k \notin Cached /\ Cardinality(Cached) < Capacity
              /\ cache' = With(k, expires_at)
              /\ links' = added
           \/ /\ k \notin Cached /\ Cardinality(Cached) >= Capacity
              /\ cache' = [j \in DOMAIN With(k, expires_at) \ {lru} |-> With(k, expires_at)[j]]
              /\ links' = Unlink(added, lru)
        /\ UNCHANGED now

Tick == now < MaxTime /\ now' = now + 1 /\ UNCHANGED <<cache, links>>

Next == Tick \/ \E k \in Keys : Get(k) \/ \E ttl \in Ttls : Put(k, ttl)

Spec == Init /\ [][Next]_vars

-----------------------------------------------------------------------------
(* Properties *)

\* the node i steps behind the front
Nth[i \in 0 .. Capacity + 1] == IF i = 0 THEN Front ELSE links.next[Nth[i - 1]]

\* the keys in the order of the list
Order == [i \in 1 .. Cardinality(Cached) |-> Nth[i]]

\* The list holds the nodes of the map, each once, between the sentinels, it
\* reads the same in both directions, and neither outgrows the capacity.
LinksMirrorTheMap ==
    /\ Cardinality(Cached) <= Capacity
    /\ {Order[i] : i \in DOMAIN Order} = Cached
    /\ links.next[Nth[Cardinality(Cached)]] = Back
    /\ \A n \in Cached \union {Front} : links.prev[links.next[n]] = n

Lists == INSTANCE SequencesExt

Apart(k) == Lists!RemoveFirst(Order, k)

\* Order is the order of the last uses: a read or a write brings its key to
\* the front, and the entries that leave are the one that was read too late
\* and, when a key too many comes, the one that nobody used for longest.
LeastRecentGoes ==
    [][\A k \in Keys :
        /\ Get(k) => Order' = IF Expired(k) THEN Apart(k) ELSE <<k>> \o Apart(k)
        /\ (\E ttl \in Ttls : Put(k, ttl)) =>
              Order' = SubSeq(<<k>> \o Apart(k), 1, Cardinality(Cached'))
      ]_vars
=============================================================================
