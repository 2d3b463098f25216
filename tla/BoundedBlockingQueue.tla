------------------------ MODULE BoundedBlockingQueue ------------------------
(***************************************************************************)
(* Tier 1 of producer_consumer_service: a bounded FIFO buffer under one    *)
(* lock with a Condition for each side.  What a method does between taking *)
(* the lock and giving it up, by returning or in wait(), is one action.    *)
(* A Condition wakes its longest waiter, which then needs the lock again   *)
(* and may find that a thread that never waited was faster.                *)
(***************************************************************************)
EXTENDS Integers, Sequences, FiniteSets

CONSTANTS
    Producers, Consumers,
    Capacity,
    MaxItems    \* bound: items each producer enqueues

\* what the constants must be
BufferConstants ==
    /\ IsFiniteSet(Producers) /\ IsFiniteSet(Consumers)
    /\ Producers \intersect Consumers = {}
    /\ Capacity \in Nat \ {0}
    /\ MaxItems \in Nat

VARIABLES
    items,      \* the buffer; an item is its producer and its number
    not_full,   \* producers in wait(), the longest first
    not_empty,  \* consumers in wait(), the longest first
    woken,      \* notified threads that do not have the lock back yet
    sent,       \* how many items each producer has enqueued
    taken       \* everything dequeued, in order

vars == <<items, not_full, not_empty, woken, sent, taken>>

Elements(s) == {s[i] : i \in 1 .. Len(s)}

Init ==
    /\ items = <<>>
    /\ not_full = <<>> /\ not_empty = <<>>
    /\ woken = {}
    /\ sent = [p \in Producers |-> 0]
    /\ taken = <<>>

\* at most one waiter of the condition stops waiting
Notify(condition) == IF condition = <<>> THEN {} ELSE {Head(condition)}
Rest(condition) == IF condition = <<>> THEN <<>> ELSE Tail(condition)

EnqueueWaits(p) ==
    /\ p \notin Elements(not_full)
    /\ sent[p] < MaxItems
    /\ Len(items) >= Capacity
    /\ not_full' = Append(not_full, p)
    /\ woken' = woken \ {p}
    /\ UNCHANGED <<items, not_empty, sent, taken>>

EnqueuePuts(p) ==
    /\ p \notin Elements(not_full)
    /\ sent[p] < MaxItems
    /\ Len(items) < Capacity
    /\ items' = Append(items, <<p, sent[p] + 1>>)
    /\ sent' = [sent EXCEPT ![p] = @ + 1]
    /\ woken' = (woken \ {p}) \union Notify(not_empty)
    /\ not_empty' = Rest(not_empty)
    /\ UNCHANGED <<not_full, taken>>

DequeueWaits(c) ==
    /\ c \notin Elements(not_empty)
    /\ items = <<>>
    /\ not_empty' = Append(not_empty, c)
    /\ woken' = woken \ {c}
    /\ UNCHANGED <<items, not_full, sent, taken>>

\* one condition for both sides, or a producer told only when the buffer
\* leaves the full state: the second free slot wakes nobody
DequeueTakesNotifyOnlyWhenFull(c) ==
    /\ c \notin Elements(not_empty)
    /\ items # <<>>
    /\ items' = Tail(items)
    /\ taken' = Append(taken, Head(items))
    /\ IF Len(items) = Capacity
       THEN /\ woken' = (woken \ {c}) \union Notify(not_full)
            /\ not_full' = Rest(not_full)
       ELSE woken' = woken \ {c} /\ UNCHANGED not_full
    /\ UNCHANGED <<not_empty, sent>>

DequeueTakes(c) ==
    /\ c \notin Elements(not_empty)
    /\ items # <<>>
    /\ items' = Tail(items)
    /\ taken' = Append(taken, Head(items))
    /\ woken' = (woken \ {c}) \union Notify(not_full)
    /\ not_full' = Rest(not_full)
    /\ UNCHANGED <<not_empty, sent>>

Enqueue(p) == EnqueueWaits(p) \/ EnqueuePuts(p)
Dequeue(c) == DequeueWaits(c) \/ DequeueTakes(c)

Next == (\E p \in Producers : Enqueue(p)) \/ (\E c \in Consumers : Dequeue(c))

Spec == Init /\ [][Next]_vars

-----------------------------------------------------------------------------
(* Properties *)

\* Every variable has its type, and the buffer respects the capacity.
TypeOK ==
    /\ items \in Seq(Producers \X Nat) /\ Len(items) <= Capacity
    /\ not_full \in Seq(Producers) /\ not_empty \in Seq(Consumers)
    /\ woken \subseteq Producers \union Consumers
    /\ sent \in [Producers -> 0 .. MaxItems]
    /\ taken \in Seq(Producers \X Nat)

\* No wake-up is lost: while a producer sleeps, each free slot has a woken
\* producer on its way to it, and while a consumer sleeps each item has a
\* woken consumer; notify() of one waiter at a time is enough.
NoLostWakeup ==
    /\ not_full # <<>> => Cardinality(woken \intersect Producers) >= Capacity - Len(items)
    /\ not_empty # <<>> => Cardinality(woken \intersect Consumers) >= Len(items)

\* "Every produced item is consumed exactly once, none lost", and each
\* producer's items in the order it enqueued them: what went into the buffer
\* is what came out and what is still there, once each.
ExactlyOnceInOrder ==
    LET through == taken \o items IN
    /\ Elements(through) = {x \in Producers \X (1 .. MaxItems) : x[2] <= sent[x[1]]}
    /\ \A i, j \in 1 .. Len(through) :
          i < j /\ through[i][1] = through[j][1] => through[i][2] < through[j][2]

\* Every producer gets all its items through, and all of them are consumed.
EverythingIsConsumed ==
    <>(sent = [p \in Producers |-> MaxItems] /\ items = <<>>)
=============================================================================
