---------------------------- MODULE HitCounters ----------------------------
(***************************************************************************)
(* The tiers of hit_counter, which count the hits of the last Window       *)
(* seconds: a deque with the second of every hit (Tier 1), and threads     *)
(* that hit and read rings with a lock on each slot (Tiers 3 and 4, on the *)
(* ring of Tier 2).  A thread hits the shard that its identity picks and   *)
(* reads all of them, slot by slot; one shard is Tier 3.  A hit and the    *)
(* read of one slot are critical sections; between them other threads and  *)
(* the clock go on.  A program constructs one tier: an instance takes the  *)
(* steps of one of them.                                                   *)
(***************************************************************************)
EXTENDS Integers, SequencesExt

CONSTANTS
    Window,             \* 300 seconds
    MaxTime, MaxHits,   \* bounds on the history
    NumShards,
    Threads,
    ShardOf,    \* what _pick_shard answers in each thread
    Idle

Shards == 0 .. NumShards - 1

HitCountersConstants ==
    /\ Window \in Nat \ {0} /\ MaxTime \in Nat /\ MaxHits \in Nat
    /\ NumShards \in Nat \ {0}
    /\ ShardOf \in [Threads -> Shards]

VARIABLES
    now,
    hits,   \* how many hits were recorded for each second: what the answers
            \* of get_hits are compared with
    ts,     \* the deque
    rings,
    call    \* of each thread: Idle, a hit with its second, or a get_hits that
            \* is about to read a position; before holds what was recorded
            \* when it began

vars == <<now, hits, ts, rings, call>>

Seconds == 0 .. MaxTime

HitsAfter(history, t) ==
    MapThenSumSet(LAMBDA s : history[s], {s \in Seconds : s > t})

\* the hits in (now - Window, now]
HitsInWindow == HitsAfter(hits, now - Window)

MayRecord == HitsAfter(hits, -1) < MaxHits
HitAt(t) == hits' = [hits EXCEPT ![t] = @ + 1]

-----------------------------------------------------------------------------
(* The deque of Tier 1. *)

DequeTick == now < MaxTime /\ now' = now + 1 /\ UNCHANGED <<ts, hits, rings, call>>

DequeHit ==
    /\ MayRecord
    /\ ts' = Append(ts, now)
    /\ HitAt(now)
    /\ UNCHANGED <<now, rings, call>>

\* the front goes as long as it is out of the window
Purged ==
    LET first == SelectInSeq(ts, LAMBDA s : now - s < Window) IN
    IF first = 0 THEN <<>> ELSE SubSeq(ts, first, Len(ts))

DequeGetHits == ts' = Purged /\ UNCHANGED <<now, hits, rings, call>>

DequeNext == DequeTick \/ DequeHit \/ DequeGetHits

-----------------------------------------------------------------------------
(* The ring of Tier 2, BucketCounter: slots with the second each was last
   written for and the hits of that second. *)

Slots == 0 .. Window - 1

EmptyRing == [times |-> [i \in Slots |-> 0], counts |-> [i \in Slots |-> 0]]

\* the count of an earlier round goes on
RecordedOnStale(ring, t) ==
    [times |-> [ring.times EXCEPT ![t % Window] = t],
     counts |-> [ring.counts EXCEPT ![t % Window] = @ + 1]]

\* hit: a slot that holds an earlier second begins again
Recorded(ring, t) ==
    LET slot == t % Window IN
    [times |-> [ring.times EXCEPT ![slot] = t],
     counts |-> [ring.counts EXCEPT ![slot] = IF ring.times[slot] = t THEN @ + 1 ELSE 1]]

\* one second too many
InWindowClosed(ring, slot, t) ==
    IF t - ring.times[slot] <= Window THEN ring.counts[slot] ELSE 0

\* what a slot adds to get_hits(t)
InWindow(ring, slot, t) ==
    IF t - ring.times[slot] < Window THEN ring.counts[slot] ELSE 0

Readings(ring, t) == [slot \in Slots |-> InWindow(ring, slot, t)]

GetHits(ring, t) == MapThenSumSet(LAMBDA slot : Readings(ring, t)[slot], Slots)

-----------------------------------------------------------------------------
(* The rings of Tiers 3 and 4. *)

Init ==
    /\ now = 0 /\ hits = [s \in Seconds |-> 0]
    /\ ts = <<>>
    /\ rings = [s \in Shards |-> EmptyRing]
    /\ call = [th \in Threads |-> Idle]

Doing(th, op) == call[th] # Idle /\ call[th].op = op

\* "Hits arrive in chronological order": no call that carries a second is
\* still on its way to the lock when the slot of that second comes round.
Tick ==
    /\ now < MaxTime /\ now' = now + 1
    /\ \A th \in Threads : Doing(th, "hit") => now' - call[th].t < Window
    /\ UNCHANGED <<hits, ts, rings, call>>

CallHit(th) ==
    /\ MayRecord /\ call[th] = Idle
    /\ call' = [call EXCEPT ![th] = [op |-> "hit", t |-> now]]
    /\ UNCHANGED <<now, hits, ts, rings>>

Hit(th) ==
    /\ Doing(th, "hit")
    /\ rings' = [rings EXCEPT ![ShardOf[th]] = Recorded(@, call[th].t)]
    /\ HitAt(call[th].t)
    /\ call' = [call EXCEPT ![th] = Idle]
    /\ UNCHANGED <<now, ts>>

CallGetHits(th) ==
    /\ call[th] = Idle
    /\ call' = [call EXCEPT ![th] =
                  [op |-> "get", t |-> now, position |-> 0, ans |-> 0, before |-> hits]]
    /\ UNCHANGED <<now, hits, ts, rings>>

\* shard by shard, and in each of them slot by slot
Positions == 0 .. NumShards * Window - 1

ReadSlot(th) ==
    /\ Doing(th, "get") /\ call[th].position \in Positions
    /\ LET shard == call[th].position \div Window
           slot == call[th].position % Window
       IN  call' = [call EXCEPT ![th].position = @ + 1,
                                ![th].ans = @ + InWindow(rings[shard], slot, call[th].t)]
    /\ UNCHANGED <<now, hits, ts, rings>>

Answered(th) == Doing(th, "get") /\ call[th].position \notin Positions

Return(th) ==
    /\ Answered(th)
    /\ call' = [call EXCEPT ![th] = Idle]
    /\ UNCHANGED <<now, hits, ts, rings>>

Step(th) == CallHit(th) \/ Hit(th) \/ CallGetHits(th) \/ ReadSlot(th) \/ Return(th)

RingsNext == Tick \/ \E th \in Threads : Step(th)

Next == DequeNext \/ RingsNext

Spec == Init /\ [][Next]_vars

-----------------------------------------------------------------------------
(* Properties *)

\* What get_hits of the deque answers now is the number of hits in the window.
DequeIsExact == Len(Purged) = HitsInWindow

ShardHits == [s \in Shards |-> GetHits(rings[s], now)]

\* The shards together hold exactly the hits of the window: a read that
\* nothing interrupts answers what the deque would.
RingsAreExact == MapThenSumSet(LAMBDA s : ShardHits[s], Shards) = HitsInWindow

\* A read that hits and the clock interrupt still answers no less than the
\* hits recorded before it that are in the window to its end, and no more
\* than those recorded to its end that are in the window of its second or
\* came later.
ScansAreBounded ==
    \A th \in Threads : Answered(th) =>
        /\ call[th].ans >= HitsAfter(call[th].before, now - Window)
        /\ call[th].ans <= HitsAfter(hits, call[th].t - Window)
=============================================================================
