----------------------------- MODULE TokenBucket -----------------------------
(***************************************************************************)
(* Tier 3 of token_bucket: the asyncio bucket and its Reservations.        *)
(* A coroutine gives the event loop up only where it sleeps or waits on a  *)
(* condition, and nobody holds the lock there, so the lock is never        *)
(* contended: what a coroutine does from one such point to the next is one *)
(* action.  Time is counted in the periods in which one token is earned.   *)
(***************************************************************************)
EXTENDS Integers, FiniteSetsExt

CONSTANTS
    Getters, Fillers, Triers,   \* coroutines that call get, fill, try_acquire
    Reservations,               \* the reservations made with reserveN
    Waits, Of,                  \* the calls of wait, and the reservation of each
    Wants,                      \* how many tokens each of them asks for
    max_capacity,
    MaxWait,                    \* max_wait of reserveN, in periods
    MaxEarned,                  \* bound: the periods without a refill
    CallsOverlap                \* whether a reservation may be cancelled, or
                                \* waited for again, while a wait is under way

Tasks == Getters \union Fillers \union Waits

ASSUME TokenBucketAssumption ==
    /\ IsFiniteSet(Reservations) /\ IsFiniteSet(Waits)
    /\ Getters \intersect Fillers = {}
    /\ Waits \intersect (Getters \union Fillers) = {}
    /\ Of \in [Waits -> Reservations]
    /\ Wants \in [Getters \union Triers \union Reservations -> Nat \ {0}]
    /\ \A g \in Getters : Wants[g] <= max_capacity
    /\ {max_capacity, MaxWait, MaxEarned} \subseteq Nat /\ max_capacity > 0
    /\ CallsOverlap \in BOOLEAN

VARIABLES
    bucket,     \* how many tokens there are
    earned,     \* the whole periods since last_refill
    promised,
    task,       \* where each coroutine is; "parked" is in wait() on
                \* do_allocate for a fill, on allocated for the others
    got,        \* how many tokens each get has taken so far
    due,        \* how many periods are left until each reservation's ready_at
    reserved, consumed, cancelled,  \* the reservations made, and their flags
    spinning    \* a coroutine loops without giving the event loop up

vars == <<bucket, earned, promised, task, got, due, reserved, consumed,
          cancelled, spinning>>

claims == <<due, reserved, consumed, cancelled>>

Init ==
    /\ bucket = 0 /\ earned = 0 /\ promised = 0
    /\ task = [t \in Tasks |-> "idle"]
    /\ got = [g \in Getters |-> 0]
    /\ due = [r \in Reservations |-> 0]
    /\ reserved = {} /\ consumed = {} /\ cancelled = {}
    /\ spinning = FALSE

\* the tokens that a refill adds, and what it makes of the bucket
Minted == Min({earned, max_capacity - bucket})
Refilled == bucket + Minted
Credit == earned' = earned - Minted

\* notify_all on a condition: those parked there will run again
Notified(waiters, t) == [x \in Tasks |->
    IF x \in waiters /\ task[x] = "parked" THEN "woken" ELSE t[x]]
DoAllocate == Fillers
Allocated == Getters \union Waits

Tick ==
    /\ earned' = Min({earned + 1, MaxEarned})
    /\ due' = [r \in Reservations |-> Max({due[r] - 1, 0})]
    /\ UNCHANGED <<bucket, promised, task, got, reserved, consumed, cancelled, spinning>>

-----------------------------------------------------------------------------
(* fill and get *)

FillParks(f) ==
    /\ task[f] \in {"idle", "woken"}
    /\ bucket = max_capacity
    /\ task' = [task EXCEPT ![f] = "parked"]
    /\ UNCHANGED <<bucket, earned, promised, got, claims, spinning>>

\* all that was earned is added, capacity or not
FillsOver(f) ==
    /\ task[f] \in {"idle", "woken"}
    /\ bucket # max_capacity
    /\ bucket' = bucket + earned /\ earned' = 0
    /\ task' = Notified(Allocated, [task EXCEPT ![f] = "idle"])
    /\ UNCHANGED <<promised, got, claims, spinning>>

\* a fill that wakes no consumer
FillsUnnoticed(f) ==
    /\ task[f] \in {"idle", "woken"}
    /\ bucket # max_capacity
    /\ bucket' = Refilled /\ Credit
    /\ task' = [task EXCEPT ![f] = "idle"]
    /\ UNCHANGED <<promised, got, claims, spinning>>

Fills(f) ==
    /\ task[f] \in {"idle", "woken"}
    /\ bucket # max_capacity
    /\ bucket' = Refilled /\ Credit
    /\ task' = Notified(Allocated, [task EXCEPT ![f] = "idle"])
    /\ UNCHANGED <<promised, got, claims, spinning>>

Gets(g) == task[g] \in {"idle", "woken"}

GetParks(g) ==
    /\ Gets(g)
    /\ bucket - promised = 0
    /\ task' = [task EXCEPT ![g] = "parked"]
    /\ UNCHANGED <<bucket, earned, promised, got, claims, spinning>>

\* the promised tokens are taken as well
GetTakesPromised(g) ==
    /\ Gets(g)
    /\ bucket > 0
    /\ LET taken == Min({Wants[g] - got[g], bucket}) IN
       /\ bucket' = bucket - taken
       /\ got' = [got EXCEPT ![g] = @ + taken]
       /\ task' = Notified(DoAllocate,
              [task EXCEPT ![g] = IF got'[g] = Wants[g] THEN "done" ELSE "parked"])
    /\ UNCHANGED <<earned, promised, claims, spinning>>

\* what is free is taken, the producers are told, and if it was not enough
\* the loop goes on to wait for more
GetTakes(g) ==
    /\ Gets(g)
    /\ bucket - promised > 0
    /\ LET taken == Min({Wants[g] - got[g], bucket - promised}) IN
       /\ bucket' = bucket - taken
       /\ got' = [got EXCEPT ![g] = @ + taken]
       /\ task' = Notified(DoAllocate,
              [task EXCEPT ![g] = IF got'[g] = Wants[g] THEN "done" ELSE "parked"])
    /\ UNCHANGED <<earned, promised, claims, spinning>>

\* more promised than there is: the inner loop does not wait and the outer
\* one takes nothing, again and again
GetSpins(g) ==
    /\ Gets(g)
    /\ bucket - promised < 0
    /\ spinning' = TRUE
    /\ UNCHANGED <<bucket, earned, promised, task, got, claims>>

-----------------------------------------------------------------------------
(* try_acquire *)

TryTakesNothing(t) ==
    /\ Refilled - promised < Wants[t]
    /\ bucket' = Refilled /\ Credit
    /\ UNCHANGED <<promised, task, got, claims, spinning>>

\* the tokens are popped, and then the condition is notified without the lock:
\* the call ends in an exception and its tokens are lost
TryRaises(t) ==
    /\ Refilled - promised >= Wants[t]
    /\ bucket' = Refilled - Wants[t] /\ Credit
    /\ UNCHANGED <<promised, task, got, claims, spinning>>

-----------------------------------------------------------------------------
(* reserveN, and the wait and cancel of a Reservation *)

Shortfall(r) == Wants[r] - (Refilled - promised)

\* would take longer than the caller waits: nothing is promised
ReserveRefused(r) ==
    /\ r \notin reserved
    /\ Shortfall(r) > MaxWait
    /\ bucket' = Refilled /\ Credit
    /\ UNCHANGED <<promised, task, got, claims, spinning>>

Reserve(r) ==
    /\ r \notin reserved
    /\ Shortfall(r) <= MaxWait
    /\ bucket' = Refilled /\ Credit
    /\ promised' = promised + Wants[r]
    /\ reserved' = reserved \union {r}
    /\ due' = [due EXCEPT ![r] = Max({Shortfall(r), 0})]
    /\ UNCHANGED <<task, got, consumed, cancelled, spinning>>

\* a wait on the reservation has passed its check and has not returned
Awaited(r) == \E w \in Waits : Of[w] = r /\ task[w] \in {"sleeping", "parked", "woken"}

\* the first half of wait: asleep until the tokens are due
WaitSleeps(w) ==
    /\ Of[w] \in reserved \ (cancelled \union consumed)
    /\ CallsOverlap \/ ~Awaited(Of[w])
    /\ task[w] = "idle"
    /\ task' = [task EXCEPT ![w] = "sleeping"]
    /\ UNCHANGED <<bucket, earned, promised, got, claims, spinning>>

\* settled before the wait or in its sleep
WaitReturnsNone(w) ==
    /\ Of[w] \in cancelled \union consumed
    /\ task[w] = "idle" \/ (task[w] = "sleeping" /\ due[Of[w]] = 0)
    /\ task' = [task EXCEPT ![w] = "none"]
    /\ UNCHANGED <<bucket, earned, promised, got, claims, spinning>>

\* the claim that wait settles stays in promised
CollectsUnsettled(w, b) ==
    IF b < Wants[Of[w]]
    THEN /\ bucket' = b
         /\ task' = [task EXCEPT ![w] = "parked"]
         /\ UNCHANGED <<promised, consumed>>
    ELSE /\ bucket' = b - Wants[Of[w]]
         /\ consumed' = consumed \union {Of[w]}
         /\ task' = Notified(DoAllocate, [task EXCEPT ![w] = "done"])
         /\ UNCHANGED promised

\* the second half, with b tokens in the bucket: collected if they suffice
Collects(w, b) ==
    IF b < Wants[Of[w]]
    THEN /\ bucket' = b
         /\ task' = [task EXCEPT ![w] = "parked"]
         /\ UNCHANGED <<promised, consumed>>
    ELSE /\ bucket' = b - Wants[Of[w]]
         /\ promised' = promised - Wants[Of[w]]
         /\ consumed' = consumed \union {Of[w]}
         /\ task' = Notified(DoAllocate, [task EXCEPT ![w] = "done"])

WaitWakes(w) ==
    /\ task[w] = "sleeping" /\ due[Of[w]] = 0
    /\ Of[w] \notin cancelled \union consumed
    /\ Collects(w, Refilled) /\ Credit
    /\ UNCHANGED <<got, due, reserved, cancelled, spinning>>

\* notified: the flags are not looked at again
WaitChecksAgain(w) ==
    /\ task[w] = "woken"
    /\ Collects(w, bucket)
    /\ UNCHANGED <<earned, got, due, reserved, cancelled, spinning>>

Cancel(r) ==
    /\ r \in reserved \ (cancelled \union consumed)
    /\ CallsOverlap \/ \A w \in Waits : Of[w] = r => task[w] \notin {"parked", "woken"}
    /\ promised' = promised - Wants[r]
    /\ cancelled' = cancelled \union {r}
    /\ task' = Notified(Allocated, task)
    /\ UNCHANGED <<bucket, earned, got, due, reserved, consumed, spinning>>

-----------------------------------------------------------------------------

Fill(f) == FillParks(f) \/ Fills(f)
Get(g) == GetParks(g) \/ GetTakes(g) \/ GetSpins(g)
Try(t) == TryTakesNothing(t) \/ TryRaises(t)
Wait(w) == WaitSleeps(w) \/ WaitReturnsNone(w) \/ WaitWakes(w) \/ WaitChecksAgain(w)

Next ==
    /\ ~spinning
    /\ \/ Tick
       \/ \E f \in Fillers : Fill(f)
       \/ \E g \in Getters : Get(g)
       \/ \E t \in Triers : Try(t)
       \/ \E r \in Reservations : ReserveRefused(r) \/ Reserve(r) \/ Cancel(r)
       \/ \E w \in Waits : Wait(w)

Spec == Init /\ [][Next]_vars

-----------------------------------------------------------------------------
(* Properties *)

\* Every variable has its type; the bucket never overflows.
TypeOK ==
    /\ bucket \in 0 .. max_capacity
    /\ earned \in 0 .. MaxEarned
    /\ promised \in Int
    /\ task \in [Tasks -> {"idle", "sleeping", "parked", "woken", "done", "none"}]
    /\ got \in [Getters -> Nat] /\ \A g \in Getters : got[g] <= Wants[g]
    /\ due \in [Reservations -> 0 .. MaxWait]
    /\ consumed \union cancelled \subseteq reserved /\ reserved \subseteq Reservations
    /\ spinning \in BOOLEAN

Outstanding == reserved \ (consumed \union cancelled)

\* the tokens that some reservations claim, each by its own number
Claimed(rs) == UNION {{r} \X (1 .. Wants[r]) : r \in rs}

\* "_promised: tokens that are spoken for": as many as the reservations claim
\* that are neither collected nor cancelled, as long as calls do not overlap.
PromisedIsOutstanding == promised = Cardinality(Claimed(Outstanding))

\* "A token a Reservation has claimed is never handed out twice": only the
\* wait of a reservation takes what is promised.
ClaimsAreProtected ==
    [][bucket' < bucket /\ consumed' = consumed => bucket' >= promised']_vars

\* "wait() and cancel() are one-shot and mutually exclusive": at most one call
\* settles a reservation, a wait that returns its tokens or a cancel.
SettledOnce == \A r \in Reservations :
    LET served == {w \in Waits : Of[w] = r /\ task[w] = "done"} IN
    Cardinality(served) <= IF r \in cancelled THEN 0 ELSE 1

\* Every get that is called gets its tokens, as fill is called again and again.
GetReturns == \A g \in Getters : (task[g] # "idle") ~> (task[g] = "done")

\* "wait() sleeps until the tokens are due, then consumes them."
ReservationIsHonoured ==
    \A w \in Waits : (task[w] = "sleeping") ~> (Of[w] \in consumed \union cancelled)
=============================================================================
