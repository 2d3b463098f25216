----------------------- MODULE ConcurrentTokenBucket ------------------------
(***************************************************************************)
(* Tier 2 of token_bucket, on threads: a count of tokens under a lock,     *)
(* refilled by whoever looks at it.  What a thread does from taking the    *)
(* lock to releasing it, at its return or in wait, is one action.  Time is *)
(* counted in the periods in which one token is earned.  Tier 1 is what    *)
(* is left with one thread that only tries.                                *)
(***************************************************************************)
EXTENDS Integers, FiniteSetsExt

CONSTANTS
    Acquirers,      \* threads that call acquire once
    Wants,          \* how many tokens each of them asks for
    MaxCapacity,
    MaxTries        \* bound: the calls of try_acquire

ConcurrentBucketConstants ==
    /\ MaxCapacity \in Nat \ {0} /\ MaxTries \in Nat
    /\ Wants \in [Acquirers -> 1 .. MaxCapacity]

VARIABLES
    tokens,
    earned,     \* the periods since last_refill, as far as they matter
    filling,    \* fill_rate > 0
    acquirer, timer,    \* where each acquire is, and the rest of its timeout
    tries,
    level       \* history: the tokens in a bucket that is refilled all the
                \* time and drained by the same calls

vars == <<tokens, earned, filling, acquirer, timer, tries, level>>

Init ==
    /\ tokens = MaxCapacity /\ earned = 0 /\ level = MaxCapacity
    /\ filling \in BOOLEAN
    /\ acquirer = [a \in Acquirers |-> "idle"]
    /\ timer = [a \in Acquirers |-> 0]
    /\ tries = 0

Tick ==
    /\ filling
    /\ earned' = Min({earned + 1, MaxCapacity})
    /\ timer' = [a \in Acquirers |-> Max({timer[a] - 1, 0})]
    /\ level' = Min({level + 1, MaxCapacity})
    /\ UNCHANGED <<tokens, filling, acquirer, tries>>

\* the refill forgets to advance last_refill when the bucket is full
RefillsCapped(n) ==
    /\ tokens' = Min({tokens + earned, MaxCapacity}) - n
    /\ earned' = IF tokens = MaxCapacity THEN earned ELSE 0

\* _refill, and n tokens less: last_refill advances by all that was earned,
\* what did not fit included
Refills(n) ==
    /\ tokens' = Min({tokens + earned, MaxCapacity}) - n
    /\ earned' = 0

Enough(n) == tokens + earned >= n

\* notify_all on not_empty
Notified(s) == [a \in Acquirers |-> IF s[a] = "waiting" THEN "woken" ELSE s[a]]

Takes(n, s) ==
    /\ Enough(n)
    /\ Refills(n)
    /\ acquirer' = Notified(s)
    /\ level' = level - n

TryAcquire(n) ==
    /\ tries < MaxTries
    /\ tries' = tries + 1
    /\ \/ Takes(n, acquirer)
       \/ ~Enough(n) /\ Refills(0) /\ UNCHANGED <<acquirer, level>>
    /\ UNCHANGED <<timer, filling>>

\* the first look at the tokens, and the one after every wait
Looks(a) ==
    \/ acquirer[a] \in {"idle", "woken"}
    \/ acquirer[a] = "waiting" /\ filling /\ timer[a] = 0

AcquireTakes(a) ==
    /\ Looks(a)
    /\ Takes(Wants[a], [acquirer EXCEPT ![a] = "done"])
    /\ timer' = [timer EXCEPT ![a] = 0]
    /\ UNCHANGED <<filling, tries>>

\* wait, for as long as the shortfall takes to earn
AcquireWaits(a) ==
    /\ Looks(a)
    /\ ~Enough(Wants[a])
    /\ Refills(0)
    /\ acquirer' = [acquirer EXCEPT ![a] = "waiting"]
    /\ timer' = [timer EXCEPT ![a] = IF filling THEN Wants[a] - tokens' ELSE 0]
    /\ UNCHANGED <<filling, tries, level>>

Acquire(a) == AcquireTakes(a) \/ AcquireWaits(a)

Next ==
    \/ Tick
    \/ \E n \in 1 .. MaxCapacity : TryAcquire(n)
    \/ \E a \in Acquirers : Acquire(a)

-----------------------------------------------------------------------------
(* Properties *)

\* Every variable has its type.
TypeOK ==
    /\ tokens \in 0 .. MaxCapacity /\ earned \in 0 .. MaxCapacity
    /\ acquirer \in [Acquirers -> {"idle", "waiting", "woken", "done"}]
    /\ timer \in [Acquirers -> 0 .. MaxCapacity]
    /\ filling \in BOOLEAN /\ tries \in 0 .. MaxTries

\* "no overspend": what the threads can take is what a bucket refilled all the
\* time would let them take, so lazy refills neither lose nor mint a token.
NeverOverspends == level >= 0 /\ level = Min({tokens + earned, MaxCapacity})

\* An acquire returns as long as tokens are earned, although a refill by time
\* alone notifies nobody.
AcquireReturns == \A a \in Acquirers : (filling /\ acquirer[a] # "idle") ~> (acquirer[a] = "done")
=============================================================================
