------------------------ MODULE SimpleCircuitBreaker ------------------------
(***************************************************************************)
(* Tier 1 of double_circuit_breaker: consecutive failures are counted and  *)
(* nothing is locked.  One step is one access to an attribute of the       *)
(* breaker or to the clock, with what the caller then does on its own; the *)
(* steps of several callers interleave.  Instants are kept as ages: of     *)
(* opened_at, and of a reading of the clock that is still to be used.      *)
(***************************************************************************)
EXTENDS Integers, FiniteSetsExt

CONSTANTS
    Callers, FailureThreshold, Cooldown,
    MaxLag          \* bound: no reading of the clock grows older before it is used

SimpleBreakerConstants ==
    /\ FailureThreshold \in Nat \ {0}
    /\ Cooldown \in Nat /\ MaxLag \in Nat

VARIABLES
    state,
    failure_count,  \* counted up to FailureThreshold: more makes no difference
    since_opened,   \* the age of opened_at: more than OldEnough makes no difference
    at,             \* where each caller is
    read,           \* what it has read: the count, or the clock, as its age
    healthy         \* the dependency has recovered for good

vars == <<state, failure_count, since_opened, at, read, healthy>>

OldEnough == Cooldown + MaxLag

Places == {"idle", "fn", "check", "compare", "promote",
           "count", "store", "test", "open", "clock", "stamp", "close", "reset"}
HoldsClock(c) == at[c] \in {"compare", "stamp"}

\* opened_at begins as 0.0, which the clock may have left behind or not
Init ==
    /\ state = "CLOSED" /\ failure_count = 0
    /\ since_opened \in 0 .. OldEnough
    /\ at = [c \in Callers |-> "idle"] /\ read = [c \in Callers |-> 0]
    /\ healthy = FALSE

Goto(c, from, to) == at[c] = from /\ at' = [at EXCEPT ![c] = to]
Keeps(c, value) == read' = [read EXCEPT ![c] = value]

-----------------------------------------------------------------------------
(* call, up to the run of fn *)

Call(c) ==
    /\ Goto(c, "idle", IF state = "OPEN" THEN "check" ELSE "fn")
    /\ UNCHANGED <<state, failure_count, since_opened, read, healthy>>

ReadClock(c) ==
    /\ Goto(c, "check", "compare") \/ Goto(c, "clock", "stamp")
    /\ Keeps(c, 0)
    /\ UNCHANGED <<state, failure_count, since_opened, healthy>>

\* still cooling: CircuitOpenError
Compare(c) ==
    /\ Goto(c, "compare", IF since_opened - read[c] >= Cooldown THEN "promote" ELSE "idle")
    /\ Keeps(c, 0)
    /\ UNCHANGED <<state, failure_count, since_opened, healthy>>

\* the state may be another one by now
Promote(c) ==
    /\ Goto(c, "promote", "fn")
    /\ state' = "HALF_OPEN"
    /\ UNCHANGED <<failure_count, since_opened, read, healthy>>

-----------------------------------------------------------------------------
(* fn raises: the state is the one it finds, not the one it was called in *)

Raise(c) ==
    /\ ~healthy
    /\ Goto(c, "fn", IF state = "HALF_OPEN" THEN "open" ELSE "count")
    /\ UNCHANGED <<state, failure_count, since_opened, read, healthy>>

\* += reads the count and stores it in two steps
LoadCount(c) ==
    /\ Goto(c, "count", "store")
    /\ Keeps(c, failure_count)
    /\ UNCHANGED <<state, failure_count, since_opened, healthy>>

StoreCount(c) ==
    /\ Goto(c, "store", "test")
    /\ failure_count' = Min({read[c] + 1, FailureThreshold})
    /\ Keeps(c, 0)
    /\ UNCHANGED <<state, since_opened, healthy>>

TestCount(c) ==
    /\ Goto(c, "test", IF failure_count >= FailureThreshold THEN "open" ELSE "idle")
    /\ UNCHANGED <<state, failure_count, since_opened, read, healthy>>

\* OPEN is seen with the opened_at of the time before
Open(c) ==
    /\ Goto(c, "open", "clock")
    /\ state' = "OPEN"
    /\ UNCHANGED <<failure_count, since_opened, read, healthy>>

Stamp(c) ==
    /\ Goto(c, "stamp", "idle")
    /\ since_opened' = read[c]
    /\ Keeps(c, 0)
    /\ UNCHANGED <<state, failure_count, healthy>>

-----------------------------------------------------------------------------
(* fn returns *)

Return(c) ==
    /\ Goto(c, "fn", IF state = "HALF_OPEN" THEN "close" ELSE "reset")
    /\ UNCHANGED <<state, failure_count, since_opened, read, healthy>>

\* the count is kept when the breaker closes
CloseIsAll(c) ==
    /\ Goto(c, "close", "idle")
    /\ state' = "CLOSED"
    /\ UNCHANGED <<failure_count, since_opened, read, healthy>>

Close(c) ==
    /\ Goto(c, "close", "reset")
    /\ state' = "CLOSED"
    /\ UNCHANGED <<failure_count, since_opened, read, healthy>>

Reset(c) ==
    /\ Goto(c, "reset", "idle")
    /\ failure_count' = 0
    /\ UNCHANGED <<state, since_opened, read, healthy>>

-----------------------------------------------------------------------------
Tick ==
    /\ \A c \in Callers : HoldsClock(c) => read[c] < MaxLag
    /\ since_opened' = Min({since_opened + 1, OldEnough})
    /\ read' = [c \in Callers |-> IF HoldsClock(c) THEN read[c] + 1 ELSE read[c]]
    /\ UNCHANGED <<state, failure_count, at, healthy>>

\* external: from here on fn returns
Recover ==
    /\ ~healthy /\ healthy' = TRUE
    /\ UNCHANGED <<state, failure_count, since_opened, at, read>>

\* a caller goes on, until its call is over
Proceed(c) ==
    \/ ReadClock(c) \/ Compare(c) \/ Promote(c)
    \/ Raise(c) \/ LoadCount(c) \/ StoreCount(c) \/ TestCount(c) \/ Open(c) \/ Stamp(c)
    \/ Return(c) \/ Close(c) \/ Reset(c)

Next == Tick \/ Recover \/ \E c \in Callers : Call(c) \/ Proceed(c)

Spec == Init /\ [][Next]_vars

-----------------------------------------------------------------------------
(* Properties *)

\* Every variable has its type.
TypeOK ==
    /\ state \in {"CLOSED", "OPEN", "HALF_OPEN"}
    /\ failure_count \in 0 .. FailureThreshold
    /\ since_opened \in 0 .. OldEnough
    /\ at \in [Callers -> Places]
    /\ read \in [Callers -> Nat]
    /\ \A c \in Callers : at[c] = "store" => read[c] <= FailureThreshold
    /\ \A c \in Callers : HoldsClock(c) => read[c] <= MaxLag
    /\ healthy \in BOOLEAN

\* A CLOSED breaker with the failures that open it is one that some caller is
\* about to open or to reset: the state and the count, which are written
\* separately, agree again when no call is under way.
ClosedIsHealthy ==
    state = "CLOSED" /\ failure_count >= FailureThreshold =>
        \E c \in Callers : at[c] \in {"test", "open", "reset"}

\* Once the dependency is healthy the breaker closes for good.
ClosesWhenHealthy == healthy ~> [](state = "CLOSED")
=============================================================================
