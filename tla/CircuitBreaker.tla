--------------------------- MODULE CircuitBreaker ---------------------------
(***************************************************************************)
(* The circuit breaker of preparation/probe6: the state, a window of the   *)
(* last results and a quota of probes, under a lock that is not held while *)
(* the wrapped function runs.  The clock is abstracted to whether the      *)
(* cooldown has elapsed since opened_at.                                   *)
(***************************************************************************)
EXTENDS Integers, Sequences, FiniteSets

CONSTANTS
    Callers,
    MaxReqs,            \* the length of the window, max_reqs
    FailureThreshold,   \* 10 in the code
    SuccessThreshold,   \* 10 in the code
    ProbeQuota          \* 1 in the code

ASSUME CircuitBreakerAssumption ==
    /\ IsFiniteSet(Callers)
    /\ {MaxReqs, FailureThreshold, SuccessThreshold, ProbeQuota} \subseteq Nat \ {0}

VARIABLES
    state,
    reqs,               \* the window, the oldest first: TRUE is a success
    probe_success,
    probes_in_flight,
    cooled,
    running,            \* of each caller: the state its call was admitted
                        \* in, or "none"
    healthy             \* the dependency has recovered for good

breaker_vars == <<state, reqs, probe_success, probes_in_flight, cooled, running, healthy>>

BreakerInit ==
    /\ state = "CLOSED" /\ reqs = <<>>
    /\ probe_success = 0 /\ probes_in_flight = 0
    /\ cooled \in BOOLEAN
    /\ running = [c \in Callers |-> "none"]
    /\ healthy = FALSE

\* the window after one more result
Pushed(ok) ==
    LET r == Append(reqs, ok) IN IF Len(r) > MaxReqs THEN Tail(r) ELSE r

Failures(r) == Cardinality({i \in 1 .. Len(r) : ~r[i]})

\* call, up to the run of fn; a call that is turned away has no effect unless
\* it moved the breaker to HALF_OPEN, and then the quota is free
AdmitWhileOpen(c) ==
    /\ running[c] = "none"
    /\ state = "OPEN"
    /\ state' = "HALF_OPEN"
    /\ probe_success' = 0 /\ probes_in_flight' = 1
    /\ running' = [running EXCEPT ![c] = "HALF_OPEN"]
    /\ UNCHANGED <<reqs, cooled, healthy>>

Promote(c) ==
    /\ running[c] = "none"
    /\ state = "OPEN" /\ cooled
    /\ state' = "HALF_OPEN"
    /\ probe_success' = 0 /\ probes_in_flight' = 1
    /\ running' = [running EXCEPT ![c] = "HALF_OPEN"]
    /\ UNCHANGED <<reqs, cooled, healthy>>

AdmitProbe(c) ==
    /\ running[c] = "none"
    /\ state = "HALF_OPEN" /\ probes_in_flight < ProbeQuota
    /\ probes_in_flight' = probes_in_flight + 1
    /\ running' = [running EXCEPT ![c] = "HALF_OPEN"]
    /\ UNCHANGED <<state, reqs, probe_success, cooled, healthy>>

PassThrough(c) ==
    /\ running[c] = "none"
    /\ state = "CLOSED"
    /\ running' = [running EXCEPT ![c] = "CLOSED"]
    /\ UNCHANGED <<state, reqs, probe_success, probes_in_flight, cooled, healthy>>

\* the end of a call gives its place back, whether it had one or not
Returned(c) ==
    /\ running[c] # "none"
    /\ running' = [running EXCEPT ![c] = "none"]
    /\ probes_in_flight' = IF probes_in_flight = 0 THEN 0 ELSE probes_in_flight - 1

\* the recovery is counted and not concluded
SucceedStaysHalfOpen(c) ==
    /\ Returned(c)
    /\ reqs' = Pushed(TRUE)
    /\ probe_success' = IF state = "HALF_OPEN" /\ probe_success + 1 < SuccessThreshold
                        THEN probe_success + 1 ELSE probe_success
    /\ UNCHANGED <<state, cooled, healthy>>

\* fn returns: a call that was admitted before the breaker opened counts as
\* a probe when it ends in HALF_OPEN
Succeed(c) ==
    /\ Returned(c)
    /\ IF state = "HALF_OPEN" /\ probe_success + 1 >= SuccessThreshold
       THEN state' = "CLOSED" /\ reqs' = <<>> /\ probe_success' = 0
       ELSE /\ reqs' = Pushed(TRUE)
            /\ probe_success' = probe_success + (IF state = "HALF_OPEN" THEN 1 ELSE 0)
            /\ UNCHANGED state
    /\ UNCHANGED <<cooled, healthy>>

\* fn raises
Fail(c) ==
    /\ Returned(c)
    /\ ~healthy
    /\ reqs' = Pushed(FALSE)
    /\ IF state = "HALF_OPEN" \/ (state = "CLOSED" /\ Failures(reqs') >= FailureThreshold)
       THEN state' = "OPEN" /\ cooled' = FALSE
       ELSE UNCHANGED <<state, cooled>>
    /\ UNCHANGED <<probe_success, healthy>>

\* the clock reaches opened_at + cooldown
Cool ==
    /\ ~cooled
    /\ cooled' = TRUE
    /\ UNCHANGED <<state, reqs, probe_success, probes_in_flight, running, healthy>>

\* external: from here on the function returns
Recover ==
    /\ ~healthy
    /\ healthy' = TRUE
    /\ UNCHANGED <<state, reqs, probe_success, probes_in_flight, cooled, running>>

Call(c) == Promote(c) \/ AdmitProbe(c) \/ PassThrough(c)
End(c) == Succeed(c) \/ Fail(c)

BreakerNext == Cool \/ Recover \/ \E c \in Callers : Call(c) \/ End(c)

BreakerSpec == BreakerInit /\ [][BreakerNext]_breaker_vars

-----------------------------------------------------------------------------
(* Properties *)

\* Every variable has its type.
BreakerTypeOK ==
    /\ state \in {"CLOSED", "OPEN", "HALF_OPEN"}
    /\ reqs \in Seq(BOOLEAN) /\ Len(reqs) <= MaxReqs
    /\ probe_success \in 0 .. SuccessThreshold - 1
    /\ probes_in_flight \in 0 .. ProbeQuota
    /\ running \in [Callers -> {"none", "CLOSED", "HALF_OPEN"}]
    /\ cooled \in BOOLEAN /\ healthy \in BOOLEAN

\* A breaker that is CLOSED has fewer failures in its window than open it:
\* the one failure that follows a recovery does not open it by itself.
ClosedIsHealthy == state = "CLOSED" => Failures(reqs) < FailureThreshold

\* The state moves as in the diagram, and only after its cooldown.
States == INSTANCE CircuitBreakerStates
FollowsTheDiagram == States!Spec

\* Once the dependency is healthy the breaker closes for good.
ClosesWhenHealthy == healthy ~> [](state = "CLOSED")
=============================================================================
