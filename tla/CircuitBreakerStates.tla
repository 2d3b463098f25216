------------------------ MODULE CircuitBreakerStates ------------------------
(***************************************************************************)
(* The canonical three-state machine drawn in breaker.py: CLOSED opens on  *)
(* failures, OPEN lets a probe through once the cooldown has elapsed, and  *)
(* the probe closes the breaker or opens it again for another cooldown.    *)
(***************************************************************************)
VARIABLES
    state,
    cooled      \* the cooldown has elapsed since the breaker last opened

vars == <<state, cooled>>

Init == state = "CLOSED" /\ cooled \in BOOLEAN

Trip == state # "OPEN" /\ state' = "OPEN" /\ cooled' = FALSE

Elapse == ~cooled /\ cooled' = TRUE /\ UNCHANGED state

Promote == state = "OPEN" /\ cooled /\ state' = "HALF_OPEN" /\ UNCHANGED cooled

Close == state = "HALF_OPEN" /\ state' = "CLOSED" /\ UNCHANGED cooled

Next == Trip \/ Elapse \/ Promote \/ Close

Spec == Init /\ [][Next]_vars
=============================================================================
