---------------------------- MODULE AtomicStore ----------------------------
(***************************************************************************)
(* What TransactionalKV promises: writes of an open transaction are seen   *)
(* at once, and they are committed all together or not at all.             *)
(***************************************************************************)
CONSTANTS
    Keys, Values,
    None    \* what a read of a missing key answers, and a value like others

VARIABLES
    open,       \* a transaction is open
    committed,  \* what reads answer when it is rolled back
    working,    \* what reads answer now
    asked       \* the last write that was asked for

vars == <<open, committed, working, asked>>

Init ==
    /\ open = FALSE
    /\ committed = [k \in Keys |-> None]
    /\ working = committed
    /\ asked = None

Write(k, value) ==
    /\ working' = [working EXCEPT ![k] = value]
    /\ committed' = IF open THEN committed ELSE working'
    /\ asked' = <<k, value>>
    /\ UNCHANGED open

Begin == ~open /\ open' = TRUE /\ UNCHANGED <<committed, working, asked>>

Commit == open /\ open' = FALSE /\ committed' = working /\ UNCHANGED <<working, asked>>

Rollback == open /\ open' = FALSE /\ working' = committed /\ UNCHANGED <<committed, asked>>

Next ==
    \/ Begin \/ Commit \/ Rollback
    \/ \E k \in Keys, value \in Values \union {None} : Write(k, value)

Spec == Init /\ [][Next]_vars
=============================================================================
