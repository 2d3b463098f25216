------------------------------- MODULE RWLock -------------------------------
(***************************************************************************)
(* What every tier of rwlock.py promises: many readers together, or one    *)
(* writer alone (the Invariants section of the module docstring).          *)
(* A thread is in "readers" from the return of acquire_read to the call of *)
(* release_read, and in "writers" from the return of acquire_write to the  *)
(* call of release_write.                                                  *)
(***************************************************************************)
CONSTANT Threads

VARIABLES readers, writers

vars == <<readers, writers>>

Init == readers = {} /\ writers = {}

AcquireRead(t) ==
    /\ writers = {}
    /\ t \notin readers
    /\ readers' = readers \union {t}
    /\ UNCHANGED writers

ReleaseRead(t) ==
    /\ t \in readers
    /\ readers' = readers \ {t}
    /\ UNCHANGED writers

AcquireWrite(t) ==
    /\ readers = {} /\ writers = {}
    /\ writers' = {t}
    /\ UNCHANGED readers

ReleaseWrite(t) ==
    /\ t \in writers
    /\ writers' = writers \ {t}
    /\ UNCHANGED readers

Next == \E t \in Threads :
    AcquireRead(t) \/ ReleaseRead(t) \/ AcquireWrite(t) \/ ReleaseWrite(t)

Spec == Init /\ [][Next]_vars
=============================================================================
