----------------------------- MODULE DurableLog -----------------------------
(***************************************************************************)
(* What the durable tiers of event_logger promise: the log on stable       *)
(* storage only grows, a group at a time, every event is on it at most     *)
(* once, and an append returns only when its event is on it.               *)
(* A crash keeps exactly "log", at any moment.                             *)
(***************************************************************************)
EXTENDS Naturals, Sequences

CONSTANT Events

VARIABLES
    log,        \* what is on stable storage
    returned    \* the events whose append has returned

vars == <<log, returned>>

OnLog == {log[i] : i \in DOMAIN log}

Init == log = <<>> /\ returned = {}

\* a group reaches stable storage, behind what is there
Commit ==
    /\ log' \in Seq(Events)
    /\ Len(log') >= Len(log) /\ SubSeq(log', 1, Len(log)) = log
    /\ \A i, j \in DOMAIN log' : log'[i] = log'[j] => i = j
    /\ UNCHANGED returned

Return(e) ==
    /\ e \in OnLog \ returned
    /\ returned' = returned \union {e}
    /\ UNCHANGED log

Next == Commit \/ \E e \in Events : Return(e)

Spec == Init /\ [][Next]_vars
=============================================================================
