--------------------------- MODULE ExpiringStore ---------------------------
(***************************************************************************)
(* What TTLKV promises: a key is there until its time is up, and is gone   *)
(* from then on, whether anybody looks or not.                             *)
(***************************************************************************)
EXTENDS Integers

CONSTANTS
    Keys, Values,
    Ttls,   \* the times to live that are asked for, None for ever
    None

VARIABLES
    now,
    live,   \* of each key: None, or its value and when it expires
    asked   \* the last write that was asked for

vars == <<now, live, asked>>

Over(entry, t) == entry # None /\ entry.expires_at # None /\ entry.expires_at <= t

Init == now = 0 /\ live = [k \in Keys |-> None] /\ asked = None

Entry(value, ttl) ==
    [value |-> value, expires_at |-> IF ttl = None THEN None ELSE now + ttl]

Put(k, value, ttl) ==
    LET entry == Entry(value, ttl) IN
    /\ live' = [live EXCEPT ![k] = IF Over(entry, now) THEN None ELSE entry]
    /\ asked' = <<k, value, ttl>>
    /\ UNCHANGED now

Delete(k) ==
    /\ live' = [live EXCEPT ![k] = None]
    /\ asked' = <<k>>
    /\ UNCHANGED now

Tick ==
    /\ now' = now + 1
    /\ live' = [k \in Keys |-> IF Over(live[k], now') THEN None ELSE live[k]]
    /\ UNCHANGED asked

Next ==
    \/ Tick
    \/ \E k \in Keys : Delete(k) \/ \E value \in Values, ttl \in Ttls : Put(k, value, ttl)

Spec == Init /\ [][Next]_vars
=============================================================================
