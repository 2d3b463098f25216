-------------------------- MODULE TransactionalKV --------------------------
(***************************************************************************)
(* Tier 3a of kv_store: one flat transaction that buffers writes in an     *)
(* overlay.  begin inside a transaction, and commit and rollback outside   *)
(* of one, raise and change nothing.                                       *)
(***************************************************************************)
CONSTANTS Keys, Values, None, Tombstone

\* what the constants must be: the sentinels are objects of their own
TransactionalConstants ==
    /\ Tombstone \notin Values \union {None}
    /\ \A K \in SUBSET Keys : None \notin [K -> Values \union {None, Tombstone}]

VARIABLES
    base,
    txn,    \* the overlay, or None
    asked   \* the last put, or delete as a put of None: for the property only

vars == <<base, txn, asked>>

Empty == [k \in {} |-> None]
With(store, k, value) ==
    [j \in DOMAIN store \union {k} |-> IF j = k THEN value ELSE store[j]]
Without(store, k) == [j \in DOMAIN store \ {k} |-> store[j]]

Init == base = Empty /\ txn = None /\ asked = None

InTransaction == txn # None

Put(k, value) ==
    /\ IF InTransaction
       THEN txn' = With(txn, k, value) /\ UNCHANGED base
       ELSE base' = With(base, k, value) /\ UNCHANGED txn
    /\ asked' = <<k, value>>

\* what a read answers when no overlay hides the base
InBase(k) == IF k \in DOMAIN base THEN base[k] ELSE None

Get(k) ==
    IF InTransaction /\ k \in DOMAIN txn
    THEN IF txn[k] = Tombstone THEN None ELSE txn[k]
    ELSE InBase(k)

\* without the tombstone the base shows again
DeleteUncovers(k) ==
    /\ IF InTransaction
       THEN txn' = Without(txn, k) /\ UNCHANGED base
       ELSE base' = Without(base, k) /\ UNCHANGED txn
    /\ asked' = <<k, None>>

Delete(k) ==
    /\ IF InTransaction
       THEN txn' = With(txn, k, Tombstone) /\ UNCHANGED base
       ELSE base' = Without(base, k) /\ UNCHANGED txn
    /\ asked' = <<k, None>>

Begin == ~InTransaction /\ txn' = Empty /\ UNCHANGED <<base, asked>>

Commit ==
    /\ InTransaction
    /\ LET deleted == {k \in DOMAIN txn : txn[k] = Tombstone} IN
       base' = [k \in (DOMAIN txn \union DOMAIN base) \ deleted |->
                  IF k \in DOMAIN txn THEN txn[k] ELSE base[k]]
    /\ txn' = None
    /\ UNCHANGED asked

Rollback == InTransaction /\ txn' = None /\ UNCHANGED <<base, asked>>

Next ==
    \/ Begin \/ Commit \/ Rollback
    \/ \E k \in Keys : Delete(k) \/ \E value \in Values \union {None} : Put(k, value)

Spec == Init /\ [][Next]_vars

-----------------------------------------------------------------------------
(* Properties *)

Atomic == INSTANCE AtomicStore WITH
    open <- InTransaction,
    committed <- [k \in Keys |-> InBase(k)],
    working <- [k \in Keys |-> Get(k)]

\* Reads answer what the transaction wrote and deleted, a commit keeps all of
\* it and a rollback none.
TransactionsAreAtomic == Atomic!Spec
=============================================================================
