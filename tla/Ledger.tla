------------------------------- MODULE Ledger -------------------------------
(***************************************************************************)
(* The ledger of preparation/probe10: a transfer locks both accounts, the  *)
(* one with the smaller id first.  A step is what a thread does from one   *)
(* lock operation, or one access to a balance, to the next.                *)
(***************************************************************************)
EXTENDS Integers, FiniteSetsExt

CONSTANTS
    Clients,        \* the threads that transfer
    Accounts,       \* their ids
    Opening,        \* the balance each account is opened with
    Amounts,        \* the amounts that are transferred
    Free            \* no thread

LedgerConstants ==
    /\ IsFiniteSet(Clients)
    /\ IsFiniteSet(Accounts) /\ Accounts \subseteq Int /\ Accounts # {}
    /\ Opening \in [Accounts -> Nat]
    /\ Amounts \subseteq Nat \ {0} /\ Amounts # {}
    /\ Free \notin Clients

VARIABLES
    balance,
    holder,     \* of each account's lock
    at,         \* where each client is in transfer
    order       \* the transfer it was asked for: from, to and how much

vars == <<balance, holder, at, order>>

Transfers == {[src |-> s, dst |-> d, amount |-> m] :
                  s \in Accounts, d \in Accounts, m \in Amounts}

NoOrder == CHOOSE o \in Transfers : o.src = o.dst

Stages == {"idle", "first", "second", "checks", "debits", "credits", "unlocks", "unlocks_first"}

Init ==
    /\ balance = Opening
    /\ holder = [a \in Accounts |-> Free]
    /\ at = [c \in Clients |-> "idle"]
    /\ order = [c \in Clients |-> NoOrder]

Goes(c, from, to) == at[c] = from /\ at' = [at EXCEPT ![c] = to]

\* from and to the same account is refused
CallTransfer(c, o) ==
    /\ o.src # o.dst
    /\ Goes(c, "idle", "first")
    /\ order' = [order EXCEPT ![c] = o]
    /\ UNCHANGED <<balance, holder>>

Both(c) == {order[c].src, order[c].dst}

\* the source first, whatever its id
FirstIsSource(c) == order[c].src

First(c) == Min(Both(c))
Second(c) == CHOOSE a \in Both(c) : a # First(c)

Take(c, account) ==
    /\ holder[account] = Free
    /\ holder' = [holder EXCEPT ![account] = c]

TakeFirst(c) ==
    /\ Goes(c, "first", "second") /\ Take(c, First(c))
    /\ UNCHANGED <<balance, order>>

TakeSecond(c) ==
    /\ Goes(c, "second", "checks") /\ Take(c, Second(c))
    /\ UNCHANGED <<balance, order>>

\* "insufficient balance" leaves through both locks
CheckBalance(c) ==
    /\ Goes(c, "checks", IF balance[order[c].src] < order[c].amount THEN "unlocks" ELSE "debits")
    /\ UNCHANGED <<balance, holder, order>>

Debit(c) ==
    /\ Goes(c, "debits", "credits")
    /\ balance' = [balance EXCEPT ![order[c].src] = @ - order[c].amount]
    /\ UNCHANGED <<holder, order>>

Credit(c) ==
    /\ Goes(c, "credits", "unlocks")
    /\ balance' = [balance EXCEPT ![order[c].dst] = @ + order[c].amount]
    /\ UNCHANGED <<holder, order>>

UnlockSecond(c) ==
    /\ Goes(c, "unlocks", "unlocks_first")
    /\ holder' = [holder EXCEPT ![Second(c)] = Free]
    /\ UNCHANGED <<balance, order>>

UnlockFirst(c) ==
    /\ Goes(c, "unlocks_first", "idle")
    /\ holder' = [holder EXCEPT ![First(c)] = Free]
    /\ order' = [order EXCEPT ![c] = NoOrder]
    /\ UNCHANGED balance

Transfer(c) ==
    \/ TakeFirst(c) \/ TakeSecond(c)
    \/ CheckBalance(c) \/ Debit(c) \/ Credit(c)
    \/ UnlockSecond(c) \/ UnlockFirst(c)

Next == \E c \in Clients : Transfer(c) \/ \E o \in Transfers : CallTransfer(c, o)

-----------------------------------------------------------------------------
(* Properties *)

\* Every variable has its type.
TypeOK ==
    /\ balance \in [Accounts -> Int]
    /\ holder \in [Accounts -> Clients \union {Free}]
    /\ at \in [Clients -> Stages] /\ order \in [Clients -> Transfers]

\* what each client has debited and not yet credited
Moving == [c \in Clients |-> IF at[c] = "credits" THEN order[c].amount ELSE 0]

\* Money is neither made nor lost by transfers that interleave, but for what
\* one of them has debited and not yet credited, and no account is overdrawn.
MoneyIsConserved ==
    /\ \A a \in Accounts : balance[a] >= 0
    /\ MapThenSumSet(LAMBDA a : balance[a], Accounts) + MapThenSumSet(LAMBDA c : Moving[c], Clients)
       = MapThenSumSet(LAMBDA a : Opening[a], Accounts)

\* Transfers never wait for each other in a circle: as long as one is under
\* way, one of them can go on.
SomebodyGoesOn ==
    (\E c \in Clients : at[c] # "idle") =>
        \E c \in Clients :
            \/ at[c] = "first" /\ holder[First(c)] = Free
            \/ at[c] = "second" /\ holder[Second(c)] = Free
            \/ at[c] \notin {"idle", "first", "second"}

LedgerIsSound == TypeOK /\ MoneyIsConserved /\ SomebodyGoesOn
=============================================================================
