---------------------------- MODULE LoadBalancer ----------------------------
(***************************************************************************)
(* The load balancer of preparation/probe7.  Every method holds the lock   *)
(* from beginning to end.                                                  *)
(***************************************************************************)
EXTENDS SequencesExt, FiniteSets

CONSTANTS Servers, Capacity

LoadBalancerConstants == IsFiniteSet(Servers) /\ Capacity \in Nat \ {0}

VARIABLES
    servers,
    strategy,   \* the strategy given to the constructor
    index,      \* _index of the round robin
    outcome     \* of the last get: a server or the name of the exception

vars == <<servers, strategy, index, outcome>>

Init ==
    /\ servers = <<>> /\ index = 0 /\ outcome = "none"
    /\ strategy \in {"random", "round_robin"}

\* refused: registered already, or no capacity left
Register(s) ==
    /\ s \notin ToSet(servers) /\ Len(servers) < Capacity
    /\ servers' = Append(servers, s)
    /\ UNCHANGED <<strategy, index, outcome>>

Unregister(s) ==
    /\ s \in ToSet(servers)
    /\ servers' = RemoveFirst(servers, s)
    /\ UNCHANGED <<strategy, index, outcome>>

GetRaises ==
    /\ servers = <<>>
    /\ outcome' = "ValueError"
    /\ UNCHANGED <<servers, strategy, index>>

ChooseRandom ==
    /\ strategy = "random" /\ servers # <<>>
    /\ outcome' \in ToSet(servers)
    /\ UNCHANGED <<servers, strategy, index>>

\* choose of the round robin: index counts from 0, and is advanced to a number
\* from 1 to the number of servers
ChooseNext ==
    /\ strategy = "round_robin" /\ servers # <<>>
    /\ IF index < Len(servers)
       THEN outcome' = servers[index + 1] /\ index' = (index % Len(servers)) + 1
       ELSE outcome' = "IndexError" /\ UNCHANGED index
    /\ UNCHANGED <<servers, strategy>>

Get == GetRaises \/ ChooseRandom \/ ChooseNext

Next == (\E s \in Servers : Register(s) \/ Unregister(s)) \/ Get

-----------------------------------------------------------------------------
(* Properties *)

\* Every variable has its type; no server is registered twice.
TypeOK ==
    /\ ToSet(servers) \subseteq Servers /\ IsInjective(servers) /\ Len(servers) <= Capacity
    /\ strategy \in {"random", "round_robin"} /\ index \in 0 .. Capacity
    /\ outcome \in Servers \union {"none", "ValueError", "IndexError"}

\* Round robin hands out a server whenever one is registered: get raises for
\* an empty balancer only, and then a ValueError.
GetFailsOnlyWhenEmpty == outcome # "IndexError"
=============================================================================
