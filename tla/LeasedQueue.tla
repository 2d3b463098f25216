---------------------------- MODULE LeasedQueue ----------------------------
(***************************************************************************)
(* Tier 3 of producer_consumer_service: the table of DBBackedQueue with    *)
(* leases and bounded retries.  claimed_at is kept as the job's age, the   *)
(* time since it, counted up to the lease: nothing else about the clock    *)
(* can be told apart.                                                      *)
(***************************************************************************)
EXTENDS DBBackedQueue

CONSTANTS
    LeaseSeconds,
    MaxAttempts,
    Live        \* the workers that always answer or die; others may hang

ASSUME LeasedQueueAssumption ==
    /\ LeaseSeconds \in Nat \ {0}
    /\ MaxAttempts \in Nat \ {0}
    /\ Live \subseteq Workers

VARIABLE age    \* of each job's claim, or Unclaimed

vars == <<dbvars, age>>

Unclaimed == -1   \* claimed_at is None

Init == DBInit /\ age = [j \in {} |-> Unclaimed]

LeasedSubmit ==
    /\ Submit
    /\ age' = [j \in 0 .. next_id |-> IF j = next_id THEN Unclaimed ELSE age[j]]

LeasedClaim(w) ==
    /\ Claim(w)
    /\ age' = [age EXCEPT ![held'[w][1]] = 0]

\* one attempt more than the cap
RetriesLeftOffByOne(j) == jobs[j].attempts <= MaxAttempts

RetriesLeft(j) == jobs[j].attempts < MaxAttempts

\* _requeue_or_fail, on a set of rows; claimed_at is reset only by a requeue
RequeueOrFail(J) ==
    /\ jobs' = [j \in Ids |->
                  IF j \in J
                  THEN [jobs[j] EXCEPT !.status = IF RetriesLeft(j) THEN "pending" ELSE "failed"]
                  ELSE jobs[j]]
    /\ age' = [j \in Ids |-> IF j \in J /\ RetriesLeft(j) THEN Unclaimed ELSE age[j]]

LeasedComplete(w) == Complete(w) /\ UNCHANGED age

\* fail looks at the row's attempts, not at who holds it now
LeasedFail(w) ==
    /\ held[w] # None
    /\ RequeueOrFail({held[w][1]})
    /\ held' = [held EXCEPT ![w] = None]
    /\ UNCHANGED next_id

LeasedDie(w) == Die(w) /\ UNCHANGED age

Expired ==
    {j \in Ids : /\ jobs[j].status = "processing"
                 /\ age[j] # Unclaimed
                 /\ age[j] >= LeaseSeconds}

\* a monitor that leaves the expired rows to their workers
SweepNothing == Expired # {} /\ RequeueOrFail({}) /\ UNCHANGED <<next_id, held>>

SweepStuck ==
    /\ Expired # {}
    /\ RequeueOrFail(Expired)
    /\ UNCHANGED <<next_id, held>>

Tick ==
    /\ age' = [j \in Ids |-> IF age[j] \in 0 .. LeaseSeconds - 1 THEN age[j] + 1 ELSE age[j]]
    /\ UNCHANGED dbvars

Answer(w) == LeasedComplete(w) \/ LeasedFail(w) \/ LeasedDie(w)

Next ==
    \/ LeasedSubmit \/ SweepStuck \/ Tick
    \/ \E w \in Workers : LeasedClaim(w) \/ Answer(w)

Spec == Init /\ [][Next]_vars

\* Time passes, the monitor runs, and the live workers poll and answer.
Fairness ==
    /\ WF_vars(Tick) /\ WF_vars(SweepStuck)
    /\ \A w \in Live : WF_vars(LeasedClaim(w)) /\ WF_vars(Answer(w))

-----------------------------------------------------------------------------
(* Properties *)

\* Every variable has its type.
TypeOK ==
    /\ next_id \in 0 .. MaxJobs
    /\ jobs \in [Ids -> Job]
    /\ age \in [Ids -> Unclaimed .. LeaseSeconds]
    /\ held \in [Workers -> {None} \union (Nat \X Nat)]

\* "A poison job cannot loop forever": no row is attempted more than
\* max_attempts times, and one that may be claimed again has tries left,
\* although late answers requeue rows their worker no longer holds.
AttemptsBounded ==
    \A j \in Ids :
        /\ jobs[j].attempts <= MaxAttempts
        /\ jobs[j].status = "pending" => jobs[j].attempts < MaxAttempts

\* The claim is atomic: two workers that mean to answer for the same job
\* hold different attempts of it, none of them in the future.
ClaimsAreDistinct ==
    \A w \in Workers : held[w] # None =>
        /\ held[w][1] \in Ids
        /\ held[w][2] \in 1 .. jobs[held[w][1]].attempts
        /\ \A v \in Workers : held[v] = held[w] => v = w

\* The monitor finds every claim: a row being processed has a claimed_at.
ProcessingHasLease ==
    \A j \in Ids : jobs[j].status = "processing" => age[j] # Unclaimed

\* The monitor leaves a worker its lease: what the sweep takes back was
\* claimed a full lease ago.
SweepRespectsLease ==
    [][\A j \in Ids :
         jobs[j].status = "processing" /\ jobs'[j].status # "processing" /\ held' = held
           => age[j] >= LeaseSeconds]_vars

Settled(j) == j \in Ids /\ jobs[j].status \in {"success", "failed"}

\* Every submitted job ends in SUCCESS or FAILED for good, whatever workers
\* die or hang and however late they answer.
EverythingSettles ==
    \A j \in 0 .. MaxJobs - 1 : [](j \in Ids => <>[]Settled(j))
=============================================================================
