--------------------------- MODULE DBBackedQueue ---------------------------
(***************************************************************************)
(* Tier 2 of producer_consumer_service: a table of job rows.  Producers    *)
(* submit, each worker runs claim, process, complete or fail, and may die  *)
(* in between.  Every method is one critical section of self._lock, so one *)
(* action; what interleaves is which worker still means to answer for      *)
(* which claim.  Payloads and results are left out, and claimed_at is      *)
(* added where it is read, in LeasedQueue.                                 *)
(***************************************************************************)
EXTENDS Integers, FiniteSets

CONSTANTS
    Workers,
    None,       \* no job
    MaxJobs     \* bound: submissions

ASSUME DBBackedQueueAssumption ==
    /\ IsFiniteSet(Workers)
    /\ MaxJobs \in Nat
    /\ None \notin Nat \X Nat

VARIABLES
    jobs,       \* the rows, by id: their status and attempts
    next_id,
    held        \* the claim each worker has yet to answer: the job's id and
                \* which of its attempts this is

dbvars == <<jobs, next_id, held>>

Status == {"pending", "processing", "success", "failed"}
Job == [status : Status, attempts : Nat]
Ids == 0 .. next_id - 1

DBInit ==
    /\ jobs = [j \in {} |-> {}]
    /\ next_id = 0
    /\ held = [w \in Workers |-> None]

Submit ==
    /\ next_id < MaxJobs
    /\ next_id' = next_id + 1
    /\ jobs' = [j \in 0 .. next_id |->
                  IF j = next_id THEN [status |-> "pending", attempts |-> 0] ELSE jobs[j]]
    /\ UNCHANGED held

Pending == {j \in Ids : jobs[j].status = "pending"}

\* dict order is the order of the ids
FirstPending(j) == j \in Pending /\ \A i \in Pending : j <= i

\* the attempt is not counted
ClaimUncounted(w) ==
    /\ held[w] = None
    /\ \E j \in Ids :
        /\ FirstPending(j)
        /\ jobs' = [jobs EXCEPT ![j].status = "processing"]
        /\ held' = [held EXCEPT ![w] = <<j, jobs'[j].attempts>>]
    /\ UNCHANGED next_id

Claim(w) ==
    /\ held[w] = None
    /\ \E j \in Ids :
        /\ FirstPending(j)
        /\ jobs' = [jobs EXCEPT ![j] = [status |-> "processing", attempts |-> @.attempts + 1]]
        /\ held' = [held EXCEPT ![w] = <<j, jobs'[j].attempts>>]
    /\ UNCHANGED next_id

\* the worker answers for the job it claimed, and asks nothing about its row
Complete(w) ==
    /\ held[w] # None
    /\ jobs' = [jobs EXCEPT ![held[w][1]].status = "success"]
    /\ held' = [held EXCEPT ![w] = None]
    /\ UNCHANGED next_id

Fail(w) ==
    /\ held[w] # None
    /\ jobs' = [jobs EXCEPT ![held[w][1]].status = "failed"]
    /\ held' = [held EXCEPT ![w] = None]
    /\ UNCHANGED next_id

\* the worker dies and its replacement knows nothing of the claim
Die(w) ==
    /\ held[w] # None
    /\ held' = [held EXCEPT ![w] = None]
    /\ UNCHANGED <<jobs, next_id>>

DBNext == Submit \/ \E w \in Workers : Claim(w) \/ Complete(w) \/ Fail(w) \/ Die(w)

-----------------------------------------------------------------------------
(* Properties *)

\* Rows exist for the ids given out, and a worker answers for one of them.
DBTypeOK ==
    /\ next_id \in 0 .. MaxJobs
    /\ jobs \in [Ids -> Job]
    /\ \A w \in Workers : held[w] # None => held[w] \in Ids \X Nat

\* "Claiming under the lock gives each job to exactly one worker": no job is
\* ever attempted twice, and who holds it is processing it alone.
ExactlyOneWorker ==
    /\ \A j \in Ids : jobs[j].attempts <= 1
    /\ \A w \in Workers : held[w] # None =>
        /\ jobs[held[w][1]].status = "processing"
        /\ \A v \in Workers : held[v] # None /\ held[v][1] = held[w][1] => v = w

\* Jobs are taken in the order they were submitted (test_claim_is_fifo):
\* what is pending was submitted after everything that is not.
ClaimedInOrder ==
    \A i, j \in Ids : i < j /\ jobs[i].status = "pending" => jobs[j].status = "pending"
=============================================================================
