---------------------------- MODULE MCPipelines ----------------------------
(***************************************************************************)
(* What hands work or events from one thread to another, on a few threads: *)
(* the tiers of producer_consumer_service, the loggers of event_logger and *)
(* the job API of api_design.  A program constructs one of them; the       *)
(* variables of the others stay as they are.                               *)
(***************************************************************************)
EXTENDS LeasedQueue, GroupCommitLogger

CONSTANTS
    w1, w2, w3, p1, p2, p3, c1, c2, a1, a2, a3, r1, r2, k1, k2,
    Producers, Consumers, Capacity, MaxItems,   \* of the buffer
    TableWorkers, TableJobs,                    \* of the table
    BatchSize, MaxEvents, MaxFailures,          \* of the batched log
    Requests, RequestIds, APIWorkers, MaxSubmits

VARIABLES
    tier,
    items, not_full, not_empty, woken, sent, taken,             \* the buffer
    rows, next_row, claims,                                     \* the table
    batch, appended, failures, batch_records, batch_durable,    \* the batched log
    api_jobs, key, queue, by_request, submits, request, worker, runs, answered

buffer_vars == <<items, not_full, not_empty, woken, sent, taken>>
table_vars == <<rows, next_row, claims>>
batched_vars == <<batch, appended, failures, batch_records, batch_durable>>
api_vars == <<api_jobs, key, queue, by_request, submits, request, worker, runs, answered>>
all == <<tier, vars, logvars, buffer_vars, table_vars, batched_vars, api_vars>>

TwoWorkers == {w1, w2}
ThreeWorkers == {w1, w2, w3}
OneLive == {w2}
ThreeAppenders == {a1, a2, a3}
ThreeProducers == {p1, p2, p3}
TwoConsumers == {c1, c2}
TwoRequests == {r1, r2}
TwoRequestIds == {k1, k2}

Buffer == INSTANCE BoundedBlockingQueue

Table == INSTANCE DBBackedQueue WITH
    Workers <- TableWorkers, MaxJobs <- TableJobs,
    jobs <- rows, next_id <- next_row, held <- claims

Batched == INSTANCE BatchedLogger WITH
    buffer <- batch, records <- batch_records, durable_upto <- batch_durable

API == INSTANCE JobAPI WITH Workers <- APIWorkers, NoJob <- None, jobs <- api_jobs

ASSUME TierConstants ==
    /\ Buffer!BufferConstants /\ Batched!BatchedLoggerConstants /\ API!JobAPIConstants
    /\ IsFiniteSet(TableWorkers) /\ TableJobs \in Nat

PipelinesInit ==
    /\ tier \in {"buffer", "table", "leased", "batched", "group_commit", "api"}
    /\ Init /\ LogInit /\ Buffer!Init /\ Table!DBInit /\ Batched!Init /\ API!Init

BufferStep == tier = "buffer" /\ Buffer!Next
TableStep == tier = "table" /\ Table!DBNext
LeasedStep == tier = "leased" /\ Next
BatchedStep == tier = "batched" /\ Batched!Next
GroupCommitStep == tier = "group_commit" /\ LogNext
APIStep == tier = "api" /\ API!Next

OthersRest ==
    /\ UNCHANGED tier
    /\ tier # "buffer" => UNCHANGED buffer_vars
    /\ tier # "table" => UNCHANGED table_vars
    /\ tier # "leased" => UNCHANGED vars
    /\ tier # "batched" => UNCHANGED batched_vars
    /\ tier # "group_commit" => UNCHANGED logvars
    /\ tier # "api" => UNCHANGED api_vars

PipelinesNext ==
    /\ \/ BufferStep \/ TableStep \/ LeasedStep
       \/ BatchedStep \/ GroupCommitStep \/ APIStep
    /\ OthersRest

\* Threads that can run do; nobody has to submit, append or close.
PipelinesSpec ==
    /\ PipelinesInit /\ [][PipelinesNext]_all
    /\ Fairness
    /\ \A p \in Producers : WF_buffer_vars(tier = "buffer" /\ Buffer!Enqueue(p))
    /\ \A c \in Consumers : WF_buffer_vars(tier = "buffer" /\ Buffer!Dequeue(c))
    /\ \A a \in Appenders : WF_logvars(AppenderChecks(a))
    /\ WF_logvars(tier = "group_commit" /\ FlusherStep)
    /\ WF_logvars(CloseReturns)
    /\ \A w \in APIWorkers : WF_api_vars(API!Process(w))

-----------------------------------------------------------------------------
(* Properties *)

\* Every variable of every queue has its type.  Whoever sleeps on the buffer
\* has a wake-up under way for everything it could do, and every item goes
\* through it once, in its producer's order.  The table gives each job to one
\* worker, once, in the order of submission, and so does the deque of the API
\* although nothing is locked.
QueuesAreSound ==
    /\ TypeOK /\ Buffer!TypeOK /\ Table!DBTypeOK
    /\ Buffer!NoLostWakeup /\ Buffer!ExactlyOnceInOrder
    /\ Table!ExactlyOneWorker /\ Table!ClaimedInOrder
    /\ API!JobsAreHandledOnce

\* Every item gets through the buffer and is consumed, every job of the leased
\* table settles for good, and so does every job of the API.
WorkGetsDone ==
    /\ tier = "buffer" => Buffer!EverythingIsConsumed
    /\ EverythingSettles
    /\ API!JobsSettle

\* A retried submit creates nothing once the first one was answered.
RetriesCreateNothing == API!RetriesCreateNothing

\* Calls return: append unless the flusher has ended before its event was
\* durable, and close whatever the appenders and the sink do.
CallsReturn == AppendReturns /\ CloseEnds

\* No event of the batched logger is lost, whatever flushes are broken off;
\* only the retry of a broken flush writes an event again, and apart from that
\* the log is in the order of the appends.
BatchedLogIsSound ==
    /\ LogTypeOK /\ Batched!TypeOK
    /\ Batched!NothingIsLost /\ Batched!OncePerAttempt /\ Batched!FirstWrittenInOrder
=============================================================================
