------------------------------- MODULE JobAPI -------------------------------
(***************************************************************************)
(* Tiers 2 and 3 of api_design: clients submit with a request_id and may   *)
(* submit it again, each request on a thread of the server, while workers  *)
(* take jobs from a deque.  There is no lock: what the interpreter does    *)
(* between two looks at shared state is one step.  The handler is          *)
(* external: it returns or raises.                                         *)
(***************************************************************************)
EXTENDS Integers, Sequences, FiniteSetTheorems, TLAPS

CONSTANTS
    Requests,       \* the threads that serve submits, one after the other
    RequestIds,
    Workers,
    NoJob,
    MaxSubmits      \* bound: submits begun

JobAPIConstants ==
    /\ IsFiniteSet(Requests) /\ IsFiniteSet(Workers)
    /\ NoJob \notin Nat /\ MaxSubmits \in Nat

VARIABLES
    jobs,           \* the status of each job; ids count up instead of uuid4
    key,            \* the request_id of each job
    queue,
    by_request,     \* of each request_id: its job or NoJob
    submits,        \* how many submits have begun
    request,        \* of each thread: where it is and for which request_id
    worker,         \* of each worker: where it is and with which job
    runs,           \* how often the handler was called for each job
    answered        \* for each request_id: the jobs that submits returned

vars == <<jobs, key, queue, by_request, submits, request, worker, runs, answered>>

Ids == 1 .. Len(jobs)
Free == [pc |-> "free"]
Idle == [pc |-> "idle"]

Init ==
    /\ jobs = <<>> /\ key = <<>> /\ queue = <<>> /\ runs = <<>>
    /\ by_request = [k \in RequestIds |-> NoJob]
    /\ submits = 0
    /\ request = [r \in Requests |-> Free]
    /\ worker = [w \in Workers |-> Idle]
    /\ answered = [k \in RequestIds |-> {}]

Answer(k, job) == answered' = [answered EXCEPT ![k] = @ \union {job}]

\* submit of a known request_id
SubmitKnown(r, k) ==
    /\ request[r] = Free /\ submits < MaxSubmits
    /\ by_request[k] # NoJob
    /\ submits' = submits + 1
    /\ Answer(k, by_request[k])
    /\ UNCHANGED <<jobs, key, queue, by_request, request, worker, runs>>

\* submit of one that is not known: again holds whether this is a retry
SubmitNew(r, k) ==
    /\ request[r] = Free /\ submits < MaxSubmits
    /\ by_request[k] = NoJob
    /\ submits' = submits + 1
    /\ request' = [request EXCEPT ![r] =
                     [pc |-> "create", key |-> k, again |-> answered[k] # {}]]
    /\ UNCHANGED <<jobs, key, queue, by_request, worker, runs, answered>>

\* submit of AsyncJobAPI: the record and the payload are there before a worker
\* can find the job on the queue
Create(r) ==
    /\ request[r].pc = "create"
    /\ jobs' = Append(jobs, "pending")
    /\ key' = Append(key, request[r].key)
    /\ runs' = Append(runs, 0)
    /\ queue' = Append(queue, Len(jobs'))
    /\ request' = [request EXCEPT ![r] =
                     [pc |-> "remember", key |-> @.key, job |-> Len(jobs')]]
    /\ UNCHANGED <<by_request, submits, worker, answered>>

\* the client has its answer before the job is remembered
RememberLate(r) ==
    /\ request[r].pc = "remember"
    /\ \/ /\ request[r].job \notin answered[request[r].key]
          /\ Answer(request[r].key, request[r].job)
          /\ UNCHANGED <<by_request, request>>
       \/ /\ request[r].job \in answered[request[r].key]
          /\ by_request' = [by_request EXCEPT ![request[r].key] = request[r].job]
          /\ request' = [request EXCEPT ![r] = Free]
          /\ UNCHANGED answered
    /\ UNCHANGED <<jobs, key, queue, submits, worker, runs>>

Remember(r) ==
    /\ request[r].pc = "remember"
    /\ by_request' = [by_request EXCEPT ![request[r].key] = request[r].job]
    /\ Answer(request[r].key, request[r].job)
    /\ request' = [request EXCEPT ![r] = Free]
    /\ UNCHANGED <<jobs, key, queue, submits, worker, runs>>

\* process_next looks whether there is work
Look(w) ==
    /\ worker[w] = Idle /\ queue # <<>>
    /\ worker' = [worker EXCEPT ![w] = [pc |-> "pop"]]
    /\ UNCHANGED <<jobs, key, queue, by_request, submits, request, runs, answered>>

\* the job is taken and the handler called
Pop(w) ==
    /\ worker[w].pc = "pop" /\ queue # <<>>
    /\ worker' = [worker EXCEPT ![w] = [pc |-> "run", job |-> Head(queue)]]
    /\ jobs' = [jobs EXCEPT ![Head(queue)] = "running"]
    /\ runs' = [runs EXCEPT ![Head(queue)] = @ + 1]
    /\ queue' = Tail(queue)
    /\ UNCHANGED <<key, by_request, submits, request, answered>>

\* another worker was faster: popleft raises IndexError out of process_next
PopRaises(w) ==
    /\ worker[w].pc = "pop" /\ queue = <<>>
    /\ worker' = [worker EXCEPT ![w] = Idle]
    /\ UNCHANGED <<jobs, key, queue, by_request, submits, request, runs, answered>>

\* the handler returns or raises
Finish(w) ==
    /\ worker[w].pc = "run"
    /\ \E status \in {"success", "failed"} :
          jobs' = [jobs EXCEPT ![worker[w].job] = status]
    /\ worker' = [worker EXCEPT ![w] = Idle]
    /\ UNCHANGED <<key, queue, by_request, submits, request, runs, answered>>

Process(w) == Look(w) \/ Pop(w) \/ PopRaises(w) \/ Finish(w)

Next ==
    \/ \E r \in Requests, k \in RequestIds : SubmitKnown(r, k) \/ SubmitNew(r, k)
    \/ \E r \in Requests : Create(r) \/ Remember(r)
    \/ \E w \in Workers : Process(w)

Spec == Init /\ [][Next]_vars

-----------------------------------------------------------------------------
(* Properties *)

\* A submit that begins after one of its request_id was answered creates
\* nothing, and it is answered with a job of its request_id that was answered
\* before: only submits that overlap make a second job, and then the client
\* may be told of both.
RetriesCreateNothing ==
    /\ \A r \in Requests : request[r].pc = "create" => ~request[r].again
    /\ \A k \in RequestIds :
        /\ answered[k] # {} => by_request[k] \in answered[k]
        /\ \A job \in answered[k] : job \in Ids /\ key[job] = k

Waiting(job) == {i \in 1 .. Len(queue) : queue[i] = job}
Running(job) == {w \in Workers : worker[w].pc = "run" /\ worker[w].job = job}

\* Without a lock each job is in one place: pending and once on the queue,
\* running in one worker, or settled; its handler is called only once.
JobsAreHandledOnce ==
    \A job \in Ids :
        /\ Cardinality(Waiting(job)) = IF jobs[job] = "pending" THEN 1 ELSE 0
        /\ Cardinality(Running(job)) = IF jobs[job] = "running" THEN 1 ELSE 0
        /\ runs[job] = IF jobs[job] = "pending" THEN 0 ELSE 1

\* Every job settles while workers call process_next again and again, also
\* when it raises in one of them.
JobsSettle ==
    \A job \in 1 .. MaxSubmits :
        [](job \in Ids => <>[](job \in Ids /\ jobs[job] \in {"success", "failed"}))

-----------------------------------------------------------------------------
(* Proofs *)

Statuses == {"pending", "running", "success", "failed"}
Creating == [pc : {"create"}, key : RequestIds, again : BOOLEAN]
Remembering == [pc : {"remember"}, key : RequestIds, job : Nat]

APITypeOK ==
    /\ jobs \in Seq(Statuses) /\ key \in Seq(RequestIds) /\ Len(key) = Len(jobs)
    /\ by_request \in [RequestIds -> Nat \union {NoJob}]
    /\ answered \in [RequestIds -> SUBSET Nat]
    /\ request \in [Requests -> {Free} \union Creating \union Remembering]

\* the job is there and was made for the request_id
MadeFor(job, k) == job \in Ids /\ key[job] = k

\* What the map and the threads remember are jobs of the request_id, and the
\* map is filled before the first answer.
MapInv ==
    /\ \A k \in RequestIds : by_request[k] # NoJob => MadeFor(by_request[k], k)
    /\ \A r \in Requests :
          request[r].pc = "remember" => MadeFor(request[r].job, request[r].key)

APIInv == APITypeOK /\ MapInv /\ RetriesCreateNothing

\* At the start there is no job and no thread serves a submit.
LEMMA APIInitInv == ASSUME JobAPIConstants, Init PROVE APIInv
<1>1. APITypeOK
  BY DEF Init, APITypeOK
<1>2. \A r \in Requests : request[r].pc = "free"
  BY DEF Init, Free
<1>3. MapInv
  BY <1>2 DEF Init, MapInv
<1>4. RetriesCreateNothing
  BY <1>2 DEF Init, RetriesCreateNothing
<1> QED BY <1>1, <1>3, <1>4 DEF APIInv

\* A known request_id is answered with the job that the map has for it.
LEMMA SubmitKnownInv ==
    ASSUME JobAPIConstants, APIInv, NEW r \in Requests, NEW k \in RequestIds, SubmitKnown(r, k)
    PROVE  APIInv'
<1> USE DEF APIInv, SubmitKnown, Answer
<1>1. MadeFor(by_request[k], k) /\ by_request[k] \in Nat
  BY DEF MapInv, APITypeOK, MadeFor, Ids
<1>2. APITypeOK'
  BY <1>1 DEF APITypeOK
<1>3. MapInv'
  BY DEF MapInv, MadeFor, Ids
<1>4. \A j \in RequestIds : answered'[j] =
        IF j = k THEN answered[k] \union {by_request[k]} ELSE answered[j]
  BY DEF APITypeOK
<1>5. RetriesCreateNothing'
  BY <1>1, <1>4 DEF RetriesCreateNothing, MadeFor, Ids
<1> QED BY <1>2, <1>3, <1>5

\* Only a request_id that was never answered makes a thread create.
LEMMA SubmitNewInv ==
    ASSUME JobAPIConstants, APIInv, NEW r \in Requests, NEW k \in RequestIds, SubmitNew(r, k)
    PROVE  APIInv'
<1> USE DEF APIInv, SubmitNew
<1>1. answered[k] = {}
  BY DEF RetriesCreateNothing, APITypeOK, JobAPIConstants
<1>2. APITypeOK'
  BY DEF APITypeOK, Creating
<1>3. \A q \in Requests : request'[q] =
        IF q = r THEN [pc |-> "create", key |-> k, again |-> FALSE] ELSE request[q]
  BY <1>1 DEF APITypeOK
<1>4. MapInv'
  BY <1>3 DEF MapInv, MadeFor, Ids
<1>5. RetriesCreateNothing'
  BY <1>3 DEF RetriesCreateNothing, Ids
<1> QED BY <1>2, <1>4, <1>5

\* A new job is the job of no other request_id.
LEMMA CreateInv ==
    ASSUME JobAPIConstants, APIInv, NEW r \in Requests, Create(r)
    PROVE  APIInv'
<1> USE DEF APIInv, Create
<1>1. request[r] \in Creating
  BY DEF APITypeOK, Creating, Remembering, Free
<1>2. /\ jobs' \in Seq(Statuses) /\ Len(jobs') = Len(jobs) + 1
      /\ key' \in Seq(RequestIds) /\ Len(key') = Len(key) + 1
  BY <1>1 DEF APITypeOK, Creating, Statuses
<1>3. /\ \A job \in Ids : job \in Ids' /\ key'[job] = key[job]
      /\ Len(jobs') \in Ids' /\ key'[Len(jobs')] = request[r].key
  BY <1>1, <1>2 DEF Ids, APITypeOK, Creating
<1>4. \A q \in Requests : request'[q] =
        IF q = r THEN [pc |-> "remember", key |-> request[r].key, job |-> Len(jobs')] ELSE request[q]
  BY DEF APITypeOK
<1>5. APITypeOK'
  <2>1. [pc |-> "remember", key |-> request[r].key, job |-> Len(jobs')] \in Remembering
    BY <1>1, <1>2 DEF Creating, Remembering
  <2> QED BY <1>2, <2>1 DEF APITypeOK
<1>6. \A job, k : MadeFor(job, k) => MadeFor(job, k)'
  BY <1>3 DEF MadeFor
<1>7. \A k \in RequestIds : by_request'[k] = by_request[k] /\ answered'[k] = answered[k]
  OBVIOUS
<1>8. MapInv'
  <2>1. ASSUME NEW k \in RequestIds, by_request[k] # NoJob
        PROVE  MadeFor(by_request[k], k)'
    BY <2>1, <1>6 DEF MapInv
  <2>2. ASSUME NEW q \in Requests, request'[q].pc = "remember"
        PROVE  MadeFor(request[q].job, request[q].key)'
    <3>1. CASE q = r
      <4>1. request'[q].job = Len(jobs') /\ request'[q].key = request[r].key
        BY <3>1, <1>4
      <4> QED BY <4>1, <1>3 DEF MadeFor
    <3>2. CASE q # r
      <4>1. request'[q] = request[q]
        BY <3>2, <1>4
      <4>2. MadeFor(request[q].job, request[q].key)
        BY <2>2, <4>1 DEF MapInv
      <4> QED BY <4>1, <4>2, <1>3 DEF MadeFor
    <3> QED BY <3>1, <3>2
  <2> QED BY <2>1, <2>2 DEF MapInv
<1>9. RetriesCreateNothing'
  <2>1. ASSUME NEW q \in Requests, request'[q].pc = "create"
        PROVE  ~request'[q].again
    <3>1. q # r
      BY <2>1, <1>4
    <3> QED BY <3>1, <2>1, <1>4 DEF RetriesCreateNothing
  <2>2. ASSUME NEW k \in RequestIds
        PROVE  /\ answered'[k] # {} => by_request'[k] \in answered'[k]
               /\ \A job \in answered'[k] : job \in Ids' /\ key'[job] = k
    BY <1>3, <1>7 DEF RetriesCreateNothing
  <2> QED BY <2>1, <2>2 DEF RetriesCreateNothing
<1> QED BY <1>5, <1>8, <1>9

\* The map has the job before its client has the answer.
LEMMA RememberInv ==
    ASSUME JobAPIConstants, APIInv, NEW r \in Requests, Remember(r)
    PROVE  APIInv'
<1> USE DEF APIInv, Remember, Answer
<1> DEFINE k == request[r].key
           job == request[r].job
<1>1. k \in RequestIds /\ job \in Nat /\ MadeFor(job, k)
  BY DEF APITypeOK, Creating, Remembering, Free, MapInv
<1>2. APITypeOK'
  BY <1>1 DEF APITypeOK
<1>3. \A j \in RequestIds :
        /\ by_request'[j] = IF j = k THEN job ELSE by_request[j]
        /\ answered'[j] = IF j = k THEN answered[k] \union {job} ELSE answered[j]
  BY DEF APITypeOK
<1>4. \A q \in Requests : request'[q] = IF q = r THEN Free ELSE request[q]
  BY DEF APITypeOK
<1>5. MapInv'
  BY <1>1, <1>3, <1>4 DEF MapInv, MadeFor, Ids, Free
<1>6. RetriesCreateNothing'
  BY <1>1, <1>3, <1>4 DEF RetriesCreateNothing, MadeFor, Ids, Free
<1> QED BY <1>2, <1>5, <1>6

\* The workers only change the status of jobs.
LEMMA ProcessInv ==
    ASSUME JobAPIConstants, APIInv, NEW w \in Workers, Process(w)
    PROVE  APIInv'
<1>1. UNCHANGED <<key, by_request, request, answered>>
  BY DEF Process, Look, Pop, PopRaises, Finish
<1>2. jobs' \in Seq(Statuses) /\ Len(jobs') = Len(jobs)
  <2>1. jobs \in Seq(Statuses)
    BY DEF APIInv, APITypeOK
  <2>2. ASSUME NEW i, NEW s \in Statuses, jobs' = [jobs EXCEPT ![i] = s]
        PROVE  jobs' \in Seq(Statuses) /\ Len(jobs') = Len(jobs)
    <3>1. Len(jobs) \in Nat /\ jobs \in [1 .. Len(jobs) -> Statuses]
      BY <2>1
    <3>2. jobs' \in [1 .. Len(jobs) -> Statuses]
      BY <2>2, <3>1
    <3> QED BY <3>1, <3>2
  <2>3. CASE Look(w) \/ PopRaises(w)
    BY <2>1, <2>3 DEF Look, PopRaises
  <2>4. CASE Pop(w)
    BY <2>2, <2>4 DEF Pop, Statuses
  <2>5. CASE Finish(w)
    <3>1. PICK s \in {"success", "failed"} : jobs' = [jobs EXCEPT ![worker[w].job] = s]
      BY <2>5 DEF Finish
    <3> QED BY <3>1, <2>2 DEF Statuses
  <2> QED BY <2>3, <2>4, <2>5 DEF Process
<1>3. Ids' = Ids
  BY <1>2 DEF Ids
<1>4. APITypeOK'
  BY <1>1, <1>2 DEF APIInv, APITypeOK
<1>5. MapInv' /\ RetriesCreateNothing'
  BY <1>1, <1>3 DEF APIInv, MapInv, MadeFor, RetriesCreateNothing
<1> QED BY <1>4, <1>5 DEF APIInv

\* Every step keeps the invariant.
LEMMA APIStepInv == ASSUME JobAPIConstants, APIInv, [Next]_vars PROVE APIInv'
<1>1. CASE UNCHANGED vars
  BY <1>1 DEF vars, APIInv, APITypeOK, MapInv, MadeFor, Ids, RetriesCreateNothing
<1>2. CASE Next
  BY <1>2, SubmitKnownInv, SubmitNewInv, CreateInv, RememberInv, ProcessInv DEF Next
<1> QED BY <1>1, <1>2

\* A submit that begins after one of its request_id was answered creates
\* nothing, for all clients, workers and interleavings.
THEOREM RetriesAreHarmless ==
    ASSUME JobAPIConstants
    PROVE  Spec => []RetriesCreateNothing
<1>1. APIInv => RetriesCreateNothing
  BY DEF APIInv
<1> QED BY <1>1, APIInitInv, APIStepInv, PTL DEF Spec

-----------------------------------------------------------------------------
(* Each job is handled once *)

WorkerPlaces == {Idle} \union [pc : {"pop"}] \union [pc : {"run"}, job : Nat]

JobsTypeOK ==
    /\ jobs \in Seq(Statuses) /\ runs \in Seq(Nat) /\ Len(runs) = Len(jobs)
    /\ queue \in Seq(Nat)
    /\ worker \in [Workers -> WorkerPlaces]

\* The queue has the pending jobs, each of them once.
QueueInv ==
    /\ \A i \in 1 .. Len(queue) : queue[i] \in Ids /\ jobs[queue[i]] = "pending"
    /\ \A i, j \in 1 .. Len(queue) : queue[i] = queue[j] => i = j
    /\ \A job \in Ids : jobs[job] = "pending" => \E i \in 1 .. Len(queue) : queue[i] = job

\* The workers have the running jobs, each of them one.
Runs(w, job) == worker[w].pc = "run" /\ worker[w].job = job
RunInv ==
    /\ \A w \in Workers : worker[w].pc = "run" =>
          worker[w].job \in Ids /\ jobs[worker[w].job] = "running"
    /\ \A v, w \in Workers : worker[v].pc = "run" /\ Runs(w, worker[v].job) => v = w
    /\ \A job \in Ids : jobs[job] = "running" => \E w \in Workers : Runs(w, job)
    /\ \A job \in Ids : runs[job] = IF jobs[job] = "pending" THEN 0 ELSE 1

HandledInv == JobsTypeOK /\ QueueInv /\ RunInv

\* What is in one place, or in none, is counted as such.
LEMMA OneOrNone ==
    ASSUME NEW S, NEW one \in BOOLEAN,
           one => \E x \in S : TRUE,
           ~one => S = {},
           \A x, y \in S : x = y
    PROVE  Cardinality(S) = IF one THEN 1 ELSE 0
<1>1. CASE one
  <2>1. PICK x \in S : TRUE
    BY <1>1
  <2>2. S = {x}
    BY <2>1
  <2> QED BY <1>1, <2>2, FS_Singleton
<1>2. CASE ~one
  BY <1>2, FS_EmptySet
<1> QED BY <1>1, <1>2

\* One place for each job is what the property counts.
LEMMA PlacesCount == HandledInv => JobsAreHandledOnce
<1> SUFFICES ASSUME HandledInv, NEW job \in Ids
             PROVE  /\ Cardinality(Waiting(job)) = IF jobs[job] = "pending" THEN 1 ELSE 0
                    /\ Cardinality(Running(job)) = IF jobs[job] = "running" THEN 1 ELSE 0
                    /\ runs[job] = IF jobs[job] = "pending" THEN 0 ELSE 1
  BY DEF JobsAreHandledOnce
<1>1. Cardinality(Waiting(job)) = IF jobs[job] = "pending" THEN 1 ELSE 0
  <2> DEFINE one == jobs[job] = "pending"
  <2>1. \A i, j \in Waiting(job) : i = j
    BY DEF Waiting, HandledInv, QueueInv
  <2>2. one => \E i \in Waiting(job) : TRUE
    BY DEF Waiting, HandledInv, QueueInv
  <2>3. ~one => Waiting(job) = {}
    BY DEF Waiting, HandledInv, QueueInv
  <2>4. one \in BOOLEAN
    OBVIOUS
  <2> HIDE DEF one
  <2>5. Cardinality(Waiting(job)) = IF one THEN 1 ELSE 0
    BY <2>1, <2>2, <2>3, <2>4, OneOrNone
  <2> QED BY <2>5 DEF one
<1>2. Cardinality(Running(job)) = IF jobs[job] = "running" THEN 1 ELSE 0
  <2> DEFINE one == jobs[job] = "running"
  <2>1. \A i, j \in Running(job) : i = j
    BY DEF Running, Runs, HandledInv, RunInv
  <2>2. one => \E i \in Running(job) : TRUE
    BY DEF Running, Runs, HandledInv, RunInv
  <2>3. ~one => Running(job) = {}
    BY DEF Running, HandledInv, RunInv
  <2>4. one \in BOOLEAN
    OBVIOUS
  <2> HIDE DEF one
  <2>5. Cardinality(Running(job)) = IF one THEN 1 ELSE 0
    BY <2>1, <2>2, <2>3, <2>4, OneOrNone
  <2> QED BY <2>5 DEF one
<1> QED BY <1>1, <1>2 DEF HandledInv, RunInv

\* At the start there is no job.
LEMMA HandledInitInv == Init => HandledInv
<1> SUFFICES ASSUME Init PROVE HandledInv
  OBVIOUS
<1>1. Ids = {} /\ Len(queue) = 0
  BY DEF Init, Ids
<1>2. \A w \in Workers : worker[w].pc = "idle"
  BY DEF Init, Idle
<1>3. JobsTypeOK
  BY DEF Init, JobsTypeOK, WorkerPlaces
<1> QED BY <1>1, <1>2, <1>3 DEF HandledInv, QueueInv, RunInv

\* A new job is pending and last on the queue.
LEMMA CreateHandled == ASSUME HandledInv, NEW r \in Requests, Create(r) PROVE HandledInv'
<1> DEFINE n == Len(jobs) + 1
<1>1. /\ jobs' = Append(jobs, "pending") /\ runs' = Append(runs, 0)
      /\ queue' = Append(queue, n) /\ UNCHANGED worker
  <2>1. Len(Append(jobs, "pending")) = n
    BY DEF HandledInv, JobsTypeOK
  <2> QED BY <2>1 DEF Create
<1>2. /\ jobs \in Seq(Statuses) /\ runs \in Seq(Nat) /\ Len(runs) = Len(jobs)
      /\ queue \in Seq(Nat)
  BY DEF HandledInv, JobsTypeOK
<1>3. JobsTypeOK'
  BY <1>1, <1>2 DEF HandledInv, JobsTypeOK, Statuses
<1>4. /\ n \in Ids' /\ n \notin Ids /\ jobs'[n] = "pending" /\ runs'[n] = 0
      /\ \A job \in Ids' : job # n => job \in Ids
      /\ \A job \in Ids : job \in Ids' /\ jobs'[job] = jobs[job] /\ runs'[job] = runs[job]
  BY <1>1, <1>2 DEF Ids
<1>5. /\ Len(queue') = Len(queue) + 1 /\ queue'[Len(queue) + 1] = n
      /\ \A i \in 1 .. Len(queue) : queue'[i] = queue[i]
  BY <1>1, <1>2
<1>6. Len(queue) \in Nat
  BY <1>2
<1>7. QueueInv'
  <2>1. \A i \in 1 .. Len(queue') : i = Len(queue) + 1 \/ i \in 1 .. Len(queue)
    BY <1>5, <1>6
  <2>2. \A i \in 1 .. Len(queue') : queue'[i] \in Ids' /\ jobs'[queue'[i]] = "pending"
    BY <2>1, <1>4, <1>5 DEF HandledInv, QueueInv
  <2>3. \A i, j \in 1 .. Len(queue') : queue'[i] = queue'[j] => i = j
    BY <2>1, <1>4, <1>5 DEF HandledInv, QueueInv
  <2>4. \A i \in 1 .. Len(queue) : i \in 1 .. Len(queue')
    BY <1>5, <1>6
  <2>5. Len(queue) + 1 \in 1 .. Len(queue')
    BY <1>5, <1>6
  <2>6. \A job \in Ids' : jobs'[job] = "pending" => \E i \in 1 .. Len(queue') : queue'[i] = job
    BY <2>4, <2>5, <1>4, <1>5 DEF HandledInv, QueueInv
  <2> QED BY <2>2, <2>3, <2>6 DEF QueueInv
<1>8. RunInv'
  <2>1. \A w \in Workers : worker'[w].pc = "run" =>
           worker'[w].job \in Ids' /\ jobs'[worker'[w].job] = "running"
    BY <1>1, <1>4 DEF HandledInv, RunInv
  <2>2. \A v, w \in Workers : worker'[v].pc = "run" /\ Runs(w, worker[v].job)' => v = w
    BY <1>1 DEF HandledInv, RunInv, Runs
  <2>3. ASSUME NEW job \in Ids', jobs'[job] = "running" PROVE \E w \in Workers : Runs(w, job)'
    <3>1. job \in Ids /\ jobs[job] = "running"
      BY <2>3, <1>4
    <3> QED BY <3>1, <1>1 DEF HandledInv, RunInv, Runs
  <2>4. \A job \in Ids' : runs'[job] = IF jobs'[job] = "pending" THEN 0 ELSE 1
    BY <1>4 DEF HandledInv, RunInv
  <2> QED BY <2>1, <2>2, <2>3, <2>4, <1>1 DEF RunInv
<1> QED BY <1>3, <1>7, <1>8 DEF HandledInv

\* A worker that looks, or raises, moves no job.
LEMMA LookHandled ==
    ASSUME HandledInv, NEW w \in Workers, Look(w) \/ PopRaises(w) PROVE HandledInv'
<1>1. UNCHANGED <<jobs, queue, runs>> /\ Ids' = Ids
  BY DEF Look, PopRaises, Ids
<1>2. /\ worker[w].pc # "run" /\ worker'[w].pc # "run"
      /\ worker' \in [Workers -> WorkerPlaces]
      /\ \A v \in Workers : v # w => worker'[v] = worker[v]
  <2>1. PICK place \in {Idle, [pc |-> "pop"]} : worker' = [worker EXCEPT ![w] = place]
    BY DEF Look, PopRaises
  <2>2. place \in WorkerPlaces /\ place.pc # "run"
    BY DEF WorkerPlaces, Idle
  <2>3. worker[w].pc # "run"
    BY DEF Look, PopRaises, Idle
  <2> QED BY <2>1, <2>2, <2>3 DEF HandledInv, JobsTypeOK
<1>3. JobsTypeOK' /\ QueueInv'
  BY <1>1, <1>2 DEF HandledInv, JobsTypeOK, QueueInv
<1>4. RunInv'
  BY <1>1, <1>2 DEF HandledInv, RunInv, Runs
<1> QED BY <1>3, <1>4 DEF HandledInv

\* What is left when the head of a sequence is taken.
LEMMA BehindTheHead ==
    ASSUME NEW S, NEW s \in Seq(S), s # <<>>
    PROVE  /\ Head(s) = s[1] /\ Head(s) \in S /\ Len(s) \in Nat /\ Len(s) >= 1
           /\ Tail(s) \in Seq(S) /\ Len(Tail(s)) = Len(s) - 1
           /\ \A i \in 1 .. Len(s) - 1 : Tail(s)[i] = s[i + 1]
  OBVIOUS

\* The head of the queue is the job of one worker now, and of the queue no more.
LEMMA PopHandled == ASSUME HandledInv, NEW w \in Workers, Pop(w) PROVE HandledInv'
<1>1. PICK job : job = Head(queue)
  OBVIOUS
<1>2. /\ worker[w].pc = "pop" /\ worker' = [worker EXCEPT ![w] = [pc |-> "run", job |-> job]]
      /\ jobs' = [jobs EXCEPT ![job] = "running"] /\ runs' = [runs EXCEPT ![job] = @ + 1]
      /\ queue' = Tail(queue) /\ queue # <<>>
  BY <1>1 DEF Pop
<1>3. /\ jobs \in Seq(Statuses) /\ runs \in Seq(Nat) /\ Len(runs) = Len(jobs)
      /\ queue \in Seq(Nat) /\ worker \in [Workers -> WorkerPlaces]
  BY DEF HandledInv, JobsTypeOK
<1>4. /\ job = queue[1] /\ job \in Nat /\ Len(queue) \in Nat /\ Len(queue) >= 1
      /\ queue' \in Seq(Nat) /\ Len(queue') = Len(queue) - 1
      /\ \A i \in 1 .. Len(queue) - 1 : queue'[i] = queue[i + 1]
  BY <1>1, <1>2, <1>3, BehindTheHead
<1>5. job \in Ids /\ jobs[job] = "pending"
  BY <1>4 DEF HandledInv, QueueInv
<1>6. /\ jobs' \in Seq(Statuses) /\ Len(jobs') = Len(jobs)
      /\ runs' \in Seq(Nat) /\ Len(runs') = Len(runs)
      /\ jobs'[job] = "running" /\ runs'[job] = runs[job] + 1
      /\ \A i \in Ids : i # job => jobs'[i] = jobs[i] /\ runs'[i] = runs[i]
  BY <1>2, <1>3, <1>5 DEF Statuses, Ids
<1>7. Ids' = Ids
  BY <1>6 DEF Ids
<1>8. /\ worker'[w].pc = "run" /\ worker'[w].job = job
      /\ \A v \in Workers : v # w => worker'[v] = worker[v]
      /\ worker' \in [Workers -> WorkerPlaces]
  BY <1>2, <1>3, <1>4 DEF WorkerPlaces
<1>9. JobsTypeOK'
  BY <1>3, <1>4, <1>6, <1>8 DEF JobsTypeOK
<1>10. QueueInv'
  <2>1. \A i \in 1 .. Len(queue') :
           i + 1 \in 1 .. Len(queue) /\ queue'[i] = queue[i + 1] /\ i + 1 # 1
    BY <1>4
  <2>2. \A i \in 1 .. Len(queue') :
           queue'[i] \in Ids /\ jobs[queue'[i]] = "pending" /\ queue'[i] # job
    BY <2>1, <1>4 DEF HandledInv, QueueInv
  <2>3. \A i, j \in 1 .. Len(queue') : queue'[i] = queue'[j] => i + 1 = j + 1
    BY <2>1 DEF HandledInv, QueueInv
  <2>4. ASSUME NEW k \in Ids, jobs'[k] = "pending"
        PROVE  \E i \in 1 .. Len(queue') : queue'[i] = k
    <3>1. k # job /\ jobs[k] = "pending"
      BY <2>4, <1>6
    <3>2. PICK i \in 1 .. Len(queue) : queue[i] = k
      BY <3>1 DEF HandledInv, QueueInv
    <3>3. i - 1 \in 1 .. Len(queue') /\ queue'[i - 1] = k
      BY <3>1, <3>2, <1>4
    <3> QED BY <3>3
  <2>5. \A i, j \in 1 .. Len(queue') : queue'[i] = queue'[j] => i = j
    BY <2>3
  <2> QED BY <2>2, <2>4, <2>5, <1>6, <1>7 DEF QueueInv
<1>11. RunInv'
  <2>1. ASSUME NEW v \in Workers, v # w, worker'[v].pc = "run"
        PROVE  worker[v].job # job /\ worker'[v].job \in Ids /\ jobs'[worker'[v].job] = "running"
    BY <2>1, <1>5, <1>6, <1>8 DEF HandledInv, RunInv
  <2>2. \A v \in Workers : worker'[v].pc = "run" =>
           worker'[v].job \in Ids' /\ jobs'[worker'[v].job] = "running"
    BY <2>1, <1>5, <1>6, <1>7, <1>8
  <2>3. \A v, u \in Workers : worker'[v].pc = "run" /\ Runs(u, worker[v].job)' => v = u
    BY <2>1, <1>8 DEF HandledInv, RunInv, Runs
  <2>4. \A k \in Ids' : jobs'[k] = "running" => \E v \in Workers : Runs(v, k)'
    BY <1>2, <1>6, <1>7, <1>8 DEF HandledInv, RunInv, Runs
  <2>5. \A k \in Ids' : runs'[k] = IF jobs'[k] = "pending" THEN 0 ELSE 1
    BY <1>5, <1>6, <1>7 DEF HandledInv, RunInv
  <2> QED BY <2>2, <2>3, <2>4, <2>5 DEF RunInv
<1> QED BY <1>9, <1>10, <1>11 DEF HandledInv

\* A job that ends is nowhere any more.
LEMMA FinishHandled == ASSUME HandledInv, NEW w \in Workers, Finish(w) PROVE HandledInv'
<1>1. PICK status \in {"success", "failed"} : jobs' = [jobs EXCEPT ![worker[w].job] = status]
  BY DEF Finish
<1>2. PICK job : job = worker[w].job
  OBVIOUS
<1>3. /\ worker[w].pc = "run" /\ worker' = [worker EXCEPT ![w] = Idle]
      /\ jobs' = [jobs EXCEPT ![job] = status] /\ UNCHANGED <<queue, runs>>
  BY <1>1, <1>2 DEF Finish
<1>4. jobs \in Seq(Statuses) /\ worker \in [Workers -> WorkerPlaces]
  BY DEF HandledInv, JobsTypeOK
<1>5. job \in Ids /\ jobs[job] = "running"
  BY <1>2, <1>3 DEF HandledInv, RunInv
<1>6. /\ jobs' \in Seq(Statuses) /\ Len(jobs') = Len(jobs)
      /\ jobs'[job] \in {"success", "failed"}
      /\ \A i \in Ids : i # job => jobs'[i] = jobs[i]
  BY <1>3, <1>4, <1>5 DEF Statuses, Ids
<1>7. Ids' = Ids
  BY <1>6 DEF Ids
<1>8. /\ worker'[w].pc = "idle" /\ worker' \in [Workers -> WorkerPlaces]
      /\ \A v \in Workers : v # w => worker'[v] = worker[v]
  BY <1>3, <1>4 DEF WorkerPlaces, Idle
<1>9. JobsTypeOK'
  BY <1>3, <1>6, <1>8 DEF HandledInv, JobsTypeOK
<1>10. QueueInv'
  BY <1>3, <1>5, <1>6, <1>7 DEF HandledInv, QueueInv
<1>11. RunInv'
  <2>1. ASSUME NEW v \in Workers, worker'[v].pc = "run"
        PROVE  v # w /\ worker'[v] = worker[v] /\ worker[v].job # job
    BY <2>1, <1>2, <1>3, <1>8 DEF HandledInv, RunInv, Runs
  <2>2. \A v \in Workers : worker'[v].pc = "run" =>
           worker'[v].job \in Ids' /\ jobs'[worker'[v].job] = "running"
    BY <2>1, <1>6, <1>7 DEF HandledInv, RunInv
  <2>3. \A v, u \in Workers : worker'[v].pc = "run" /\ Runs(u, worker[v].job)' => v = u
    BY <2>1 DEF HandledInv, RunInv, Runs
  <2>4. ASSUME NEW k \in Ids, jobs'[k] = "running" PROVE \E v \in Workers : Runs(v, k)'
    <3>1. k # job /\ jobs[k] = "running"
      BY <2>4, <1>6
    <3>2. PICK v \in Workers : Runs(v, k)
      BY <3>1 DEF HandledInv, RunInv
    <3>3. v # w
      BY <3>1, <3>2, <1>2 DEF Runs
    <3> QED BY <3>2, <3>3, <1>8 DEF Runs
  <2>5. \A k \in Ids : runs'[k] = IF jobs'[k] = "pending" THEN 0 ELSE 1
    BY <1>3, <1>5, <1>6 DEF HandledInv, RunInv
  <2> QED BY <2>2, <2>3, <2>4, <2>5, <1>7 DEF RunInv
<1> QED BY <1>9, <1>10, <1>11 DEF HandledInv

\* Every step keeps each job in one place.
LEMMA HandledStepInv == ASSUME HandledInv, [Next]_vars PROVE HandledInv'
<1>1. CASE UNCHANGED vars \/ \E r \in Requests, k \in RequestIds : SubmitKnown(r, k) \/ SubmitNew(r, k)
  <2>1. UNCHANGED <<jobs, queue, runs, worker>>
    BY <1>1 DEF vars, SubmitKnown, SubmitNew
  <2> QED BY <2>1 DEF HandledInv, JobsTypeOK, QueueInv, RunInv, Runs, Ids
<1>2. CASE \E r \in Requests : Remember(r)
  <2>1. UNCHANGED <<jobs, queue, runs, worker>>
    BY <1>2 DEF Remember
  <2> QED BY <2>1 DEF HandledInv, JobsTypeOK, QueueInv, RunInv, Runs, Ids
<1>3. CASE \E r \in Requests : Create(r)
  BY <1>3, CreateHandled
<1>4. CASE \E w \in Workers : Process(w)
  BY <1>4, LookHandled, PopHandled, FinishHandled DEF Process
<1> QED BY <1>1, <1>2, <1>3, <1>4 DEF Next

\* Without a lock each job is in one place and its handler is called once, for
\* all workers and clients: the interpreter makes the pop one step.
THEOREM EachJobOnce == Spec => []JobsAreHandledOnce
BY HandledInitInv, HandledStepInv, PlacesCount, PTL DEF Spec
=============================================================================
