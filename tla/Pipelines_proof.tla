--------------------------- MODULE Pipelines_proof ---------------------------
(***************************************************************************)
(* The queues and logs of MCPipelines, for every value of their constants, *)
(* one after the other, and in the end all of them together.               *)
(*                                                                         *)
(* Bounded retries and distinct claims, for any number of workers and jobs *)
(* and any lease.  attempts only grows in a claim, and a claim finds the   *)
(* row pending; so the cap is kept because nothing, not even an answer     *)
(* that comes after the lease, makes a row pending that has no try left.   *)
(***************************************************************************)
EXTENDS MCPipelines, FiniteSetTheorems, TLAPS

(* Whichever a program constructs, the others rest *)

\* Each step is one of the constructed part, or moves nothing of it.
LEMMA PipelinesTakeSteps ==
    /\ PipelinesInit =>
          Init /\ LogInit /\ Buffer!Init /\ Table!DBInit /\ Batched!Init /\ API!Init
    /\ [PipelinesNext]_all =>
          /\ [Next]_vars /\ [LogNext]_logvars /\ [Buffer!Next]_(Buffer!vars)
          /\ [Table!DBNext]_(Table!dbvars) /\ [Batched!Next]_(Batched!vars)
          /\ [API!Next]_(API!vars)
<1>1. PipelinesInit =>
          Init /\ LogInit /\ Buffer!Init /\ Table!DBInit /\ Batched!Init /\ API!Init
  BY DEF PipelinesInit
<1>2. UNCHANGED all => UNCHANGED <<vars, logvars, buffer_vars, table_vars, batched_vars, api_vars>>
  BY DEF all
<1>3. /\ Buffer!vars = buffer_vars /\ Table!dbvars = table_vars
      /\ Batched!vars = batched_vars /\ API!vars = api_vars
      /\ Buffer!vars' = buffer_vars' /\ Table!dbvars' = table_vars'
      /\ Batched!vars' = batched_vars' /\ API!vars' = api_vars'
  BY DEF Buffer!vars, Table!dbvars, Batched!vars, API!vars, buffer_vars, table_vars,
     batched_vars, api_vars
<1>4. ASSUME PipelinesNext
      PROVE  /\ [Next]_vars /\ [LogNext]_logvars /\ [Buffer!Next]_buffer_vars
             /\ [Table!DBNext]_table_vars /\ [Batched!Next]_batched_vars
             /\ [API!Next]_api_vars
  BY <1>4 DEF PipelinesNext, OthersRest, BufferStep, TableStep, LeasedStep, BatchedStep,
     GroupCommitStep, APIStep
<1> QED BY <1>1, <1>2, <1>3, <1>4

-----------------------------------------------------------------------------
(* The leased table *)

IInv == TypeOK /\ AttemptsBounded /\ ClaimsAreDistinct /\ ProcessingHasLease

\* A row stays a row when its status or its attempts change.
LEMMA Rows ==
    ASSUME NEW r \in Job, NEW s \in Status, NEW n \in Nat
    PROVE  /\ [r EXCEPT !.status = s] \in Job
           /\ [r EXCEPT !.status = s].status = s
           /\ [r EXCEPT !.status = s].attempts = r.attempts
           /\ [status |-> s, attempts |-> n] \in Job
BY DEF Job

\* What _requeue_or_fail does to the rows and their claims.
LEMMA Requeued ==
    ASSUME IInv, NEW J \in SUBSET Ids, RequeueOrFail(J), UNCHANGED next_id
    PROVE  /\ jobs' \in [Ids -> Job] /\ age' \in [Ids -> Unclaimed .. LeaseSeconds]
           /\ \A j \in Ids :
                /\ jobs'[j].attempts = jobs[j].attempts
                /\ jobs'[j].status = "pending" => jobs[j].attempts < MaxAttempts
                /\ j \notin J => jobs'[j] = jobs[j] /\ age'[j] = age[j]
                /\ j \in J => jobs'[j].status # "processing"
<1> USE DEF IInv, TypeOK, RequeueOrFail, RetriesLeft, Unclaimed
<1>1. jobs' \in [Ids -> Job]
  BY Rows DEF Status
<1>2. age' \in [Ids -> Unclaimed .. LeaseSeconds]
  BY LeasedQueueAssumption
<1>3. \A j \in Ids : j \in J =>
        jobs'[j] = [jobs[j] EXCEPT !.status = IF jobs[j].attempts < MaxAttempts
                                             THEN "pending" ELSE "failed"]
  OBVIOUS
<1>4. \A j \in Ids : j \notin J => jobs'[j] = jobs[j] /\ age'[j] = age[j]
  OBVIOUS
<1>5. ASSUME NEW j \in Ids, j \in J
      PROVE  /\ jobs'[j].attempts = jobs[j].attempts
             /\ jobs'[j].status = "pending" => jobs[j].attempts < MaxAttempts
             /\ jobs'[j].status # "processing"
  BY <1>3, <1>5 DEF Job
<1> QED BY <1>1, <1>2, <1>4, <1>5 DEF AttemptsBounded

\* Initially there is no row and no claim.
LEMMA InitIInv == Init => IInv
BY DBBackedQueueAssumption, LeasedQueueAssumption
   DEF Init, DBInit, IInv, TypeOK, AttemptsBounded, ClaimsAreDistinct, ProcessingHasLease, Ids

\* A new row is pending, unattempted and claimed by nobody.
LEMMA SubmitIInv == ASSUME IInv, LeasedSubmit PROVE IInv'
<1> USE DEF LeasedSubmit, Submit, IInv, TypeOK, Unclaimed
<1>1. Ids' = Ids \union {next_id} /\ next_id \notin Ids /\ next_id' \in 0 .. MaxJobs
  BY DBBackedQueueAssumption DEF Ids
<1>2. /\ jobs'[next_id].status = "pending" /\ jobs'[next_id].attempts = 0
      /\ age'[next_id] = Unclaimed
  BY DBBackedQueueAssumption
<1>3. \A j \in Ids : jobs'[j] = jobs[j] /\ age'[j] = age[j]
  BY DBBackedQueueAssumption DEF Ids
<1>4. jobs' \in [Ids' -> Job] /\ age' \in [Ids' -> Unclaimed .. LeaseSeconds]
  <2>1. [status |-> "pending", attempts |-> 0] \in Job
    BY DEF Job, Status
  <2>2. 0 .. next_id = Ids'
    BY DBBackedQueueAssumption DEF Ids
  <2> QED BY <2>1, <2>2, LeasedQueueAssumption, DBBackedQueueAssumption DEF Ids
<1> HIDE DEF LeasedSubmit, Submit
<1>5. AttemptsBounded'
  BY <1>1, <1>2, <1>3, LeasedQueueAssumption DEF AttemptsBounded
<1>6. ClaimsAreDistinct'
  <2>1. held' = held
    BY DEF LeasedSubmit, Submit
  <2> QED BY <1>1, <1>3, <2>1 DEF ClaimsAreDistinct
<1>7. ProcessingHasLease'
  BY <1>1, <1>2, <1>3 DEF ProcessingHasLease
<1>8. held' = held
  BY DEF LeasedSubmit, Submit
<1> QED BY <1>1, <1>4, <1>5, <1>6, <1>7, <1>8

\* A claim counts an attempt that nobody else holds.
LEMMA ClaimIInv == ASSUME IInv, NEW w \in Workers, LeasedClaim(w) PROVE IInv'
<1> USE DEF LeasedClaim, Claim, IInv, TypeOK, Unclaimed
<1>1. PICK j \in Ids :
        /\ FirstPending(j)
        /\ jobs' = [jobs EXCEPT ![j] = [status |-> "processing", attempts |-> @.attempts + 1]]
        /\ held' = [held EXCEPT ![w] = <<j, jobs'[j].attempts>>]
  OBVIOUS
<1>2. Ids' = Ids /\ j \in Nat
  BY DEF Ids
<1>3. jobs[j].attempts \in Nat /\ jobs[j].attempts < MaxAttempts
  BY <1>1 DEF FirstPending, Pending, AttemptsBounded, Job
<1>4. /\ jobs'[j] = [status |-> "processing", attempts |-> jobs[j].attempts + 1]
      /\ \A i \in Ids : i # j => jobs'[i] = jobs[i]
      /\ jobs' \in [Ids -> Job]
  BY <1>1, <1>3 DEF Job, Status
<1>5. age' = [age EXCEPT ![held'[w][1]] = 0] /\ UNCHANGED next_id
  OBVIOUS
<1> HIDE DEF LeasedClaim, Claim
<1>6. /\ held' = [held EXCEPT ![w] = <<j, jobs[j].attempts + 1>>]
      /\ held'[w] = <<j, jobs[j].attempts + 1>>
      /\ held' \in [Workers -> {None} \union (Nat \X Nat)]
  <2>1. jobs'[j].attempts = jobs[j].attempts + 1
    BY <1>4
  <2>2. <<j, jobs[j].attempts + 1>> \in Nat \X Nat
    BY <1>2, <1>3
  <2> QED BY <1>1, <2>1, <2>2
<1>10. age' = [age EXCEPT ![j] = 0] /\ age' \in [Ids -> Unclaimed .. LeaseSeconds]
  <2>1. held'[w][1] = j
    BY <1>6
  <2>2. 0 \in Unclaimed .. LeaseSeconds
    BY LeasedQueueAssumption
  <2> QED BY <1>5, <2>1, <2>2
<1>7. AttemptsBounded'
  BY <1>2, <1>3, <1>4, LeasedQueueAssumption DEF AttemptsBounded
<1>8. ClaimsAreDistinct'
  BY <1>2, <1>3, <1>4, <1>6 DEF ClaimsAreDistinct, Job
<1>9. ProcessingHasLease'
  BY <1>2, <1>4, <1>10 DEF ProcessingHasLease
<1> QED BY <1>2, <1>4, <1>5, <1>6, <1>7, <1>8, <1>9, <1>10

\* An answer, early or late, changes no count of attempts.
LEMMA AnswerIInv == ASSUME IInv, NEW w \in Workers, Answer(w) PROVE IInv'
<1> USE DEF IInv
<1>1. /\ held[w] # None /\ held' = [held EXCEPT ![w] = None] /\ UNCHANGED next_id
      /\ Ids' = Ids /\ held[w][1] \in Ids
      /\ held' \in [Workers -> {None} \union (Nat \X Nat)]
  BY DEF Answer, LeasedComplete, LeasedFail, LeasedDie, Complete, Die, Ids, TypeOK,
         ClaimsAreDistinct
<1>2. ASSUME \A j \in Ids : jobs'[j].attempts = jobs[j].attempts PROVE ClaimsAreDistinct'
  BY <1>1, <1>2 DEF ClaimsAreDistinct, TypeOK
<1>3. CASE LeasedFail(w)
  <2>1. RequeueOrFail({held[w][1]})
    BY <1>3 DEF LeasedFail
  <2>2. {held[w][1]} \in SUBSET Ids
    BY <1>1
  <2> QED BY <1>1, <1>2, <2>1, <2>2, Requeued
          DEF TypeOK, AttemptsBounded, ProcessingHasLease
<1>4. CASE LeasedComplete(w)
  <2>1. /\ jobs' = [jobs EXCEPT ![held[w][1]] = [@ EXCEPT !.status = "success"]]
        /\ age' = age
    BY <1>4 DEF LeasedComplete, Complete
  <2>2. \A j \in Ids : jobs[j] \in Job
    BY DEF TypeOK
  <2>3. \A j \in Ids :
          /\ jobs'[j] = IF j = held[w][1] THEN [jobs[j] EXCEPT !.status = "success"] ELSE jobs[j]
          /\ jobs'[j] \in Job
    BY <1>1, <2>1, <2>2, Rows DEF TypeOK, Status
  <2>4. \A j \in Ids : /\ jobs'[j].attempts = jobs[j].attempts
                       /\ jobs'[j].status \in {jobs[j].status, "success"}
    <3> SUFFICES ASSUME NEW j \in Ids
                 PROVE  /\ jobs'[j].attempts = jobs[j].attempts
                        /\ jobs'[j].status \in {jobs[j].status, "success"}
      OBVIOUS
    <3>1. CASE j = held[w][1]
      <4>1. jobs'[j] = [jobs[j] EXCEPT !.status = "success"] /\ jobs[j] \in Job
        BY <2>2, <2>3, <3>1
      <4> QED BY <4>1 DEF Job
    <3>2. CASE j # held[w][1]
      BY <2>3, <3>2
    <3> QED BY <3>1, <3>2
  <2>5. jobs' \in [Ids -> Job]
    <3>1. jobs' = [j \in Ids |-> jobs'[j]]
      BY <1>1, <2>1 DEF TypeOK
    <3> QED BY <2>3, <3>1
  <2> QED BY <1>1, <1>2, <2>1, <2>4, <2>5 DEF TypeOK, AttemptsBounded, ProcessingHasLease
<1>5. CASE LeasedDie(w)
  <2>1. UNCHANGED <<jobs, age>>
    BY <1>5 DEF LeasedDie, Die
  <2> QED BY <1>1, <1>2, <2>1 DEF TypeOK, AttemptsBounded, ProcessingHasLease
<1> QED BY <1>3, <1>4, <1>5 DEF Answer

\* The monitor requeues rows with tries left and parks the others.
LEMMA SweepIInv == ASSUME IInv, SweepStuck PROVE IInv'
<1>1. Expired \in SUBSET Ids /\ RequeueOrFail(Expired) /\ UNCHANGED <<next_id, held>>
  BY DEF SweepStuck, Expired
<1>2. Ids' = Ids
  BY <1>1 DEF Ids
<1> QED BY <1>1, <1>2, Requeued
        DEF IInv, TypeOK, AttemptsBounded, ClaimsAreDistinct, ProcessingHasLease

\* The clock ages claims and nothing else.
LEMMA TickIInv == ASSUME IInv, Tick PROVE IInv'
<1>1. UNCHANGED <<jobs, next_id, held>> /\ Ids' = Ids
  BY DEF Tick, dbvars, Ids
<1>2. age' \in [Ids -> Unclaimed .. LeaseSeconds]
      /\ \A j \in Ids : age[j] # Unclaimed => age'[j] # Unclaimed
  BY LeasedQueueAssumption DEF Tick, IInv, TypeOK, Unclaimed
<1> QED BY <1>1, <1>2
        DEF IInv, TypeOK, AttemptsBounded, ClaimsAreDistinct, ProcessingHasLease

\* Every step keeps the invariant.
LEMMA StepIInv == ASSUME IInv, [Next]_vars PROVE IInv'
<1>1. CASE UNCHANGED vars
  BY <1>1 DEF vars, dbvars, IInv, TypeOK, AttemptsBounded, ClaimsAreDistinct,
              ProcessingHasLease, Ids
<1> QED BY <1>1, SubmitIInv, ClaimIInv, AnswerIInv, SweepIInv, TickIInv DEF Next

\* The invariant holds in every behaviour, of the leased table by itself and
\* of what MCPipelines runs.
THEOREM Invariance == (Spec => []IInv) /\ (PipelinesSpec => []IInv)
BY InitIInv, StepIInv, PipelinesTakeSteps, PTL DEF Spec, PipelinesSpec

\* Every variable keeps its type.
THEOREM TypeCorrect == (Spec => []TypeOK) /\ (PipelinesSpec => []TypeOK)
BY Invariance, PTL DEF IInv

\* No job is ever attempted more than max_attempts times (_requeue_or_fail).
THEOREM RetriesAreBounded == (Spec => []AttemptsBounded) /\ (PipelinesSpec => []AttemptsBounded)
BY Invariance, PTL DEF IInv

\* No two workers ever hold the same attempt of a job (claim's lock).
THEOREM ClaimIsAtomic == (Spec => []ClaimsAreDistinct) /\ (PipelinesSpec => []ClaimsAreDistinct)
BY Invariance, PTL DEF IInv

\* The monitor takes back only what was claimed a full lease ago
\* (sweep_stuck).
THEOREM MonitorRespectsLease == (Spec => SweepRespectsLease) /\ (PipelinesSpec => SweepRespectsLease)
<1> DEFINE Keeps ==
      \A j \in Ids :
         jobs[j].status = "processing" /\ jobs'[j].status # "processing" /\ held' = held
           => age[j] >= LeaseSeconds
<1>1. IInv /\ [Next]_vars => [Keeps]_vars
  <2> SUFFICES ASSUME IInv, Next, NEW j \in Ids, jobs[j].status = "processing",
                      jobs'[j].status # "processing", held' = held
               PROVE  age[j] >= LeaseSeconds
    OBVIOUS
  <2>1. \A w \in Workers : ~LeasedClaim(w) /\ ~Answer(w)
    BY DEF IInv, TypeOK, LeasedClaim, Claim, Answer, LeasedComplete, LeasedFail, LeasedDie,
           Complete, Die, ClaimsAreDistinct
  <2>2. CASE LeasedSubmit
    BY <2>2, DBBackedQueueAssumption DEF LeasedSubmit, Submit, IInv, TypeOK, Ids
  <2>3. CASE Tick
    BY <2>3 DEF Tick, dbvars
  <2>4. CASE SweepStuck
    <3>1. j \in Expired
      BY <2>4 DEF SweepStuck, RequeueOrFail
    <3> QED BY <3>1 DEF Expired
  <2> QED BY <2>1, <2>2, <2>3, <2>4 DEF Next
<1> QED BY <1>1, Invariance, PipelinesTakeSteps, PTL
        DEF Spec, PipelinesSpec, SweepRespectsLease
-----------------------------------------------------------------------------
(* The group commit: the watermark is the log sequence number *)

\* Number n is the n-th record of the log, and of no other; what gathers
\* continues the numbers until the sink fails.
DurablePart ==
    /\ durable_upto = durable_seq
    /\ \A i \in 1 .. durable_seq : seq[records[i]] = i - 1
    /\ \A a \in Appenders : seq[a] \in 0 .. durable_seq - 1 => records[seq[a] + 1] = a
    /\ \A a \in returned : seq[a] \in 0 .. durable_seq - 1

GatheringPart ==
    flusher # "raised" =>
        /\ Len(records) = durable_seq
        /\ Len(buffer) = next_seq - durable_seq
        /\ \A i \in 1 .. Len(buffer) : seq[buffer[i]] = durable_seq + i - 1
        /\ \A a \in Appenders :
              seq[a] >= durable_seq => buffer[seq[a] - durable_seq + 1] = a

LogInv == LogTypeOK /\ DurablePart /\ GatheringPart

\* At the start nothing has a number.
LEMMA LogInitInv == LogInit => LogInv
<1> SUFFICES ASSUME LogInit PROVE LogInv
  OBVIOUS
<1>1. LogTypeOK
  <2>1. buffer \in Seq(Appenders) /\ records \in Seq(Appenders) /\ Len(records) = 0
    BY DEF LogInit
  <2>2. seq \in [Appenders -> -1 .. next_seq - 1]
    BY DEF LogInit
  <2>3. durable_seq \in 0 .. next_seq /\ durable_upto \in 0 .. Len(records) /\ next_seq \in Nat
    BY <2>1 DEF LogInit
  <2> QED BY <2>1, <2>2, <2>3 DEF LogInit, LogTypeOK
<1>2. DurablePart
  BY DEF LogInit, DurablePart
<1>3. GatheringPart
  BY DEF LogInit, GatheringPart
<1> QED BY <1>1, <1>2, <1>3 DEF LogInv

\* What one sequence written behind another reads.
LEMMA Behind ==
    ASSUME NEW S, NEW s \in Seq(S), NEW t \in Seq(S)
    PROVE  /\ s \o t \in Seq(S) /\ Len(s \o t) = Len(s) + Len(t)
           /\ \A i \in 1 .. Len(s) : (s \o t)[i] = s[i]
           /\ \A i \in 1 .. Len(t) : (s \o t)[Len(s) + i] = t[i]
  OBVIOUS

\* An event that is not durable is in the group, where its number says.
LEMMA PlaceInGroup ==
    ASSUME LogInv, flusher # "raised", NEW a \in Appenders, seq[a] >= durable_seq
    PROVE  \E j \in 1 .. Len(buffer) : seq[a] + 1 = durable_seq + j /\ buffer[j] = a
<1> DEFINE j == seq[a] - durable_seq + 1
<1>1. /\ buffer \in Seq(Appenders) /\ next_seq \in Nat /\ durable_seq \in Nat
      /\ seq[a] \in -1 .. next_seq - 1
  BY DEF LogInv, LogTypeOK
<1>2. Len(buffer) = next_seq - durable_seq /\ buffer[j] = a
  BY DEF LogInv, GatheringPart
<1>3. j \in 1 .. Len(buffer) /\ seq[a] + 1 = durable_seq + j
  BY SMTT(30), <1>1, <1>2
<1> QED BY <1>2, <1>3

\* The watermark invariant is the order of the records and of the group.
LEMMA WatermarkFromOrder == LogInv => WatermarkIsLSN
<1> SUFFICES ASSUME LogInv, flusher # "raised" PROVE WatermarkIsLSN
  BY DEF WatermarkIsLSN
<1> USE DEF LogInv
<1>1. /\ buffer \in Seq(Appenders) /\ records \in Seq(Appenders)
      /\ next_seq \in Nat /\ durable_seq \in Nat
      /\ seq \in [Appenders -> -1 .. next_seq - 1]
  BY DEF LogTypeOK
<1>2. ASSUME NEW a \in Appenders, seq[a] # -1 PROVE (records \o buffer)[seq[a] + 1] = a
  <2>1. CASE seq[a] < durable_seq
    <3>1. seq[a] \in 0 .. durable_seq - 1 /\ seq[a] + 1 \in 1 .. Len(records)
      BY <1>1, <1>2, <2>1 DEF GatheringPart
    <3>2. records[seq[a] + 1] = a
      BY <3>1 DEF DurablePart
    <3> QED BY <1>1, <3>1, <3>2, Behind
  <2>2. CASE seq[a] >= durable_seq
    <3>1. PICK j \in 1 .. Len(buffer) : seq[a] + 1 = durable_seq + j /\ buffer[j] = a
      BY <2>2, PlaceInGroup
    <3>2. (records \o buffer)[Len(records) + j] = buffer[j] /\ Len(records) = durable_seq
      BY <1>1, Behind DEF GatheringPart
    <3>3. (records \o buffer)[durable_seq + j] = a
      BY <3>1, <3>2
    <3> QED BY <3>1, <3>3
  <2>3. seq[a] < durable_seq \/ seq[a] >= durable_seq
    BY <1>1
  <2> QED BY <2>1, <2>2, <2>3, Zenon
<1> QED BY <1>2 DEF WatermarkIsLSN, DurablePart, GatheringPart

\* The new event has the next number and is last in the group.
LEMMA AppendInv == ASSUME LogInv, NEW a \in Appenders, Append_(a) PROVE LogInv'
<1> USE DEF LogInv, Append_, sink
<1>1. /\ buffer \in Seq(Appenders) /\ records \in Seq(Appenders)
      /\ next_seq \in Nat /\ durable_seq \in 0 .. next_seq
      /\ seq \in [Appenders -> -1 .. next_seq - 1] /\ returned \subseteq Appenders
  BY DEF LogTypeOK
<1>2. LogTypeOK'
  BY <1>1 DEF LogTypeOK
<1>3. \A b \in Appenders : seq'[b] = IF b = a THEN next_seq ELSE seq[b]
  BY <1>1
<1>4. DurablePart'
  <2>1. \A i \in 1 .. durable_seq : records[i] \in Appenders /\ records[i] # a
    BY SMTT(30), <1>1, GroupCommitAssumption DEF DurablePart, LogTypeOK
  <2>2. a \notin returned
    BY <1>1 DEF DurablePart
  <2> QED BY SMTT(30), <1>1, <1>3, <2>1, <2>2 DEF DurablePart
<1>5. GatheringPart'
  <2> SUFFICES ASSUME flusher # "raised" PROVE GatheringPart'
    BY DEF GatheringPart
  <2>1. Len(buffer') = Len(buffer) + 1 /\ buffer'[Len(buffer) + 1] = a
    BY <1>1
  <2>2. \A i \in 1 .. Len(buffer) :
          buffer'[i] = buffer[i] /\ buffer[i] \in Appenders /\ buffer[i] # a
    BY <1>1 DEF GatheringPart
  <2>3. Len(buffer) = next_seq - durable_seq
    BY DEF GatheringPart
  <2>4. \A i \in 1 .. Len(buffer') : seq'[buffer'[i]] = durable_seq + i - 1
    BY SMTT(30), <1>1, <1>3, <2>1, <2>2, <2>3 DEF GatheringPart
  <2>5. ASSUME NEW b \in Appenders, seq'[b] >= durable_seq
        PROVE  buffer'[seq'[b] - durable_seq + 1] = b
    <3>1. CASE b = a
      BY <3>1, <1>1, <1>3, <2>1, <2>3
    <3>2. CASE b # a
      <4>1. seq'[b] = seq[b] /\ seq[b] \in durable_seq .. next_seq - 1
        BY <3>2, <1>1, <1>3, <2>5
      <4>2. PICK k : k = seq[b] - durable_seq + 1
        OBVIOUS
      <4>3. k \in 1 .. Len(buffer)
        BY ONLY <4>1, <4>2, <1>1, <2>3
      <4>4. buffer[k] = b
        <5>1. seq[b] >= durable_seq
          BY ONLY <4>1, <1>1
        <5>2. GatheringPart
          BY DEF LogInv
        <5> QED BY ONLY <4>2, <5>1, <5>2, flusher # "raised" DEF GatheringPart
      <4>5. buffer'[k] = buffer[k]
        BY ONLY <2>2, <4>3
      <4>6. seq'[b] - durable_seq + 1 = k
        BY ONLY <4>1, <4>2
      <4> QED BY ONLY <4>4, <4>5, <4>6
    <3> QED BY <3>1, <3>2
  <2>6. Len(records') = durable_seq /\ Len(buffer') = next_seq' - durable_seq
    BY <1>1, <2>1, <2>3 DEF GatheringPart
  <2> QED BY <2>4, <2>5, <2>6 DEF GatheringPart
<1> QED BY <1>2, <1>4, <1>5

\* The whole group becomes durable, in its order.
LEMMA FlushInv == ASSUME LogInv, Flush PROVE LogInv'
<1> USE DEF LogInv, Flush
<1>1. /\ buffer \in Seq(Appenders) /\ records \in Seq(Appenders)
      /\ next_seq \in Nat /\ durable_seq \in 0 .. next_seq
      /\ seq \in [Appenders -> -1 .. next_seq - 1] /\ returned \subseteq Appenders
  BY DEF LogTypeOK
<1>2. Len(records) = durable_seq /\ Len(buffer) = next_seq - durable_seq
  BY DEF GatheringPart
<1>3. records' \in Seq(Appenders) /\ Len(records') = next_seq
  <2>1. records' = records \o buffer
    OBVIOUS
  <2>2. records' \in Seq(Appenders) /\ Len(records') = Len(records) + Len(buffer)
    BY <1>1, <2>1, Behind
  <2> QED BY <1>1, <1>2, <2>2
<1>4. /\ \A i \in 1 .. durable_seq : records'[i] = records[i]
      /\ \A i \in 1 .. Len(buffer) : records'[durable_seq + i] = buffer[i]
  <2>1. records' = records \o buffer
    OBVIOUS
  <2> QED BY SMTT(30), <1>1, <1>2, <2>1, Behind
<1>5. LogTypeOK'
  BY <1>1, <1>3 DEF LogTypeOK
<1>6. ASSUME NEW i \in 1 .. next_seq PROVE seq[records'[i]] = i - 1
  <2>1. CASE i \in 1 .. durable_seq
    BY <2>1, <1>4 DEF DurablePart
  <2>2. CASE i \notin 1 .. durable_seq
    <3>1. i - durable_seq \in 1 .. Len(buffer) /\ durable_seq + (i - durable_seq) = i
      BY <2>2, <1>1, <1>2
    <3>2. records'[i] = buffer[i - durable_seq]
      BY <3>1, <1>4
    <3>3. seq[buffer[i - durable_seq]] = durable_seq + (i - durable_seq) - 1
      BY <3>1 DEF GatheringPart
    <3> QED BY <3>1, <3>2, <3>3, <1>1
  <2> QED BY <2>1, <2>2
<1>7. ASSUME NEW a \in Appenders, seq[a] \in 0 .. next_seq - 1 PROVE records'[seq[a] + 1] = a
  <2>1. CASE seq[a] < durable_seq
    <3>1. seq[a] + 1 \in 1 .. durable_seq /\ seq[a] \in 0 .. durable_seq - 1
      BY <2>1, <1>1, <1>7
    <3> QED BY <3>1, <1>4 DEF DurablePart
  <2>2. CASE seq[a] >= durable_seq
    <3>1. PICK j \in 1 .. Len(buffer) : seq[a] + 1 = durable_seq + j /\ buffer[j] = a
      BY <2>2, PlaceInGroup
    <3>2. records'[durable_seq + j] = a
      BY <3>1, <1>4
    <3> QED BY <3>1, <3>2
  <2>3. seq[a] < durable_seq \/ seq[a] >= durable_seq
    BY <1>1
  <2> QED BY <2>1, <2>2, <2>3, Zenon
<1>8. DurablePart'
  <2>1. durable_upto' = next_seq /\ durable_seq' = next_seq
    BY <1>3
  <2>2. \A a \in returned : seq[a] \in 0 .. next_seq - 1
    BY <1>1 DEF DurablePart
  <2> QED BY <2>1, <2>2, <1>6, <1>7 DEF DurablePart
<1>9. GatheringPart'
  BY <1>1, <1>3 DEF GatheringPart
<1> QED BY <1>5, <1>8, <1>9

\* A sink that raises may have more records than the log, behind it.
LEMMA RaiseKeepsLog ==
    ASSUME LogInv, FlushRaises
    PROVE  /\ records' \in Seq(Appenders) /\ Len(records') >= Len(records)
           /\ \A i \in 1 .. Len(records) : records'[i] = records[i]
<1>1. buffer \in Seq(Appenders) /\ records \in Seq(Appenders)
  BY DEF LogInv, LogTypeOK
<1>2. PICK n \in 0 .. Len(buffer) : records' = records \o SubSeq(buffer, 1, n)
  BY DEF FlushRaises
<1>3. SubSeq(buffer, 1, n) \in Seq(Appenders)
  BY <1>1, <1>2
<1> QED BY <1>1, <1>2, <1>3

\* The group is lost, and the log stays as it is.
LEMMA FlushRaisesInv == ASSUME LogInv, FlushRaises PROVE LogInv'
<1> USE DEF LogInv, FlushRaises, numbers
<1>1. LogTypeOK'
  BY RaiseKeepsLog DEF LogTypeOK
<1>2. DurablePart'
  <2>1. \A i \in 1 .. durable_seq : i \in 1 .. Len(records) /\ records'[i] = records[i]
    BY RaiseKeepsLog DEF LogTypeOK, DurablePart
  <2>2. \A a \in Appenders : seq[a] \in 0 .. durable_seq - 1 => seq[a] + 1 \in 1 .. durable_seq
    BY SMTT(30) DEF LogTypeOK
  <2> QED BY <2>1, <2>2 DEF DurablePart
<1> QED BY <1>1, <1>2 DEF GatheringPart

\* A thread that only waits, returns or closes moves no event.
LEMMA QuietInv ==
    ASSUME LogInv,
           \/ \E a \in Appenders : AppenderChecks(a)
           \/ FlusherLooks \/ CloserStep \/ UNCHANGED logvars
    PROVE  LogInv'
<1>1. CASE \E a \in Appenders : AppenderChecks(a)
  <2> PICK a \in Appenders : AppenderChecks(a)
    BY <1>1
  <2>1. returned' = returned \/ (returned' = returned \union {a} /\ seq[a] \in 0 .. durable_seq - 1)
    BY DEF AppenderChecks, LogInv, LogTypeOK
  <2> QED BY SMTT(30), <2>1 DEF AppenderChecks, LogInv, LogTypeOK, DurablePart, GatheringPart, numbers, sink
<1>2. CASE FlusherLooks
  BY <1>2 DEF FlusherLooks, LogInv, LogTypeOK, DurablePart, GatheringPart, numbers, sink
<1>3. CASE CloserStep
  BY ZenonT(60), <1>3 DEF CloserStep, Close, CloseReturns, LogInv, LogTypeOK, DurablePart, GatheringPart,
     numbers, sink
<1>4. CASE UNCHANGED logvars
  BY <1>4 DEF logvars, LogInv, LogTypeOK, DurablePart, GatheringPart
<1> QED BY <1>1, <1>2, <1>3, <1>4
\* Every step keeps the order of the log.
LEMMA LogStepInv == ASSUME LogInv, [LogNext]_logvars PROVE LogInv'
<1>1. CASE \E a \in Appenders : Append_(a)
  BY <1>1, AppendInv
<1>2. CASE Flush
  BY <1>2, FlushInv
<1>3. CASE FlushRaises
  BY <1>3, FlushRaisesInv
<1>4. CASE \/ \E a \in Appenders : AppenderChecks(a)
           \/ FlusherLooks \/ CloserStep \/ UNCHANGED logvars
  BY <1>4, QuietInv
<1> QED BY <1>1, <1>2, <1>3, <1>4 DEF LogNext, FlusherStep

\* The watermark is the log sequence number, for any number of appenders and
\* whatever the sink does.
THEOREM WatermarkIsExact ==
    /\ LogSpec => [](LogTypeOK /\ WatermarkIsLSN)
    /\ PipelinesSpec => [](LogTypeOK /\ WatermarkIsLSN)
<1>1. LogInv => LogTypeOK /\ WatermarkIsLSN
  BY WatermarkFromOrder DEF LogInv
<1> QED BY <1>1, LogInitInv, LogStepInv, PipelinesTakeSteps, PTL DEF LogSpec, PipelinesSpec

\* The flusher ends, for close to join, only when all that was appended is durable.
THEOREM CloseDrainsAlways == (LogSpec => CloseDrains) /\ (PipelinesSpec => CloseDrains)
<1>1. ASSUME LogInv, [LogNext]_logvars
      PROVE  [flusher' = "returned" /\ flusher # "returned" =>
                 buffer = <<>> /\ durable_seq = next_seq]_logvars
  <2> SUFFICES ASSUME LogNext, flusher' = "returned", flusher # "returned"
               PROVE  buffer = <<>> /\ durable_seq = next_seq
    BY <1>1
  <2>1. FlusherLooks
    BY DEF LogNext, FlusherStep, CloserStep, Append_, AppenderChecks, Flush, FlushRaises,
       Close, CloseReturns
  <2>2. flusher # "raised" /\ buffer = <<>>
    BY <2>1 DEF FlusherLooks
  <2> QED BY <1>1, <2>2 DEF LogInv, GatheringPart, LogTypeOK
<1> QED BY <1>1, LogInitInv, LogStepInv, PipelinesTakeSteps, PTL
        DEF LogSpec, PipelinesSpec, CloseDrains

StableLog == SubSeq(records, 1, durable_upto)

\* What the beginning of a sequence reads.
LEMMA Beginning ==
    ASSUME NEW S, NEW s \in Seq(S), NEW n \in 0 .. Len(s)
    PROVE  /\ SubSeq(s, 1, n) \in Seq(S) /\ Len(SubSeq(s, 1, n)) = n
           /\ \A i \in 1 .. n : SubSeq(s, 1, n)[i] = s[i]
  OBVIOUS

\* The stable log is what the watermark counts.
LEMMA StableReads ==
    ASSUME LogInv
    PROVE  /\ StableLog \in Seq(Appenders) /\ Len(StableLog) = durable_seq
           /\ \A i \in 1 .. durable_seq : StableLog[i] = records[i]
  BY DEF LogInv, LogTypeOK, DurablePart, StableLog
\* A flush commits the group behind the stable log.
LEMMA FlushCommits ==
    ASSUME LogInv, LogInv', Flush PROVE Log!Commit
<1>1. durable_seq <= durable_seq' /\ durable_seq \in Nat /\ durable_seq' \in Nat
  BY DEF LogInv, LogTypeOK, Flush
<1>2. \A i \in 1 .. durable_seq : records'[i] = records[i]
  <2>1. /\ buffer \in Seq(Appenders) /\ records \in Seq(Appenders)
        /\ Len(records) = durable_seq /\ records' = records \o buffer
    BY DEF LogInv, LogTypeOK, GatheringPart, Flush
  <2> QED BY <2>1, Behind
<1>3. /\ StableLog' \in Seq(Appenders) /\ Len(StableLog') = durable_seq'
      /\ \A i \in 1 .. durable_seq' : StableLog'[i] = records'[i]
  <2>1. records' \in Seq(Appenders) /\ durable_upto' \in 0 .. Len(records')
    BY DEF LogInv, LogTypeOK
  <2>2. durable_upto' = durable_seq'
    BY DEF LogInv, DurablePart
  <2> QED BY <2>1, <2>2, Beginning DEF StableLog
<1>4. SubSeq(StableLog', 1, Len(StableLog)) = StableLog
  BY <1>1, <1>2, <1>3, StableReads
<1>5. \A i, j \in DOMAIN StableLog' : StableLog'[i] = StableLog'[j] => i = j
  BY SMTT(30), <1>1, <1>3 DEF LogInv, DurablePart
<1>6. UNCHANGED returned
  BY DEF Flush
<1> QED BY <1>1, <1>3, <1>4, <1>5, <1>6, StableReads DEF Log!Commit, StableLog

\* append is durable on return: every step of the logger is a commit, a
\* return of an event that is on the stable log, or a stutter.
THEOREM AppendIsDurable ==
    (LogSpec => ImplementsDurableLog) /\ (PipelinesSpec => ImplementsDurableLog)
<1>1. LogInit => Log!Init
  BY DEF LogInit, Log!Init
<1>2. ASSUME LogInv, LogInv', [LogNext]_logvars PROVE [Log!Next]_Log!vars
  <2>1. CASE Flush
    BY <2>1, <1>2, FlushCommits DEF Log!Next
  <2>2. CASE FlushRaises
    <3>1. \A i \in 1 .. durable_seq : records'[i] = records[i]
      <4>1. durable_seq \in 0 .. Len(records) /\ Len(records) \in Nat
        BY <1>2 DEF LogInv, LogTypeOK, DurablePart
      <4> QED BY <4>1, <2>2, <1>2, RaiseKeepsLog
    <3>2. /\ StableLog' \in Seq(Appenders) /\ Len(StableLog') = durable_seq
          /\ \A i \in 1 .. durable_seq : StableLog'[i] = records'[i]
      BY SMTT(30), <2>2, <1>2 DEF LogInv, LogTypeOK, DurablePart, StableLog, FlushRaises, numbers
    <3>3. StableLog' = StableLog
      BY <3>1, <3>2, <1>2, StableReads
    <3> QED BY <3>3, <2>2 DEF FlushRaises, StableLog, Log!vars
  <2>3. ASSUME NEW a \in Appenders, AppenderChecks(a) PROVE Log!Return(a) \/ UNCHANGED Log!vars
    <3>1. CASE durable_seq <= seq[a]
      BY <3>1, <2>3 DEF AppenderChecks, sink, Log!vars
    <3>2. CASE ~(durable_seq <= seq[a])
      <4>1. returned' = returned \union {a} /\ a \notin returned /\ UNCHANGED StableLog
        BY <3>2, <2>3 DEF AppenderChecks, sink, StableLog
      <4>2. seq[a] + 1 \in 1 .. durable_seq /\ records[seq[a] + 1] = a
        <5>1. seq[a] \in -1 .. next_seq - 1 /\ seq[a] # -1 /\ next_seq \in Nat /\ durable_seq \in Nat
          BY <2>3, <1>2 DEF AppenderChecks, LogInv, LogTypeOK
        <5>2. seq[a] \in 0 .. durable_seq - 1
          BY <3>2, <5>1
        <5> QED BY <5>1, <5>2, <1>2 DEF LogInv, DurablePart
      <4>3. seq[a] + 1 \in DOMAIN StableLog /\ StableLog[seq[a] + 1] = a
        BY <4>2, <1>2, StableReads
      <4> QED BY <4>1, <4>3 DEF Log!Return, Log!OnLog, StableLog
    <3> QED BY <3>1, <3>2
  <2>4. CASE \/ \E a \in Appenders : Append_(a)
             \/ FlusherLooks \/ CloserStep \/ UNCHANGED logvars
    BY <2>4 DEF Append_, FlusherLooks, CloserStep, Close, CloseReturns, logvars, sink, Log!vars
  <2> QED BY <2>1, <2>2, <2>3, <2>4, <1>2 DEF LogNext, FlusherStep, Log!Next
<1> QED BY <1>1, <1>2, LogInitInv, LogStepInv, PipelinesTakeSteps, PTL
        DEF LogSpec, PipelinesSpec, ImplementsDurableLog, Log!Spec
-----------------------------------------------------------------------------
(* The bounded buffer: no wake-up is lost, every item goes through once *)

\* Instances of the buffer's module count as this module does.
LEMMA BufferCounts == \A S : Buffer!Cardinality(S) = Cardinality(S)
BY DEF Buffer!Cardinality, Cardinality

\* A thread waits in one place of its condition and is not among the woken.
Queued(condition, awake) ==
    /\ \A i \in 1 .. Len(condition) : condition[i] \notin awake
    /\ \A i, j \in 1 .. Len(condition) : condition[i] = condition[j] => i = j

\* While somebody waits, enough of its side are woken for what there is to do.
Served(condition, awake, side, work) ==
    condition # <<>> => Cardinality(awake \intersect side) >= work

WakeInv ==
    /\ Queued(not_full, woken) /\ Queued(not_empty, woken)
    /\ Served(not_full, woken, Producers, Capacity - Len(items))
    /\ Served(not_empty, woken, Consumers, Len(items))

\* There are finitely many to count.
LEMMA WokenFinite ==
    ASSUME NEW W, NEW side, side = Producers \/ side = Consumers
    PROVE  IsFiniteSet(W \intersect side) /\ Cardinality(W \intersect side) \in Nat
<1>1. IsFiniteSet(Producers) /\ IsFiniteSet(Consumers)
  BY TierConstants DEF Buffer!BufferConstants, Buffer!IsFiniteSet, IsFiniteSet
<1>2. W \intersect side \subseteq side
  OBVIOUS
<1> QED BY <1>1, <1>2, FS_Subset, FS_CardinalityType

\* Whoever has the lock is not woken any more: at most one less of its side.
LEMMA OneLessWoken ==
    ASSUME NEW S, IsFiniteSet(S), NEW x
    PROVE  Cardinality(S \ {x}) >= Cardinality(S) - 1
<1>1. CASE x \in S
  <2>1. Cardinality(S) \in Nat /\ Cardinality(S \ {x}) = Cardinality(S) - 1
    BY <1>1, FS_RemoveElement, FS_CardinalityType
  <2> QED BY <2>1
<1>2. CASE x \notin S
  <2>1. S \ {x} = S
    BY <1>2
  <2>2. Cardinality(S) \in Nat
    BY FS_CardinalityType
  <2>3. \A n \in Nat : n >= n - 1
    OBVIOUS
  <2> QED BY <2>1, <2>2, <2>3
<1> QED BY <1>1, <1>2

\* A thread that waits is the last in its place.
LEMMA JoinsQueue ==
    ASSUME NEW S, NEW condition \in Seq(S), NEW awake, Queued(condition, awake),
           NEW x \in S, x \notin Buffer!Elements(condition)
    PROVE  Append(condition, x) \in Seq(S) /\ Queued(Append(condition, x), awake \ {x})
<1>1. /\ Append(condition, x) \in Seq(S) /\ Len(Append(condition, x)) = Len(condition) + 1
      /\ Append(condition, x)[Len(condition) + 1] = x /\ Len(condition) \in Nat
      /\ \A i \in 1 .. Len(condition) : Append(condition, x)[i] = condition[i]
  OBVIOUS
<1>2. \A i \in 1 .. Len(condition) : condition[i] # x
  BY DEF Buffer!Elements
<1> QED BY <1>1, <1>2 DEF Queued

\* notify wakes the longest waiter, if there is one.
LEMMA NotifyOne ==
    ASSUME NEW S, NEW condition \in Seq(S), NEW awake, Queued(condition, awake), NEW x
    PROVE  /\ Buffer!Rest(condition) \in Seq(S)
           /\ Buffer!Notify(condition) \subseteq S
           /\ Queued(Buffer!Rest(condition), (awake \ {x}) \union Buffer!Notify(condition))
           /\ condition # <<>> =>
                 \E y \in S \ awake : Buffer!Notify(condition) = {y}
<1>1. CASE condition = <<>>
  BY <1>1 DEF Buffer!Notify, Buffer!Rest, Queued
<1>2. CASE condition # <<>>
  <2>1. /\ Buffer!Notify(condition) = {condition[1]} /\ condition[1] \in S
        /\ Buffer!Rest(condition) \in Seq(S) /\ Len(condition) \in Nat /\ Len(condition) >= 1
        /\ Len(Buffer!Rest(condition)) = Len(condition) - 1
        /\ \A i \in 1 .. Len(condition) - 1 : Buffer!Rest(condition)[i] = condition[i + 1]
    BY <1>2, API!BehindTheHead DEF Buffer!Notify, Buffer!Rest
  <2>2. 1 \in 1 .. Len(condition) /\ condition[1] \notin awake
    BY <2>1 DEF Queued
  <2>3. \A i \in 1 .. Len(condition) - 1 : i + 1 \in 1 .. Len(condition) /\ i + 1 # 1
    BY <2>1
  <2>4. Queued(Buffer!Rest(condition), (awake \ {x}) \union Buffer!Notify(condition))
    <3>1. \A i \in 1 .. Len(condition) - 1 :
             Buffer!Rest(condition)[i] \notin (awake \ {x}) \union Buffer!Notify(condition)
      BY <2>1, <2>2, <2>3 DEF Queued
    <3>2. \A i, j \in 1 .. Len(condition) - 1 :
             Buffer!Rest(condition)[i] = Buffer!Rest(condition)[j] => i + 1 = j + 1
      BY <2>1, <2>3 DEF Queued
    <3>3. \A i, j \in 1 .. Len(condition) - 1 :
             Buffer!Rest(condition)[i] = Buffer!Rest(condition)[j] => i = j
      BY <2>1, <3>2
    <3> QED BY <2>1, <3>1, <3>3 DEF Queued
  <2> QED BY <2>1, <2>2, <2>4
<1> QED BY <1>1, <1>2

\* The two sides of the buffer.
Facing(my_side, their_side) ==
    \/ my_side = Producers /\ their_side = Consumers
    \/ my_side = Consumers /\ their_side = Producers

\* Producers and consumers face each other.
LEMMA TwoSides == Facing(Producers, Consumers) /\ Facing(Consumers, Producers)
BY DEF Facing

\* Of either side nobody sleeps while there is work that no woken thread
\* will find.
Awaited(mine, others, my_side, their_side, awake, my_work, their_work) ==
    /\ Queued(mine, awake) /\ Queued(others, awake)
    /\ Served(mine, awake, my_side, my_work) /\ Served(others, awake, their_side, their_work)

\* A thread of one side that puts or takes hands one unit of work to the
\* other side, and wakes one of it; of its own side there is one less to do.
LEMMA Handover ==
    ASSUME NEW mine, NEW others, NEW my_side, NEW their_side,
           Facing(my_side, their_side),
           mine \in Seq(my_side), others \in Seq(their_side),
           NEW awake, Queued(mine, awake), Queued(others, awake),
           NEW my_work \in Int, NEW their_work \in Int,
           Served(mine, awake, my_side, my_work), Served(others, awake, their_side, their_work),
           NEW x \in my_side,
           NEW still, still = (awake \ {x}) \union Buffer!Notify(others)
    PROVE  Awaited(mine, Buffer!Rest(others), my_side, their_side, still,
                   my_work - 1, their_work + 1)
<1>1. my_side \intersect their_side = {} /\ x \notin their_side
  BY TierConstants DEF Buffer!BufferConstants, Facing
<1>2. /\ Buffer!Rest(others) \in Seq(their_side) /\ Buffer!Notify(others) \subseteq their_side
      /\ Queued(Buffer!Rest(others), still)
      /\ others # <<>> => \E y \in their_side \ awake : Buffer!Notify(others) = {y}
  BY ZenonT(60), NotifyOne
<1>3. \A i \in 1 .. Len(mine) : mine[i] \in my_side
  OBVIOUS
<1>4. Queued(mine, still)
  BY <1>1, <1>2, <1>3 DEF Queued
<1>5. still \intersect my_side = (awake \intersect my_side) \ {x}
  BY <1>1, <1>2
<1>6. Served(mine, still, my_side, my_work - 1)
  <2>1. /\ Cardinality(awake \intersect my_side) \in Nat
        /\ Cardinality((awake \intersect my_side) \ {x}) >= Cardinality(awake \intersect my_side) - 1
    BY WokenFinite, OneLessWoken DEF Facing
  <2>2. (awake \intersect my_side) \ {x} = (awake \ {x}) \intersect my_side
    OBVIOUS
  <2>3. Cardinality((awake \intersect my_side) \ {x}) \in Nat
    BY <2>2, WokenFinite DEF Facing
  <2>4. mine # <<>> => Cardinality(awake \intersect my_side) >= my_work
    BY DEF Served
  <2>5. \A m, n \in Nat : m >= my_work /\ n >= m - 1 => n >= my_work - 1
    OBVIOUS
  <2>6. mine # <<>> => Cardinality((awake \intersect my_side) \ {x}) >= my_work - 1
    BY <2>1, <2>3, <2>4, <2>5
  <2> QED BY <1>5, <2>6 DEF Served
<1>7. Served(Buffer!Rest(others), still, their_side, their_work + 1)
  <2> SUFFICES ASSUME Buffer!Rest(others) # <<>>
               PROVE  Cardinality(still \intersect their_side) >= their_work + 1
    BY DEF Served
  <2>1. others # <<>>
    BY DEF Buffer!Rest
  <2>2. PICK y \in their_side \ awake : Buffer!Notify(others) = {y}
    BY <1>2, <2>1
  <2>3. still \intersect their_side = (awake \intersect their_side) \union {y}
    BY <1>1, <2>2
  <2>4. /\ Cardinality((awake \intersect their_side) \union {y})
             = Cardinality(awake \intersect their_side) + 1
        /\ Cardinality(awake \intersect their_side) \in Nat
    BY <2>2, WokenFinite, FS_AddElement DEF Facing
  <2>5. Cardinality(awake \intersect their_side) >= their_work
    BY <2>1 DEF Served
  <2>6. \A n \in Nat : n >= their_work => n + 1 >= their_work + 1
    OBVIOUS
  <2> QED BY <2>3, <2>4, <2>5, <2>6
<1> QED BY <1>2, <1>4, <1>6, <1>7 DEF Awaited

\* A thread that finds nothing to do waits; nobody else is touched.
LEMMA WaitsWake ==
    ASSUME NEW mine, NEW others, NEW my_side, NEW their_side,
           Facing(my_side, their_side),
           mine \in Seq(my_side), others \in Seq(their_side),
           NEW awake, Queued(mine, awake), Queued(others, awake),
           NEW my_work \in Int, my_work <= 0, NEW their_work \in Int,
           Served(others, awake, their_side, their_work),
           NEW x \in my_side, x \notin Buffer!Elements(mine)
    PROVE  Awaited(Append(mine, x), others, my_side, their_side, awake \ {x},
                   my_work, their_work)
<1>1. x \notin their_side
  BY TierConstants DEF Buffer!BufferConstants, Facing
<1>2. Queued(Append(mine, x), awake \ {x})
  BY JoinsQueue
<1>3. Queued(others, awake \ {x})
  BY DEF Queued
<1>4. Served(Append(mine, x), awake \ {x}, my_side, my_work)
  <2>1. Cardinality((awake \ {x}) \intersect my_side) \in Nat
    BY WokenFinite DEF Facing
  <2>2. \A n \in Nat : n >= my_work
    OBVIOUS
  <2> QED BY <2>1, <2>2 DEF Served
<1>5. (awake \ {x}) \intersect their_side = awake \intersect their_side
  BY <1>1
<1> QED BY <1>2, <1>3, <1>4, <1>5 DEF Served, Awaited

BufferInv == Buffer!TypeOK /\ WakeInv /\ Buffer!ExactlyOnceInOrder

\* ExactlyOnceInOrder, of what went through and how many each producer sent.
OnceInOrder(through, counts) ==
    /\ Buffer!Elements(through) = {y \in Producers \X (1 .. MaxItems) : y[2] <= counts[y[1]]}
    /\ \A i, j \in 1 .. Len(through) :
          i < j /\ through[i][1] = through[j][1] => through[i][2] < through[j][2]

\* The property in the present and in the next state.
LEMMA OnceIsOnce ==
    /\ Buffer!ExactlyOnceInOrder <=> OnceInOrder(taken \o items, sent)
    /\ Buffer!ExactlyOnceInOrder' <=> OnceInOrder((taken \o items)', sent')
BY DEF Buffer!ExactlyOnceInOrder, OnceInOrder, Buffer!Elements

\* What goes in and what comes out at the other end.
LEMMA Through ==
    ASSUME NEW S, NEW out \in Seq(S), NEW in \in Seq(S)
    PROVE  /\ \A x \in S : out \o Append(in, x) = Append(out \o in, x)
           /\ in # <<>> => Append(out, Head(in)) \o Tail(in) = out \o in
<1>1. ASSUME NEW x \in S PROVE out \o Append(in, x) = Append(out \o in, x)
  OBVIOUS
<1>2. ASSUME in # <<>> PROVE Append(out, Head(in)) \o Tail(in) = out \o in
  <2>1. /\ Head(in) = in[1] /\ Tail(in) \in Seq(S) /\ Len(Tail(in)) = Len(in) - 1
        /\ \A i \in 1 .. Len(in) - 1 : Tail(in)[i] = in[i + 1]
    BY <1>2, API!BehindTheHead
  <2> QED BY <1>2, <2>1
<1> QED BY <1>1, <1>2

\* The new item is the next of its producer.
LEMMA PutOnce ==
    ASSUME Buffer!TypeOK, Buffer!ExactlyOnceInOrder, NEW p \in Producers, Buffer!EnqueuePuts(p)
    PROVE  Buffer!ExactlyOnceInOrder'
<1> DEFINE through == taken \o items
           x == <<p, sent[p] + 1>>
<1>1. /\ through \in Seq(Producers \X Nat) /\ x \in Producers \X (1 .. MaxItems)
      /\ sent \in [Producers -> 0 .. MaxItems] /\ MaxItems \in Nat
  BY TierConstants DEF Buffer!TypeOK, Buffer!EnqueuePuts, Buffer!BufferConstants
<1>2. (taken \o items)' = Append(through, x)
  <2>1. taken' = taken /\ items' = Append(items, x)
    BY DEF Buffer!EnqueuePuts
  <2>2. taken \in Seq(Producers \X Nat) /\ items \in Seq(Producers \X Nat) /\ x \in Producers \X Nat
    BY <1>1 DEF Buffer!TypeOK
  <2> HIDE DEF x
  <2> QED BY <2>1, <2>2, Through
<1>3. sent' = [sent EXCEPT ![p] = sent[p] + 1]
  BY DEF Buffer!EnqueuePuts
<1>4. /\ Buffer!Elements(through) = {y \in Producers \X (1 .. MaxItems) : y[2] <= sent[y[1]]}
      /\ \A i, j \in 1 .. Len(through) :
           i < j /\ through[i][1] = through[j][1] => through[i][2] < through[j][2]
  BY OnceIsOnce DEF OnceInOrder
<1> HIDE DEF through, x
<1>5. /\ Len(Append(through, x)) = Len(through) + 1 /\ Append(through, x)[Len(through) + 1] = x
      /\ \A i \in 1 .. Len(through) : Append(through, x)[i] = through[i]
      /\ Len(through) \in Nat
  BY <1>1
<1>6. Buffer!Elements(Append(through, x)) = Buffer!Elements(through) \union {x}
  BY <1>5 DEF Buffer!Elements
<1>7. x[1] = p /\ x[2] = sent[p] + 1 /\ sent[p] \in Nat
  BY <1>1 DEF x
<1>8. \A y \in Producers \X (1 .. MaxItems) :
         y[2] <= sent'[y[1]] <=> y[2] <= sent[y[1]] \/ y = x
  <2> SUFFICES ASSUME NEW q \in Producers, NEW n \in 1 .. MaxItems
               PROVE  n <= sent'[q] <=> n <= sent[q] \/ <<q, n>> = x
    OBVIOUS
  <2>1. sent'[q] = IF q = p THEN sent[p] + 1 ELSE sent[q]
    BY <1>1, <1>3
  <2> QED BY <2>1, <1>1 DEF x
<1>9. Buffer!Elements(Append(through, x)) =
         {y \in Producers \X (1 .. MaxItems) : y[2] <= sent'[y[1]]}
  BY <1>1, <1>4, <1>6, <1>8
<1>10. ASSUME NEW i \in 1 .. Len(Append(through, x)), NEW j \in 1 .. Len(Append(through, x)),
             i < j, Append(through, x)[i][1] = Append(through, x)[j][1]
      PROVE  Append(through, x)[i][2] < Append(through, x)[j][2]
  <2>1. i \in 1 .. Len(through)
    BY <1>5, <1>10
  <2>2. CASE j \in 1 .. Len(through)
    BY <2>1, <2>2, <1>4, <1>5, <1>10
  <2>3. CASE j = Len(through) + 1
    <3>1. through[i] \in Buffer!Elements(through)
      BY <2>1 DEF Buffer!Elements
    <3>2. through[i][2] <= sent[p] /\ through[i][2] \in 1 .. MaxItems
      BY <3>1, <2>1, <2>3, <1>4, <1>5, <1>7, <1>10
    <3> QED BY <3>2, <2>1, <2>3, <1>5, <1>7
  <2> QED BY <2>2, <2>3, <1>5
<1>11. OnceInOrder(Append(through, x), sent')
  BY <1>9, <1>10 DEF OnceInOrder
<1> QED BY <1>2, <1>11, OnceIsOnce

\* A producer that puts, or waits.
LEMMA EnqueueInv ==
    ASSUME BufferInv, NEW p \in Producers, Buffer!Enqueue(p) PROVE BufferInv'
<1> USE DEF BufferInv
<1>1. /\ items \in Seq(Producers \X Nat) /\ Len(items) \in Nat /\ Len(items) <= Capacity
      /\ not_full \in Seq(Producers) /\ not_empty \in Seq(Consumers)
      /\ woken \subseteq Producers \union Consumers
      /\ sent \in [Producers -> 0 .. MaxItems] /\ taken \in Seq(Producers \X Nat)
      /\ MaxItems \in Nat /\ Capacity \in Nat
  BY TierConstants DEF Buffer!TypeOK, Buffer!BufferConstants
<1>2. CASE Buffer!EnqueueWaits(p)
  <2>1. /\ not_full' = Append(not_full, p) /\ woken' = woken \ {p} /\ Len(items) >= Capacity
        /\ UNCHANGED <<items, not_empty, sent, taken>> /\ p \notin Buffer!Elements(not_full)
    BY <1>2 DEF Buffer!EnqueueWaits
  <2>2. Buffer!TypeOK'
    BY <1>1, <2>1 DEF Buffer!TypeOK
  <2>3. Capacity - Len(items) \in Int /\ Capacity - Len(items) <= 0
    BY <1>1, <2>1
  <2>4. WakeInv'
    <3>1. Awaited(Append(not_full, p), not_empty, Producers, Consumers, woken \ {p},
                  Capacity - Len(items), Len(items))
      <4>1. /\ Len(items) \in Int /\ not_full \in Seq(Producers) /\ not_empty \in Seq(Consumers)
            /\ p \in Producers /\ p \notin Buffer!Elements(not_full)
        BY <1>1, <2>1
      <4>2. /\ Queued(not_full, woken) /\ Queued(not_empty, woken)
            /\ Served(not_empty, woken, Consumers, Len(items))
        BY DEF WakeInv
      <4> QED BY ONLY <4>1, <4>2, <2>3, TwoSides, WaitsWake
    <3> QED BY <3>1, <2>1 DEF WakeInv, Awaited
  <2>5. Buffer!ExactlyOnceInOrder'
    BY <2>1, OnceIsOnce
  <2> QED BY <2>2, <2>4, <2>5
<1>3. CASE Buffer!EnqueuePuts(p)
  <2>1. /\ items' = Append(items, <<p, sent[p] + 1>>) /\ Len(items) < Capacity
        /\ sent' = [sent EXCEPT ![p] = @ + 1] /\ sent[p] < MaxItems
        /\ woken' = (woken \ {p}) \union Buffer!Notify(not_empty)
        /\ not_empty' = Buffer!Rest(not_empty) /\ UNCHANGED <<not_full, taken>>
    BY <1>3 DEF Buffer!EnqueuePuts
  <2>2. Buffer!Rest(not_empty) \in Seq(Consumers) /\ Buffer!Notify(not_empty) \subseteq Consumers
    BY <1>1, NotifyOne DEF WakeInv
  <2>3. /\ items' \in Seq(Producers \X Nat) /\ Len(items') = Len(items) + 1
        /\ Len(items') <= Capacity
    BY <1>1, <2>1
  <2>4. Buffer!TypeOK'
    <3>1. sent' \in [Producers -> 0 .. MaxItems]
      BY <1>1, <2>1
    <3> QED BY <1>1, <2>1, <2>2, <2>3, <3>1 DEF Buffer!TypeOK
  <2>5. WakeInv'
    <3>1. /\ Capacity - Len(items) \in Int /\ Len(items) \in Int
          /\ Capacity - Len(items') = (Capacity - Len(items)) - 1
      BY <1>1, <2>3
    <3>2. PICK still : still = woken'
      OBVIOUS
    <3>3. Awaited(not_full, Buffer!Rest(not_empty), Producers, Consumers, still,
                  (Capacity - Len(items)) - 1, Len(items) + 1)
      <4>1. /\ not_full \in Seq(Producers) /\ not_empty \in Seq(Consumers) /\ p \in Producers
            /\ still = (woken \ {p}) \union Buffer!Notify(not_empty)
        BY <1>1, <2>1, <3>2
      <4>2. /\ Queued(not_full, woken) /\ Queued(not_empty, woken)
            /\ Served(not_full, woken, Producers, Capacity - Len(items))
            /\ Served(not_empty, woken, Consumers, Len(items))
        BY DEF WakeInv
      <4> QED BY ONLY <4>1, <4>2, <3>1, TwoSides, Handover
    <3> QED BY <2>1, <2>3, <3>1, <3>2, <3>3 DEF WakeInv, Awaited
  <2> QED BY <2>4, <2>5, <1>3, PutOnce
<1> QED BY <1>2, <1>3 DEF Buffer!Enqueue

\* A consumer that takes, or waits.
LEMMA DequeueInv ==
    ASSUME BufferInv, NEW c \in Consumers, Buffer!Dequeue(c) PROVE BufferInv'
<1> USE DEF BufferInv
<1>1. /\ items \in Seq(Producers \X Nat) /\ Len(items) \in Nat /\ Len(items) <= Capacity
      /\ not_full \in Seq(Producers) /\ not_empty \in Seq(Consumers)
      /\ woken \subseteq Producers \union Consumers
      /\ sent \in [Producers -> 0 .. MaxItems] /\ taken \in Seq(Producers \X Nat)
      /\ Capacity \in Nat
  BY TierConstants DEF Buffer!TypeOK, Buffer!BufferConstants
<1>2. CASE Buffer!DequeueWaits(c)
  <2>1. /\ not_empty' = Append(not_empty, c) /\ woken' = woken \ {c} /\ Len(items) = 0
        /\ UNCHANGED <<items, not_full, sent, taken>> /\ c \notin Buffer!Elements(not_empty)
    BY <1>2 DEF Buffer!DequeueWaits
  <2>2. Buffer!TypeOK'
    BY <1>1, <2>1 DEF Buffer!TypeOK
  <2>3. Len(items) \in Int /\ Len(items) <= 0 /\ Capacity - Len(items) \in Int
    BY <1>1, <2>1
  <2>4. WakeInv'
    <3>1. Awaited(Append(not_empty, c), not_full, Consumers, Producers, woken \ {c},
                  Len(items), Capacity - Len(items))
      BY <1>1, <2>1, <2>3, TwoSides, WaitsWake DEF WakeInv
    <3> QED BY <3>1, <2>1 DEF WakeInv, Awaited
  <2>5. Buffer!ExactlyOnceInOrder'
    BY <2>1, OnceIsOnce
  <2> QED BY <2>2, <2>4, <2>5
<1>3. CASE Buffer!DequeueTakes(c)
  <2>1. /\ items # <<>> /\ items' = Tail(items) /\ taken' = Append(taken, Head(items))
        /\ woken' = (woken \ {c}) \union Buffer!Notify(not_full)
        /\ not_full' = Buffer!Rest(not_full) /\ UNCHANGED <<not_empty, sent>>
    BY <1>3 DEF Buffer!DequeueTakes
  <2>2. Buffer!Rest(not_full) \in Seq(Producers) /\ Buffer!Notify(not_full) \subseteq Producers
    BY <1>1, NotifyOne DEF WakeInv
  <2>3. /\ items' \in Seq(Producers \X Nat) /\ Len(items') = Len(items) - 1
        /\ taken' \in Seq(Producers \X Nat) /\ Len(items) >= 1
    BY <1>1, <2>1, API!BehindTheHead
  <2>4. Buffer!TypeOK'
    BY <1>1, <2>1, <2>2, <2>3 DEF Buffer!TypeOK
  <2>5. WakeInv'
    <3>1. /\ Capacity - Len(items) \in Int /\ Len(items) \in Int
          /\ Capacity - Len(items') = (Capacity - Len(items)) + 1
      BY <1>1, <2>3
    <3>2. PICK still : still = woken'
      OBVIOUS
    <3>3. Awaited(not_empty, Buffer!Rest(not_full), Consumers, Producers, still,
                  Len(items) - 1, (Capacity - Len(items)) + 1)
      BY <1>1, <2>1, <3>1, <3>2, TwoSides, Handover DEF WakeInv
    <3> QED BY <2>1, <2>3, <3>1, <3>2, <3>3 DEF WakeInv, Awaited
  <2>6. (taken \o items)' = taken \o items
    BY <1>1, <2>1, Through
  <2>7. Buffer!ExactlyOnceInOrder'
    BY <2>1, <2>6, OnceIsOnce
  <2> QED BY <2>4, <2>5, <2>7
<1> QED BY <1>2, <1>3 DEF Buffer!Dequeue

\* The buffer loses no wake-up and no item.
LEMMA BufferInductive ==
    /\ Buffer!Init => BufferInv
    /\ BufferInv /\ [Buffer!Next]_(Buffer!vars) => BufferInv'
<1>1. ASSUME Buffer!Init PROVE BufferInv
  <2>1. /\ items = <<>> /\ taken = <<>> /\ not_full = <<>> /\ not_empty = <<>> /\ woken = {}
        /\ sent = [p \in Producers |-> 0] /\ Capacity \in Nat /\ MaxItems \in Nat
    BY <1>1, TierConstants DEF Buffer!Init, Buffer!BufferConstants
  <2>2. Buffer!TypeOK
    BY <2>1 DEF Buffer!TypeOK
  <2>3. WakeInv
    BY <2>1 DEF WakeInv, Queued, Served
  <2>4. taken \o items = <<>> /\ Len(taken \o items) = 0
    BY <2>1
  <2>5. {x \in Producers \X (1 .. MaxItems) : x[2] <= sent[x[1]]} = {}
    BY <2>1
  <2>6. Buffer!Elements(taken \o items) = {}
    BY <2>4 DEF Buffer!Elements
  <2>7. Buffer!ExactlyOnceInOrder
    BY <2>4, <2>5, <2>6 DEF Buffer!ExactlyOnceInOrder
  <2> QED BY <2>2, <2>3, <2>7 DEF BufferInv
<1>2. ASSUME BufferInv, UNCHANGED Buffer!vars PROVE BufferInv'
  <2>1. UNCHANGED <<items, not_full, not_empty, woken, sent, taken>>
    BY <1>2 DEF Buffer!vars
  <2>2. Buffer!ExactlyOnceInOrder'
    BY <1>2, <2>1, OnceIsOnce DEF BufferInv
  <2>3. Buffer!TypeOK' /\ WakeInv'
    BY <1>2, <2>1 DEF BufferInv, Buffer!TypeOK, WakeInv
  <2> QED BY <2>2, <2>3 DEF BufferInv
<1> QED BY <1>1, <1>2, EnqueueInv, DequeueInv DEF Buffer!Next

\* What the property counts is what is woken.
LEMMA WakeIsNoLostWakeup == WakeInv => Buffer!NoLostWakeup
BY BufferCounts DEF WakeInv, Served, Buffer!NoLostWakeup
-----------------------------------------------------------------------------
(* The table: a job waits unattempted until one worker claims it, and no     *)
(* other ever does                                                           *)

TableInv ==
    /\ Table!DBTypeOK /\ Table!ExactlyOneWorker /\ Table!ClaimedInOrder
    /\ claims \in [TableWorkers -> (Nat \X Nat) \union {None}]
    /\ \A j \in Table!Ids : rows[j].status = "pending" => rows[j].attempts = 0

\* A new row comes last and waits.
LEMMA TableSubmit == ASSUME TableInv, Table!Submit PROVE TableInv'
<1> USE DEF TableInv, Table!DBTypeOK, Table!ExactlyOneWorker, Table!ClaimedInOrder
<1>1. /\ next_row \in Nat /\ next_row < TableJobs /\ TableJobs \in Nat /\ next_row' = next_row + 1
      /\ Table!Ids = 0 .. next_row - 1 /\ Table!Ids' = 0 .. next_row
      /\ rows \in [Table!Ids -> Table!Job] /\ claims' = claims
  BY TierConstants DEF Table!Submit, Table!Ids
<1>2. /\ \A j \in Table!Ids : j \in Table!Ids' /\ rows'[j] = rows[j] /\ j # next_row /\ j < next_row
      /\ next_row \in Table!Ids'
      /\ rows'[next_row] = [status |-> "pending", attempts |-> 0]
      /\ \A j \in Table!Ids' : j \in Table!Ids \/ j = next_row
      /\ rows' = [j \in Table!Ids' |-> rows'[j]]
  BY <1>1 DEF Table!Submit
<1>3. rows'[next_row] \in Table!Job /\ rows'[next_row].status = "pending"
      /\ rows'[next_row].attempts = 0
  BY <1>2 DEF Table!Job, Table!Status
<1>4. Table!DBTypeOK'
  <2>1. \A j \in Table!Ids' : rows'[j] \in Table!Job
    BY <1>1, <1>2, <1>3
  <2>2. rows' \in [Table!Ids' -> Table!Job]
    BY <1>2, <2>1
  <2> QED BY <1>1, <1>2, <2>2
<1>5. Table!ExactlyOneWorker'
  <2>1. \A j \in Table!Ids' : rows'[j].attempts <= 1
    BY <1>2, <1>3
  <2>2. \A w \in TableWorkers : claims[w] # None =>
           /\ rows'[claims[w][1]].status = "processing"
           /\ \A v \in TableWorkers : claims[v] # None /\ claims[v][1] = claims[w][1] => v = w
    BY <1>1, <1>2
  <2> QED BY <2>1, <2>2, <1>1
<1>6. Table!ClaimedInOrder'
  <2> SUFFICES ASSUME NEW i \in Table!Ids', NEW j \in Table!Ids', i < j,
                      rows'[i].status = "pending"
               PROVE  rows'[j].status = "pending"
    OBVIOUS
  <2>1. i \in Table!Ids
    BY <1>1
  <2> QED BY <1>2, <1>3, <2>1
<1>7. \A j \in Table!Ids' : rows'[j].status = "pending" => rows'[j].attempts = 0
  BY <1>2, <1>3
<1> QED BY <1>1, <1>4, <1>5, <1>6, <1>7

\* The row that waits longest is one worker's from now on.
LEMMA TableClaim == ASSUME TableInv, NEW w \in TableWorkers, Table!Claim(w) PROVE TableInv'
<1> USE DEF TableInv, Table!DBTypeOK, Table!ExactlyOneWorker, Table!ClaimedInOrder
<1>1. PICK j \in Table!Ids :
        /\ Table!FirstPending(j)
        /\ rows' = [rows EXCEPT ![j] = [status |-> "processing", attempts |-> @.attempts + 1]]
        /\ claims' = [claims EXCEPT ![w] = <<j, rows'[j].attempts>>]
        /\ next_row' = next_row
  BY DEF Table!Claim
<1>2. Table!Ids' = Table!Ids /\ j \in Nat
  BY <1>1 DEF Table!Ids
<1>3. rows[j].status = "pending" /\ rows[j].attempts = 0
  BY <1>1 DEF Table!FirstPending, Table!Pending
<1>4. /\ rows'[j].status = "processing" /\ rows'[j].attempts = 1
      /\ rows'[j] = [status |-> "processing", attempts |-> 1]
      /\ \A i \in Table!Ids : i # j => rows'[i] = rows[i]
  BY <1>1, <1>3
<1>5. /\ claims'[w] = <<j, 1>> /\ claims'[w] # None
      /\ \A v \in TableWorkers : v # w => claims'[v] = claims[v]
      /\ claims' \in [TableWorkers -> (Nat \X Nat) \union {None}]
  <2>1. claims' = [claims EXCEPT ![w] = <<j, 1>>]
    BY <1>1, <1>4
  <2>2. <<j, 1>> \in Nat \X Nat /\ <<j, 1>> # None
    BY <1>2, DBBackedQueueAssumption
  <2> QED BY <2>1, <2>2
<1>6. \A v \in TableWorkers : claims[v] # None => claims[v][1] # j /\ claims[v][1] \in Table!Ids
  BY <1>3
<1>7. Table!DBTypeOK'
  <2>1. [status |-> "processing", attempts |-> 1] \in Table!Job
    BY DEF Table!Job, Table!Status
  <2>2. rows' \in [Table!Ids -> Table!Job]
    BY <1>1, <1>3, <2>1
  <2>3. \A v \in TableWorkers : claims'[v] # None => claims'[v] \in Table!Ids \X Nat
    BY <1>5
  <2> QED BY <1>1, <1>2, <2>2, <2>3
<1>8. Table!ExactlyOneWorker'
  <2>1. \A i \in Table!Ids : rows'[i].attempts <= 1
    BY <1>4
  <2>2. ASSUME NEW v \in TableWorkers, claims'[v] # None
        PROVE  /\ rows'[claims'[v][1]].status = "processing"
               /\ \A u \in TableWorkers :
                     claims'[u] # None /\ claims'[u][1] = claims'[v][1] => u = v
    BY <2>2, <1>4, <1>5, <1>6
  <2> QED BY <1>2, <2>1, <2>2
<1>9. Table!ClaimedInOrder'
  <2> SUFFICES ASSUME NEW i \in Table!Ids, NEW k \in Table!Ids, i < k,
                      rows'[i].status = "pending"
               PROVE  rows'[k].status = "pending"
    BY <1>2
  <2>1. i # j /\ rows[i].status = "pending"
    BY <1>4
  <2>2. i \in Table!Pending /\ i \in Int /\ k \in Int
    BY <2>1 DEF Table!Pending, Table!Ids
  <2>3. j <= i /\ k # j
    BY <1>1, <2>2, <1>2 DEF Table!FirstPending
  <2> QED BY <2>1, <2>3, <1>4
<1>10. \A i \in Table!Ids : rows'[i].status = "pending" => rows'[i].attempts = 0
  BY <1>4
<1> QED BY <1>2, <1>5, <1>7, <1>8, <1>9, <1>10

\* Nobody else has the row for which a worker answers, or with which it dies.
LEMMA TableAnswer ==
    ASSUME TableInv, NEW w \in TableWorkers, Table!Complete(w) \/ Table!Fail(w) \/ Table!Die(w)
    PROVE  TableInv'
<1> USE DEF TableInv, Table!DBTypeOK, Table!ExactlyOneWorker, Table!ClaimedInOrder
<1>1. /\ claims[w] # None /\ claims' = [claims EXCEPT ![w] = None] /\ next_row' = next_row
      /\ Table!Ids' = Table!Ids
  BY DEF Table!Complete, Table!Fail, Table!Die, Table!Ids
<1>2. PICK j : j = claims[w][1]
  OBVIOUS
<1>3. j \in Table!Ids /\ rows[j].status = "processing" /\ rows[j] \in Table!Job
  BY <1>1, <1>2
<1>4. PICK status \in {"success", "failed", "processing"} :
         rows' = [rows EXCEPT ![j].status = status]
  <2>1. CASE Table!Complete(w)
    BY <1>2, <2>1 DEF Table!Complete
  <2>2. CASE Table!Fail(w)
    BY <1>2, <2>2 DEF Table!Fail
  <2>3. CASE Table!Die(w)
    <3>1. rows' = rows
      BY <2>3 DEF Table!Die
    <3>2. [rows[j] EXCEPT !.status = "processing"] = rows[j]
      BY <1>3 DEF Table!Job
    <3>3. rows = [rows EXCEPT ![j] = rows[j]]
      OBVIOUS
    <3> QED BY <3>1, <3>2, <3>3
  <2> QED BY <2>1, <2>2, <2>3
<1>5. /\ rows' \in [Table!Ids -> Table!Job]
      /\ rows'[j].status = status /\ rows'[j].attempts = rows[j].attempts
      /\ \A i \in Table!Ids : i # j => rows'[i] = rows[i]
  BY <1>3, <1>4 DEF Table!Job, Table!Status
<1>6. /\ claims'[w] = None /\ \A v \in TableWorkers : v # w => claims'[v] = claims[v]
      /\ claims' \in [TableWorkers -> (Nat \X Nat) \union {None}]
  BY <1>1
<1>7. \A v \in TableWorkers : v # w /\ claims[v] # None => claims[v][1] # j
  BY <1>1, <1>2
<1>8. Table!DBTypeOK'
  BY <1>1, <1>5, <1>6
<1>9. Table!ExactlyOneWorker'
  <2>1. \A i \in Table!Ids : rows'[i].attempts <= 1
    BY <1>3, <1>5
  <2>2. ASSUME NEW v \in TableWorkers, claims'[v] # None
        PROVE  /\ rows'[claims'[v][1]].status = "processing"
               /\ \A u \in TableWorkers :
                     claims'[u] # None /\ claims'[u][1] = claims'[v][1] => u = v
    BY <2>2, <1>5, <1>6, <1>7
  <2> QED BY <1>1, <2>1, <2>2
<1>10. Table!ClaimedInOrder'
  BY <1>1, <1>3, <1>5
<1>11. \A i \in Table!Ids : rows'[i].status = "pending" => rows'[i].attempts = 0
  BY <1>5
<1> QED BY <1>1, <1>6, <1>8, <1>9, <1>10, <1>11

\* Each job is one worker's, once, in the order of submission.
LEMMA TableInductive ==
    /\ Table!DBInit => TableInv
    /\ TableInv /\ [Table!DBNext]_(Table!dbvars) => TableInv'
<1>1. ASSUME Table!DBInit PROVE TableInv
  <2>1. /\ Table!Ids = {} /\ next_row = 0 /\ claims = [w \in TableWorkers |-> None]
        /\ rows \in [Table!Ids -> Table!Job]
    BY <1>1 DEF Table!DBInit, Table!Ids
  <2> QED BY <2>1, TierConstants
          DEF TableInv, Table!DBTypeOK, Table!ExactlyOneWorker, Table!ClaimedInOrder
<1>2. ASSUME TableInv, UNCHANGED Table!dbvars PROVE TableInv'
  BY <1>2 DEF Table!dbvars, TableInv, Table!DBTypeOK, Table!ExactlyOneWorker,
     Table!ClaimedInOrder, Table!Ids
<1> QED BY <1>1, <1>2, TableSubmit, TableClaim, TableAnswer DEF Table!DBNext
-----------------------------------------------------------------------------
(* The batched log: the buffer holds the latest events, in a row, and every  *)
(* event before them is durable                                              *)

\* how many events are no longer in the buffer
Synced == appended - Len(batch)

Occurrences(log, e) == {i \in 1 .. Len(log) : log[i] = e}

InARow ==
    /\ Len(batch) <= appended
    /\ \A i \in 1 .. Len(batch) : batch[i] = Synced + i

SyncedIsDurable == \A e \in 1 .. Synced : \E i \in 1 .. batch_durable : batch_records[i] = e

\* who is still in the buffer was written by broken flushes alone
TriesCounted ==
    \A e \in 1 .. appended :
        Cardinality(Occurrences(batch_records, e)) <= failures + (IF e <= Synced THEN 1 ELSE 0)

BatchedInv ==
    /\ Batched!TypeOK /\ Batched!FirstWrittenInOrder
    /\ InARow /\ SyncedIsDurable /\ TriesCounted

\* n events after the first ones were written to the log
Writes(log, new, first, n) ==
    /\ Len(new) = Len(log) + n
    /\ \A i \in 1 .. Len(log) : new[i] = log[i]
    /\ \A i \in 1 .. n : new[Len(log) + i] = first + i

\* each event after the one before it
InOrder(log) ==
    \A i \in 1 .. Len(log) : log[i] >= 2 => \E j \in 1 .. i - 1 : log[j] = log[i] - 1

OrderedUpTo(log, N) ==
    \A e \in 2 .. N : \A i \in 1 .. Len(log) :
        log[i] = e => \E j \in 1 .. i - 1 : log[j] = e - 1

\* A write of a part of the buffer, which holds the events in a row.
LEMMA WritesARow ==
    ASSUME NEW log \in Seq(Nat), NEW b \in Seq(Nat), NEW first \in Nat, NEW n \in 0 .. Len(b),
           \A i \in 1 .. Len(b) : b[i] = first + i
    PROVE  /\ Writes(log, log \o SubSeq(b, 1, n), first, n)
           /\ Writes(log, log \o b, first, Len(b))
<1>1. Len(b) \in Nat /\ Len(log) \in Nat
  OBVIOUS
<1>2. /\ SubSeq(b, 1, n) \in Seq(Nat) /\ Len(SubSeq(b, 1, n)) = n
      /\ \A i \in 1 .. n : SubSeq(b, 1, n)[i] = b[i] /\ i \in 1 .. Len(b)
  BY <1>1
<1>3. \A c \in Seq(Nat) : /\ Len(log \o c) = Len(log) + Len(c)
                          /\ \A i \in 1 .. Len(log) : (log \o c)[i] = log[i]
                          /\ \A i \in 1 .. Len(c) : (log \o c)[Len(log) + i] = c[i]
  OBVIOUS
<1>4. Writes(log, log \o SubSeq(b, 1, n), first, n)
  BY <1>2, <1>3 DEF Writes
<1>5. Writes(log, log \o b, first, Len(b))
  BY <1>3 DEF Writes
<1> QED BY <1>4, <1>5

\* Such a write adds one occurrence of the events it writes, and of no other.
LEMMA WriteOnce ==
    ASSUME NEW log \in Seq(Nat), NEW new \in Seq(Nat), NEW first \in Nat, NEW n \in Nat,
           Writes(log, new, first, n), NEW e \in Nat
    PROVE  /\ Cardinality(Occurrences(log, e)) \in Nat
           /\ Cardinality(Occurrences(new, e)) \in Nat
           /\ Cardinality(Occurrences(new, e)) <= Cardinality(Occurrences(log, e)) + 1
           /\ e <= first \/ e > first + n =>
                 Cardinality(Occurrences(new, e)) = Cardinality(Occurrences(log, e))
<1>1. Len(log) \in Nat /\ Len(new) \in Nat
  OBVIOUS
<1>2. /\ IsFiniteSet(Occurrences(log, e)) /\ IsFiniteSet(Occurrences(new, e))
      /\ Cardinality(Occurrences(log, e)) \in Nat /\ Cardinality(Occurrences(new, e)) \in Nat
  <2>1. IsFiniteSet(1 .. Len(log)) /\ IsFiniteSet(1 .. Len(new))
    BY <1>1, FS_Interval
  <2>2. Occurrences(log, e) \subseteq 1 .. Len(log) /\ Occurrences(new, e) \subseteq 1 .. Len(new)
    BY DEF Occurrences
  <2> QED BY <2>1, <2>2, FS_Subset, FS_CardinalityType
<1>3. \A i \in 1 .. Len(new) :
         i \notin 1 .. Len(log) => i - Len(log) \in 1 .. n /\ new[i] = first + (i - Len(log))
  <2> SUFFICES ASSUME NEW i \in 1 .. Len(new), i \notin 1 .. Len(log)
               PROVE  i - Len(log) \in 1 .. n /\ new[i] = first + (i - Len(log))
    OBVIOUS
  <2>1. i - Len(log) \in 1 .. n /\ Len(log) + (i - Len(log)) = i
    BY <1>1 DEF Writes
  <2> QED BY <2>1 DEF Writes
<1>4. \A i \in 1 .. Len(log) : i \in 1 .. Len(new) /\ new[i] = log[i]
  BY <1>1 DEF Writes
<1>5. CASE e <= first \/ e > first + n
  <2>1. Occurrences(new, e) = Occurrences(log, e)
    <3>1. ASSUME NEW i \in 1 .. Len(new), new[i] = e PROVE i \in 1 .. Len(log)
      <4>1. SUFFICES ASSUME i \notin 1 .. Len(log) PROVE FALSE
        OBVIOUS
      <4>2. i - Len(log) \in 1 .. n /\ e = first + (i - Len(log))
        BY ONLY <1>3, <3>1, <4>1
      <4> QED BY ONLY <1>5, <4>2, n \in Nat, first \in Nat, e \in Nat
    <3>2. \A i : i \in 1 .. Len(new) /\ new[i] = e <=> i \in 1 .. Len(log) /\ log[i] = e
      BY ONLY <1>4, <3>1
    <3> QED BY ONLY <3>2 DEF Occurrences
  <2> QED BY <1>2, <2>1
<1>6. CASE ~(e <= first \/ e > first + n)
  <2>1. PICK i : i = Len(log) + (e - first)
    OBVIOUS
  <2>2. Occurrences(new, e) = Occurrences(log, e) \union {i}
    <3>1. i \in 1 .. Len(new) /\ new[i] = e
      <4>1. e - first \in 1 .. n /\ first + (e - first) = e
        BY <1>6
      <4>2. new[Len(log) + (e - first)] = e /\ Len(new) = Len(log) + n
        BY <4>1 DEF Writes
      <4>3. i \in 1 .. Len(log) + n
        BY ONLY <1>1, <2>1, <4>1, n \in Nat
      <4> QED BY ONLY <2>1, <4>2, <4>3
    <3>2. ASSUME NEW k \in Occurrences(new, e), k \notin Occurrences(log, e) PROVE k = i
      <4>1. k \in 1 .. Len(new) /\ new[k] = e /\ k \notin 1 .. Len(log)
        BY <1>4, <3>2 DEF Occurrences
      <4>2. PICK d : d = k - Len(log)
        OBVIOUS
      <4>3. d \in 1 .. n /\ e = first + d
        BY <1>3, <4>1, <4>2
      <4>4. k = Len(log) + d
        BY <1>1, <4>1, <4>2
      <4> QED BY <1>1, <2>1, <4>3, <4>4
    <3>3. Occurrences(log, e) \subseteq Occurrences(new, e)
      BY <1>4 DEF Occurrences
    <3>4. i \in Occurrences(new, e)
      BY <3>1 DEF Occurrences
    <3> QED BY <3>2, <3>3, <3>4
  <2>3. i \notin Occurrences(log, e)
    BY <1>1, <1>6, <2>1 DEF Occurrences
  <2>4. Cardinality(Occurrences(new, e)) = Cardinality(Occurrences(log, e)) + 1
    BY <1>2, <2>2, <2>3, FS_AddElement
  <2> QED BY <1>2, <1>6, <2>4
<1> QED BY <1>5, <1>6

\* What comes first in the log stays first when the next events are written
\* after all earlier ones.
LEMMA WriteInOrder ==
    ASSUME NEW log \in Seq(Nat), NEW new \in Seq(Nat), NEW first \in Nat, NEW n \in Nat,
           Writes(log, new, first, n),
           InOrder(log),
           first >= 1 => \E i \in 1 .. Len(log) : log[i] = first
    PROVE  InOrder(new)
<1> SUFFICES ASSUME NEW i \in 1 .. Len(new), new[i] >= 2
             PROVE  \E j \in 1 .. i - 1 : new[j] = new[i] - 1
  BY DEF InOrder
<1>1. Len(log) \in Nat /\ Len(new) = Len(log) + n
  BY DEF Writes
<1>2. CASE i \in 1 .. Len(log)
  <2>1. PICK j \in 1 .. i - 1 : log[j] = log[i] - 1
    BY <1>2 DEF Writes, InOrder
  <2>2. j \in 1 .. Len(log)
    BY <1>1, <1>2
  <2> QED BY <1>2, <2>1, <2>2 DEF Writes
<1>3. CASE i = Len(log) + 1
  <2>1. new[i] = first + 1 /\ first >= 1
    <3>1. 1 \in 1 .. n
      BY <1>1, <1>3
    <3> QED BY <1>3, <3>1 DEF Writes
  <2>2. PICK j \in 1 .. Len(log) : log[j] = first
    BY <2>1
  <2>3. new[j] = first /\ first = new[i] - 1
    BY SMTT(30), <2>1, <2>2 DEF Writes
  <2>4. j \in 1 .. i - 1
    BY <1>1, <1>3
  <2> QED BY <2>3, <2>4
<1>4. CASE i > Len(log) + 1
  <2>1. PICK k : k = i - Len(log)
    OBVIOUS
  <2>2. k \in 1 .. n /\ k - 1 \in 1 .. n /\ i = Len(log) + k /\ i - 1 = Len(log) + (k - 1)
        /\ i - 1 \in 1 .. i - 1
    BY SMTT(30), <1>1, <1>4, <2>1
  <2>3. new[i] = first + k /\ new[i - 1] = first + (k - 1)
    BY <2>2 DEF Writes
  <2>4. first + (k - 1) = (first + k) - 1
    BY <2>2
  <2> QED BY <2>2, <2>3, <2>4
<1>5. i \in 1 .. Len(log) \/ i = Len(log) + 1 \/ i > Len(log) + 1
  BY <1>1
<1> QED BY <1>2, <1>3, <1>4, <1>5

\* FirstWrittenInOrder, of a log.
LEMMA OrderOfLog ==
    ASSUME NEW N \in Nat, NEW log \in Seq(1 .. N)
    PROVE  OrderedUpTo(log, N) <=> InOrder(log)
<1>1. \A i \in 1 .. Len(log) : log[i] \in 1 .. N /\ (log[i] >= 2 => log[i] \in 2 .. N)
  OBVIOUS
<1> QED BY SMTT(30), <1>1 DEF OrderedUpTo, InOrder

\* The property in the present and in the next state.
LEMMA OrderIsOrder ==
    /\ Batched!FirstWrittenInOrder <=> OrderedUpTo(batch_records, appended)
    /\ Batched!FirstWrittenInOrder' <=> OrderedUpTo(batch_records', appended')
BY DEF Batched!FirstWrittenInOrder, OrderedUpTo

\* A log gains events that are no others than the buffer's.
LEMMA LogGrows ==
    ASSUME NEW S, NEW log \in Seq(S), NEW b \in Seq(S), NEW n \in 0 .. Len(b)
    PROVE  log \o SubSeq(b, 1, n) \in Seq(S) /\ log \o b \in Seq(S)
<1>1. SubSeq(b, 1, n) \in Seq(S)
  OBVIOUS
<1> QED BY <1>1

\* Events that were never appended were never written.
LEMMA TriesOfAll ==
    ASSUME BatchedInv, NEW e \in Nat, e >= 1
    PROVE  Cardinality(Occurrences(batch_records, e)) <= failures + (IF e <= Synced THEN 1 ELSE 0)
<1>1. CASE e \in 1 .. appended
  BY <1>1 DEF BatchedInv, TriesCounted
<1>2. CASE e \notin 1 .. appended
  <2>1. batch_records \in Seq(1 .. appended) /\ failures \in Nat /\ appended \in Nat
    BY TierConstants DEF BatchedInv, Batched!TypeOK, Batched!BatchedLoggerConstants
  <2>2. \A i \in 1 .. Len(batch_records) : batch_records[i] \in 1 .. appended
    BY <2>1
  <2>3. Occurrences(batch_records, e) = {}
    BY <2>2, <1>2 DEF Occurrences
  <2>4. Cardinality(Occurrences(batch_records, e)) = 0
    BY <2>3, FS_EmptySet
  <2> QED BY <2>1, <2>4
<1> QED BY <1>1, <1>2

\* A flush of the whole buffer, or a part of it, or none: whatever becomes of
\* it, each event is durable or still in the buffer, in its place.
LEMMA BatchKept ==
    ASSUME BatchedInv, NEW b \in Seq(Nat), NEW first \in Nat, first = Synced,
           \A i \in 1 .. Len(b) : b[i] = first + i,
           NEW total \in 0 .. MaxEvents, total = first + Len(b), appended' = total,
           appended <= total,
           \/ batch' = b /\ UNCHANGED <<failures, batch_records, batch_durable>>
           \/ Batched!Flushed(b)
           \/ Batched!BrokenOff(b)
    PROVE  BatchedInv'
<1> USE DEF BatchedInv
<1>1. /\ appended \in Nat /\ first <= appended /\ MaxEvents \in Nat /\ MaxFailures \in Nat
      /\ failures \in 0 .. MaxFailures
      /\ batch_records \in Seq(1 .. appended) /\ batch_records \in Seq(Nat)
      /\ batch_records \in Seq(1 .. total)
      /\ batch_durable \in 0 .. Len(batch_records) /\ Len(batch_records) \in Nat
      /\ Len(b) \in Nat /\ b \in Seq(1 .. total) /\ total \in Nat
  <2>1. /\ appended \in Nat /\ MaxEvents \in Nat /\ MaxFailures \in Nat /\ total \in Nat
        /\ batch_records \in Seq(1 .. appended) /\ batch \in Seq(1 .. appended)
        /\ Len(b) \in Nat /\ failures \in 0 .. MaxFailures
        /\ batch_durable \in 0 .. Len(batch_records)
    BY TierConstants DEF Batched!TypeOK, Batched!BatchedLoggerConstants
  <2>2. Len(batch_records) \in Nat /\ Len(batch) \in Nat
    BY <2>1
  <2>3. first <= appended
    BY <2>1, <2>2 DEF InARow, Synced
  <2>4. 1 .. appended \subseteq 1 .. total /\ 1 .. appended \subseteq Nat
    BY <2>1
  <2>5. \A S, T : S \subseteq T => \A s \in Seq(S) : s \in Seq(T)
    OBVIOUS
  <2>6. batch_records \in Seq(1 .. total) /\ batch_records \in Seq(Nat)
    BY <2>1, <2>4, <2>5
  <2>7. \A i \in 1 .. Len(b) : b[i] \in 1 .. total
    BY SMTT(30), <2>1
  <2>8. b \in Seq(1 .. total)
    BY <2>7
  <2> QED BY <2>1, <2>2, <2>3, <2>6, <2>8
<1>2. /\ InOrder(batch_records)
      /\ first >= 1 => \E i \in 1 .. Len(batch_records) : batch_records[i] = first
  <2>1. first >= 1 => first \in 1 .. Synced
    OBVIOUS
  <2>2. 1 .. batch_durable \subseteq 1 .. Len(batch_records)
    BY <1>1
  <2> QED BY <1>1, <2>1, <2>2, OrderOfLog, OrderIsOrder DEF SyncedIsDurable
<1>3. CASE batch' = b /\ UNCHANGED <<failures, batch_records, batch_durable>>
  <2>1. Synced' = first
    BY <1>1, <1>3 DEF Synced
  <2>2. Batched!TypeOK'
    BY <1>1, <1>3 DEF Batched!TypeOK
  <2>3. Batched!FirstWrittenInOrder'
    BY <1>1, <1>2, <1>3, OrderOfLog, OrderIsOrder
  <2>4. InARow' /\ SyncedIsDurable'
    BY <1>1, <1>3, <2>1 DEF InARow, SyncedIsDurable
  <2>5. TriesCounted'
    <3> SUFFICES ASSUME NEW e \in 1 .. total
                 PROVE  Cardinality(Occurrences(batch_records, e))
                           <= failures + (IF e <= first THEN 1 ELSE 0)
      BY <1>3, <2>1 DEF TriesCounted, Occurrences
    <3> QED BY <1>1, TriesOfAll
  <2> QED BY <2>2, <2>3, <2>4, <2>5
<1>4. ASSUME NEW n \in 0 .. Len(b),
             \/ batch_records' = batch_records \o SubSeq(b, 1, n)
             \/ batch_records' = batch_records \o b /\ n = Len(b)
      PROVE  /\ batch_records' \in Seq(1 .. total) /\ batch_records' \in Seq(Nat)
             /\ Writes(batch_records, batch_records', first, n)
             /\ Len(batch_records') \in Nat /\ Len(batch_records') = Len(batch_records) + n
             /\ Batched!FirstWrittenInOrder'
  <2>1. batch_records' \in Seq(1 .. total)
    BY ZenonT(60), <1>1, <1>4, LogGrows
  <2>2. 1 .. total \subseteq Nat
    BY <1>1
  <2>3. batch_records' \in Seq(Nat)
    BY <2>1, <2>2
  <2>4. Writes(batch_records, batch_records', first, n)
    BY <1>1, <1>4, WritesARow
  <2>5. Len(batch_records') = Len(batch_records) + n /\ Len(batch_records') \in Nat
    BY <2>3, <2>4 DEF Writes
  <2>6. InOrder(batch_records')
    <3>1. n \in Nat
      BY <1>1
    <3> QED BY <1>1, <1>2, <2>3, <2>4, <3>1, WriteInOrder
  <2>7. Batched!FirstWrittenInOrder'
    BY <1>1, <2>1, <2>6, OrderOfLog, OrderIsOrder
  <2> QED BY <2>1, <2>3, <2>4, <2>5, <2>7
<1>5. CASE Batched!Flushed(b)
  <2>1. /\ batch_records' = batch_records \o b /\ batch_durable' = Len(batch_records')
        /\ batch' = <<>> /\ failures' = failures
    BY <1>5 DEF Batched!Flushed
  <2>2. PICK n : n = Len(b)
    OBVIOUS
  <2>3. /\ n \in 0 .. Len(b) /\ n \in Nat
        /\ batch_records' \in Seq(1 .. total) /\ batch_records' \in Seq(Nat)
        /\ Writes(batch_records, batch_records', first, n)
        /\ Len(batch_records') = Len(batch_records) + n /\ Batched!FirstWrittenInOrder'
    BY SMTT(30), <1>1, <1>4, <2>1, <2>2
  <2>4. Synced' = total
    BY <1>1, <2>1 DEF Synced
  <2>5. /\ Len(batch_records) \in Nat /\ batch_durable \in 0 .. Len(batch_records)
        /\ Len(batch_records') = Len(batch_records) + n /\ n \in Nat
        /\ first \in Nat /\ total = first + n
    BY <1>1, <2>2, <2>3
  <2>6. Batched!TypeOK'
    BY <1>1, <2>1, <2>3 DEF Batched!TypeOK
  <2>7. InARow'
    BY <1>1, <2>1 DEF InARow
  <2>8. SyncedIsDurable'
    <3> SUFFICES ASSUME NEW e \in 1 .. total
                 PROVE  \E i \in 1 .. Len(batch_records') : batch_records'[i] = e
      BY <2>1, <2>4 DEF SyncedIsDurable
    <3>1. CASE e <= first
      <4>1. PICK i \in 1 .. batch_durable : batch_records[i] = e
        BY <3>1 DEF SyncedIsDurable
      <4>2. i \in 1 .. Len(batch_records) /\ i \in 1 .. Len(batch_records')
        BY ONLY <2>5, i \in 1 .. batch_durable
      <4> QED BY <4>1, <4>2, <2>3 DEF Writes
    <3>2. CASE e > first
      <4>1. /\ e - first \in 1 .. n /\ first + (e - first) = e
            /\ Len(batch_records) + (e - first) \in 1 .. Len(batch_records')
        BY ONLY <2>5, <3>2, e \in 1 .. total
      <4> QED BY <4>1, <2>3 DEF Writes
    <3> QED BY <1>1, <3>1, <3>2
  <2>9. TriesCounted'
    <3> SUFFICES ASSUME NEW e \in 1 .. total
                 PROVE  Cardinality(Occurrences(batch_records', e)) <= failures + 1
      <4>1. ASSUME NEW e \in 1 .. total PROVE e <= total
        BY <1>1
      <4> QED BY <2>1, <2>4, <4>1 DEF TriesCounted, Occurrences
    <3>1. PICK old, new : old = Cardinality(Occurrences(batch_records, e))
                          /\ new = Cardinality(Occurrences(batch_records', e))
      OBVIOUS
    <3>2. /\ old \in Nat /\ new \in Nat /\ new <= old + 1
          /\ e <= first \/ e > first + n => new = old
      BY <1>1, <2>3, <3>1, WriteOnce
    <3>3. old <= failures + (IF e <= first THEN 1 ELSE 0)
      BY <1>1, <3>1, TriesOfAll
    <3> QED BY SMTT(30), <1>1, <3>1, <3>2, <3>3
  <2> QED BY <2>3, <2>6, <2>7, <2>8, <2>9
<1>6. CASE Batched!BrokenOff(b)
  <2>1. PICK n \in 0 .. Len(b) : batch_records' = batch_records \o SubSeq(b, 1, n)
    BY <1>6 DEF Batched!BrokenOff
  <2>2. /\ batch' = b /\ failures' = failures + 1 /\ failures < MaxFailures
        /\ batch_durable' = batch_durable
    BY <1>6 DEF Batched!BrokenOff
  <2>3. /\ batch_records' \in Seq(1 .. total) /\ batch_records' \in Seq(Nat)
        /\ Writes(batch_records, batch_records', first, n)
        /\ Len(batch_records') = Len(batch_records) + n /\ Batched!FirstWrittenInOrder'
    BY <1>4, <2>1
  <2>4. Synced' = first
    BY <1>1, <2>2 DEF Synced
  <2>5. /\ Len(batch_records) \in Nat /\ batch_durable \in 0 .. Len(batch_records)
        /\ Len(batch_records') = Len(batch_records) + n /\ n \in Nat
        /\ failures \in Nat /\ failures < MaxFailures /\ MaxFailures \in Nat
    BY <1>1, <2>2, <2>3
  <2>6. Batched!TypeOK'
    <3>1. batch_durable \in 0 .. Len(batch_records') /\ failures + 1 \in 0 .. MaxFailures
      BY ONLY <2>5
    <3> QED BY <1>1, <2>2, <2>3, <3>1 DEF Batched!TypeOK
  <2>7. InARow'
    BY <1>1, <2>2, <2>4 DEF InARow
  <2>8. SyncedIsDurable'
    <3> SUFFICES ASSUME NEW e \in 1 .. first
                 PROVE  \E i \in 1 .. batch_durable : batch_records'[i] = e
      BY <2>2, <2>4 DEF SyncedIsDurable
    <3>1. PICK i \in 1 .. batch_durable : batch_records[i] = e
      BY DEF SyncedIsDurable
    <3>2. i \in 1 .. Len(batch_records)
      BY ONLY <2>5, i \in 1 .. batch_durable
    <3> QED BY <3>1, <3>2, <2>3 DEF Writes
  <2>9. TriesCounted'
    <3> SUFFICES ASSUME NEW e \in 1 .. total
                 PROVE  Cardinality(Occurrences(batch_records', e))
                           <= (failures + 1) + (IF e <= first THEN 1 ELSE 0)
      BY <2>2, <2>4 DEF TriesCounted, Occurrences
    <3>1. PICK old, new : old = Cardinality(Occurrences(batch_records, e))
                          /\ new = Cardinality(Occurrences(batch_records', e))
      OBVIOUS
    <3>2. /\ old \in Nat /\ new \in Nat /\ new <= old + 1
          /\ e <= first \/ e > first + n => new = old
      BY <1>1, <2>3, <2>5, <3>1, WriteOnce
    <3>3. old <= failures + (IF e <= first THEN 1 ELSE 0)
      BY <1>1, <3>1, TriesOfAll
    <3> QED BY SMTT(30), <2>5, <3>1, <3>2, <3>3
  <2> QED BY <2>3, <2>6, <2>7, <2>8, <2>9
<1> QED BY <1>3, <1>5, <1>6
\* No event is lost, only the retries of broken flushes repeat one, and the
\* log is in order.
LEMMA BatchedInductive ==
    /\ Batched!Init => BatchedInv
    /\ BatchedInv /\ [Batched!Next]_(Batched!vars) => BatchedInv'
    /\ BatchedInv => Batched!NothingIsLost /\ Batched!OncePerAttempt
<1>1. ASSUME Batched!Init PROVE BatchedInv
  <2>1. /\ batch = <<>> /\ appended = 0 /\ failures = 0 /\ batch_records = <<>>
        /\ batch_durable = 0 /\ MaxEvents \in Nat /\ MaxFailures \in Nat
    BY <1>1, TierConstants DEF Batched!Init, Batched!BatchedLoggerConstants
  <2>2. Synced = 0
    <3>1. Len(<<>>) = 0
      OBVIOUS
    <3>2. appended = 0 /\ Len(batch) = 0
      BY <2>1, <3>1
    <3> QED BY <3>2 DEF Synced
  <2>3. Batched!TypeOK
    BY <2>1 DEF Batched!TypeOK
  <2> QED BY <2>1, <2>2, <2>3 DEF BatchedInv, Batched!FirstWrittenInOrder, InARow, SyncedIsDurable,
          TriesCounted
<1>2. ASSUME BatchedInv
      PROVE  /\ Synced \in Nat /\ appended \in 0 .. MaxEvents /\ MaxEvents \in Nat
             /\ batch \in Seq(Nat) /\ Len(batch) \in Nat /\ appended = Synced + Len(batch)
             /\ \A i \in 1 .. Len(batch) : batch[i] = Synced + i
  <2>1. /\ appended \in 0 .. MaxEvents /\ MaxEvents \in Nat /\ batch \in Seq(1 .. appended)
        /\ Len(batch) <= appended /\ \A i \in 1 .. Len(batch) : batch[i] = Synced + i
    BY <1>2, TierConstants DEF BatchedInv, InARow, Batched!TypeOK, Batched!BatchedLoggerConstants
  <2>2. 1 .. appended \subseteq Nat
    BY <2>1
  <2>3. batch \in Seq(Nat) /\ Len(batch) \in Nat
    BY <2>1, <2>2
  <2> QED BY <2>1, <2>3 DEF Synced
<1>3. ASSUME BatchedInv, Batched!Append_ PROVE BatchedInv'
  <2>1. PICK first, b : first = Synced /\ b = Append(batch, appended + 1)
    OBVIOUS
  <2>2. /\ b \in Seq(Nat) /\ Len(b) = Len(batch) + 1 /\ b[Len(batch) + 1] = appended + 1
        /\ \A i \in 1 .. Len(batch) : b[i] = batch[i]
    BY <1>2, <1>3, <2>1
  <2>3. \A i \in 1 .. Len(b) : b[i] = first + i
    <3> SUFFICES ASSUME NEW i \in 1 .. Len(b) PROVE b[i] = first + i
      OBVIOUS
    <3>1. CASE i \in 1 .. Len(batch)
      BY <1>2, <1>3, <2>1, <2>2, <3>1
    <3>2. CASE i = Len(batch) + 1
      BY <1>2, <1>3, <2>1, <2>2, <3>2
    <3> QED BY <1>2, <1>3, <2>2, <3>1, <3>2
  <2>4. /\ appended + 1 \in 0 .. MaxEvents /\ appended + 1 = first + Len(b)
        /\ appended <= appended + 1 /\ first \in Nat
    BY <1>2, <1>3, <2>1, <2>2 DEF Batched!Append_
  <2>5. /\ appended' = appended + 1
        /\ \/ batch' = b /\ UNCHANGED <<failures, batch_records, batch_durable>>
           \/ Batched!Flushed(b)
           \/ Batched!BrokenOff(b)
    BY <1>3, <2>1 DEF Batched!Append_
  <2> QED BY <1>3, <2>1, <2>2, <2>3, <2>4, <2>5, BatchKept
<1>4. ASSUME BatchedInv, Batched!Flush PROVE BatchedInv'
  <2>1. PICK first : first = Synced
    OBVIOUS
  <2>2. /\ first \in Nat /\ appended \in 0 .. MaxEvents /\ batch \in Seq(Nat)
        /\ appended = first + Len(batch) /\ appended <= appended
        /\ \A i \in 1 .. Len(batch) : batch[i] = first + i
    BY <1>2, <1>4, <2>1
  <2>3. appended' = appended /\ (Batched!Flushed(batch) \/ Batched!BrokenOff(batch))
    BY <1>4 DEF Batched!Flush
  <2> QED BY <1>4, <2>1, <2>2, <2>3, BatchKept
<1>5. ASSUME BatchedInv, UNCHANGED Batched!vars PROVE BatchedInv'
  BY ZenonT(60), <1>5 DEF Batched!vars, BatchedInv, Batched!TypeOK, Batched!FirstWrittenInOrder, InARow,
     SyncedIsDurable, TriesCounted, Synced, Occurrences
<1>6. ASSUME BatchedInv PROVE Batched!NothingIsLost
  <2> SUFFICES ASSUME NEW e \in 1 .. appended, e \notin 1 .. Synced
               PROVE  \E i \in 1 .. Len(batch) : batch[i] = e
    BY <1>6 DEF Batched!NothingIsLost, BatchedInv, SyncedIsDurable
  <2>1. e - Synced \in 1 .. Len(batch) /\ Synced + (e - Synced) = e
    BY <1>2, <1>6
  <2> QED BY <1>2, <1>6, <2>1
<1>7. ASSUME BatchedInv PROVE Batched!OncePerAttempt
  <2>1. \A S : Batched!Cardinality(S) = Cardinality(S)
    BY DEF Batched!Cardinality, Cardinality
  <2>2. failures \in Nat
    BY <1>7, TierConstants DEF BatchedInv, Batched!TypeOK, Batched!BatchedLoggerConstants
  <2> SUFFICES ASSUME NEW e \in 1 .. appended
               PROVE  Cardinality(Occurrences(batch_records, e)) <= failures + 1
    BY <2>1 DEF Batched!OncePerAttempt, Occurrences
  <2>3. appended \in Nat
    BY <1>2, <1>7
  <2>4. IsFiniteSet(1 .. Len(batch_records))
    BY <1>7, FS_Interval DEF BatchedInv, Batched!TypeOK
  <2>5. Cardinality(Occurrences(batch_records, e)) \in Nat
    BY <2>4, FS_Subset, FS_CardinalityType DEF Occurrences
  <2>6. Cardinality(Occurrences(batch_records, e)) <= failures + (IF e <= Synced THEN 1 ELSE 0)
    BY <1>7 DEF BatchedInv, TriesCounted
  <2> QED BY <2>2, <2>5, <2>6
<1> QED BY <1>1, <1>3, <1>4, <1>5, <1>6, <1>7 DEF Batched!Next
-----------------------------------------------------------------------------
(* All of them: whichever a program constructs *)

\* For any number of threads, workers, jobs and items: the buffer loses no
\* wake-up and no item, and table and API give each job to one worker, once.
THEOREM QueuesAreSoundAlways == PipelinesSpec => []QueuesAreSound
<1> DEFINE Inv == IInv /\ BufferInv /\ TableInv /\ API!HandledInv
<1>1. PipelinesInit => Inv
  BY PipelinesTakeSteps, InitIInv, BufferInductive, TableInductive, API!HandledInitInv
<1>2. Inv /\ [PipelinesNext]_all => Inv'
  BY PipelinesTakeSteps, StepIInv, BufferInductive, TableInductive, API!HandledStepInv
<1>3. Inv => QueuesAreSound
  BY WakeIsNoLostWakeup, API!PlacesCount, TierConstants
     DEF QueuesAreSound, IInv, BufferInv, TableInv
<1> QED BY <1>1, <1>2, <1>3, PTL DEF PipelinesSpec

\* For any batch size and however many flushes the sink breaks off, no event
\* of the batched logger is lost, and only a retry repeats one.
THEOREM BatchedLogIsSoundAlways == PipelinesSpec => []BatchedLogIsSound
<1> DEFINE Inv == LogInv /\ BatchedInv
<1>1. PipelinesInit => Inv
  BY PipelinesTakeSteps, LogInitInv, BatchedInductive
<1>2. Inv /\ [PipelinesNext]_all => Inv'
  BY PipelinesTakeSteps, LogStepInv, BatchedInductive
<1>3. Inv => BatchedLogIsSound
  BY BatchedInductive DEF BatchedLogIsSound, BatchedInv, LogInv
<1> QED BY <1>1, <1>2, <1>3, PTL DEF PipelinesSpec

\* A retried submit creates nothing once the first one was answered, for any
\* number of clients, request ids and threads of the server.
THEOREM RetriesCreateNothingAlways == PipelinesSpec => []RetriesCreateNothing
<1>1. PipelinesInit => API!APIInv
  BY PipelinesTakeSteps, API!APIInitInv, TierConstants
<1>2. API!APIInv /\ [PipelinesNext]_all => API!APIInv'
  BY PipelinesTakeSteps, API!APIStepInv, TierConstants
<1>3. API!APIInv => RetriesCreateNothing
  BY DEF API!APIInv, RetriesCreateNothing
<1> QED BY <1>1, <1>2, <1>3, PTL DEF PipelinesSpec
=============================================================================
