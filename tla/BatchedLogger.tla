--------------------------- MODULE BatchedLogger ---------------------------
(***************************************************************************)
(* Tier 2 of event_logger: events gather in a buffer and are synced once   *)
(* for a batch.  One thread, but a sink whose write or fsync may raise in  *)
(* the middle of a flush.  Events are numbered as they are appended.       *)
(***************************************************************************)
EXTENDS Integers, Sequences, FiniteSets

CONSTANTS
    BatchSize,
    MaxEvents,      \* bound: events appended
    MaxFailures     \* bound: flushes that the sink breaks off

\* what the constants must be
BatchedLoggerConstants ==
    BatchSize \in Nat \ {0} /\ MaxEvents \in Nat /\ MaxFailures \in Nat

VARIABLES
    buffer,
    appended,       \* how many events have been appended
    failures,       \* how many flushes have raised
    records,        \* the sink: what has been written, and how many of it
    durable_upto    \* fsync has put on stable storage

vars == <<buffer, appended, failures, records, durable_upto>>

Init ==
    /\ buffer = <<>> /\ appended = 0 /\ failures = 0
    /\ records = <<>> /\ durable_upto = 0

\* a flush of the events b
Flushed(b) ==
    /\ records' = records \o b
    /\ durable_upto' = Len(records')
    /\ buffer' = <<>>
    /\ UNCHANGED failures

\* the buffer is cleared whatever becomes of the flush
BrokenOffCleared(b) ==
    /\ failures < MaxFailures
    /\ \E n \in 0 .. Len(b) : records' = records \o SubSeq(b, 1, n)
    /\ buffer' = <<>>
    /\ failures' = failures + 1
    /\ UNCHANGED durable_upto

\* a flush of b that raises in a write or in fsync: the buffer is kept, and
\* so is what has been written
BrokenOff(b) ==
    /\ failures < MaxFailures
    /\ \E n \in 0 .. Len(b) : records' = records \o SubSeq(b, 1, n)
    /\ buffer' = b
    /\ failures' = failures + 1
    /\ UNCHANGED durable_upto

IsFull(b) == Len(b) >= BatchSize

Append_ ==
    /\ appended < MaxEvents
    /\ appended' = appended + 1
    /\ LET b == Append(buffer, appended + 1) IN
       \/ ~IsFull(b) /\ buffer' = b /\ UNCHANGED <<failures, records, durable_upto>>
       \/ IsFull(b) /\ (Flushed(b) \/ BrokenOff(b))

Flush ==
    /\ buffer # <<>>
    /\ Flushed(buffer) \/ BrokenOff(buffer)
    /\ UNCHANGED appended

Next == Append_ \/ Flush

Spec == Init /\ [][Next]_vars

-----------------------------------------------------------------------------
(* Properties *)

\* Every variable has its type.
TypeOK ==
    /\ appended \in 0 .. MaxEvents /\ failures \in 0 .. MaxFailures
    /\ buffer \in Seq(1 .. appended) /\ records \in Seq(1 .. appended)
    /\ durable_upto \in 0 .. Len(records)

\* "buffered-but-unflushed events are NOT durable", and they are the only
\* ones: an event that no fsync has covered waits in the buffer for the next
\* flush, also when flushes were broken off.
NothingIsLost ==
    \A e \in 1 .. appended :
        (\E i \in 1 .. durable_upto : records[i] = e) \/ (\E i \in 1 .. Len(buffer) : buffer[i] = e)

\* An event is written again only by the retry of a flush that was broken off.
OncePerAttempt ==
    \A e \in 1 .. appended : Cardinality({i \in 1 .. Len(records) : records[i] = e}) <= failures + 1

\* Whatever was written twice, the log is in the order of the appends.
FirstWrittenInOrder ==
    \A e \in 2 .. appended : \A i \in 1 .. Len(records) :
        records[i] = e => \E j \in 1 .. i - 1 : records[j] = e - 1
=============================================================================
