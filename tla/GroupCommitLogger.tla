-------------------------- MODULE GroupCommitLogger --------------------------
(***************************************************************************)
(* Tier 3 of event_logger: appenders that block until their event is on    *)
(* stable storage, and one flusher thread that writes whatever has         *)
(* gathered and syncs it once.  What a thread does between taking the lock *)
(* of the Condition and giving it up, by returning or in wait(), is one    *)
(* action; the flusher lingers between two such steps.                     *)
(***************************************************************************)
EXTENDS Integers, Sequences, FiniteSets

Flusher == "flusher"

CONSTANTS
    Appenders,      \* the threads that call append, each for one event
    SinkFails       \* whether the sink's write and fsync can raise

ASSUME GroupCommitAssumption == Flusher \notin Appenders /\ SinkFails \in BOOLEAN

VARIABLES
    buffer,         \* the events of the group that is gathering
    next_seq, durable_seq,
    closed,
    seq,            \* the number of each appender's event, -1 before append
    asleep,         \* the threads in wait() on the condition
    returned,       \* the appenders whose append has returned
    flusher,        \* where the flusher is: "waiting" (or about to look),
                    \* "lingering", "returned", or "raised"
    closer,         \* where the thread that calls close is: "before",
                    \* "joining" or "returned"
    records,        \* the sink: what has been written, and how many of it
    durable_upto    \* fsync has put on stable storage

logvars == <<buffer, next_seq, durable_seq, closed, seq, asleep, returned,
             flusher, closer, records, durable_upto>>

sink == <<records, durable_upto>>
numbers == <<next_seq, durable_seq, seq>>

LogInit ==
    /\ buffer = <<>> /\ next_seq = 0 /\ durable_seq = 0 /\ closed = FALSE
    /\ seq = [a \in Appenders |-> -1]
    /\ asleep = {} /\ returned = {}
    /\ flusher = "waiting" /\ closer = "before"
    /\ records = <<>> /\ durable_upto = 0

\* append: the event joins the group, everybody is notified, and the caller
\* waits, as nothing can have synced the event yet
Append_(a) ==
    /\ seq[a] = -1
    /\ seq' = [seq EXCEPT ![a] = next_seq]
    /\ next_seq' = next_seq + 1
    /\ buffer' = Append(buffer, a)
    /\ asleep' = {a}
    /\ UNCHANGED <<durable_seq, closed, returned, flusher, closer, sink>>

\* a notified appender looks at the watermark again
AppenderChecks(a) ==
    /\ seq[a] # -1 /\ a \notin asleep \union returned
    /\ IF durable_seq <= seq[a]
       THEN asleep' = asleep \union {a} /\ UNCHANGED returned
       ELSE returned' = returned \union {a} /\ UNCHANGED asleep
    /\ UNCHANGED <<buffer, numbers, closed, flusher, closer, sink>>

\* the flusher does not look at the buffer before it stops
FlusherStopsAtOnce ==
    /\ flusher = "waiting" /\ Flusher \notin asleep
    /\ flusher' = IF closed THEN "returned" ELSE IF buffer = <<>> THEN "waiting" ELSE "lingering"
    /\ asleep' = IF ~closed /\ buffer = <<>> THEN asleep \union {Flusher} ELSE asleep
    /\ UNCHANGED <<buffer, numbers, closed, returned, closer, sink>>

\* the flusher waits for a group, or for the end
FlusherLooks ==
    /\ flusher = "waiting" /\ Flusher \notin asleep
    /\ \/ /\ buffer = <<>> /\ ~closed
          /\ asleep' = asleep \union {Flusher}
          /\ UNCHANGED flusher
       \/ buffer = <<>> /\ closed /\ flusher' = "returned" /\ UNCHANGED asleep
       \/ buffer # <<>> /\ flusher' = "lingering" /\ UNCHANGED asleep
    /\ UNCHANGED <<buffer, numbers, closed, returned, closer, sink>>

\* the watermark is moved first, and the sink raises
FlushRaisesMarked ==
    /\ SinkFails
    /\ flusher = "lingering" /\ buffer # <<>>
    /\ buffer' = <<>>
    /\ durable_seq' = next_seq
    /\ asleep' = {}
    /\ records' = records \o buffer
    /\ flusher' = "raised"
    /\ UNCHANGED <<next_seq, seq, closed, returned, closer, durable_upto>>

\* the appenders are not told
FlushUnnoticed ==
    /\ flusher = "lingering" /\ buffer # <<>>
    /\ buffer' = <<>>
    /\ records' = records \o buffer
    /\ durable_upto' = Len(records')
    /\ durable_seq' = next_seq
    /\ flusher' = "waiting"
    /\ UNCHANGED <<next_seq, seq, asleep, closed, returned, closer>>

\* the watermark of when the group began to gather: one event, not the group
FlushMarksOne ==
    /\ flusher = "lingering" /\ buffer # <<>>
    /\ buffer' = <<>>
    /\ records' = records \o buffer
    /\ durable_upto' = Len(records')
    /\ durable_seq' = durable_seq + 1
    /\ asleep' = {}
    /\ flusher' = "waiting"
    /\ UNCHANGED <<next_seq, seq, closed, returned, closer>>

\* after the batch window: the whole group is written and synced once (a
\* flusher that lingers always has a group: nobody else empties the buffer)
Flush ==
    /\ flusher = "lingering" /\ buffer # <<>>
    /\ buffer' = <<>>
    /\ records' = records \o buffer
    /\ durable_upto' = Len(records')
    /\ durable_seq' = next_seq
    /\ asleep' = {}
    /\ flusher' = "waiting"
    /\ UNCHANGED <<next_seq, seq, closed, returned, closer>>

\* the sink raises: the group is neither in the buffer nor durable, nobody
\* is notified, and the exception ends the thread
FlushRaises ==
    /\ SinkFails
    /\ flusher = "lingering" /\ buffer # <<>>
    /\ buffer' = <<>>
    /\ \E n \in 0 .. Len(buffer) : records' = records \o SubSeq(buffer, 1, n)
    /\ flusher' = "raised"
    /\ UNCHANGED <<numbers, closed, asleep, returned, closer, durable_upto>>

Close ==
    /\ closer = "before"
    /\ closed' = TRUE
    /\ asleep' = {}
    /\ closer' = "joining"
    /\ UNCHANGED <<buffer, numbers, returned, flusher, sink>>

CloseReturns ==
    /\ closer = "joining"
    /\ flusher \in {"returned", "raised"}
    /\ closer' = "returned"
    /\ UNCHANGED <<buffer, numbers, closed, asleep, returned, flusher, sink>>

FlusherStep == FlusherLooks \/ Flush \/ FlushRaises
CloserStep == Close \/ CloseReturns

LogNext ==
    \/ \E a \in Appenders : Append_(a) \/ AppenderChecks(a)
    \/ FlusherStep
    \/ CloserStep

LogSpec == LogInit /\ [][LogNext]_logvars

-----------------------------------------------------------------------------
(* Properties *)

\* Every variable has its type.
LogTypeOK ==
    /\ buffer \in Seq(Appenders) /\ records \in Seq(Appenders)
    /\ next_seq \in Nat /\ durable_seq \in 0 .. next_seq
    /\ durable_upto \in 0 .. Len(records)
    /\ closed \in BOOLEAN
    /\ seq \in [Appenders -> -1 .. next_seq - 1]
    /\ asleep \subseteq Appenders \union {Flusher}
    /\ returned \subseteq Appenders
    /\ flusher \in {"waiting", "lingering", "returned", "raised"}
    /\ closer \in {"before", "joining", "returned"}

\* "append is durable on return", whatever the sink does: the log is the
\* synced prefix of the sink, it only grows, and a returned append is on it.
Log == INSTANCE DurableLog WITH
    Events <- Appenders,
    log <- SubSeq(records, 1, durable_upto)
ImplementsDurableLog == Log!Spec

\* The watermark says exactly which events are durable: as long as the sink
\* has not failed, number n is the n-th record, and the gathering group has
\* the numbers from the watermark on.
WatermarkIsLSN ==
    flusher # "raised" =>
        /\ Len(records) = durable_seq /\ durable_upto = durable_seq
        /\ Len(buffer) = next_seq - durable_seq
        /\ \A a \in Appenders : seq[a] # -1 => (records \o buffer)[seq[a] + 1] = a

\* "close() drains and joins": when the flusher ends, which close waits for,
\* everything appended so far is durable.
CloseDrains ==
    [][flusher' = "returned" /\ flusher # "returned" =>
          buffer = <<>> /\ durable_seq = next_seq]_logvars

\* An append blocks for good only if the flusher ended, by close or because
\* the sink raised, before its event was durable.
AppendReturns ==
    \A a \in Appenders :
        (seq[a] # -1) ~>
            (a \in returned \/ (flusher \in {"returned", "raised"} /\ durable_seq <= seq[a]))

\* close returns, whatever the appenders and the sink do.
CloseEnds == (closer = "joining") ~> (closer = "returned")
=============================================================================
