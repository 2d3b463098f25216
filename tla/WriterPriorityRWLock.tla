------------------------ MODULE WriterPriorityRWLock ------------------------
(***************************************************************************)
(* Tier 1a of rwlock_semaphores: the writer-priority reader-writer lock.   *)
(*                                                                         *)
(* One step is one semaphore operation together with the bookkeeping the   *)
(* thread does until its next one; the two counters are only touched under *)
(* their own lock, so nobody can see them between the two.  A semaphore is *)
(* its value, 1 or 0.  threading.Semaphore does not serve its waiters in   *)
(* order: any waiter may take a free one.                                  *)
(*                                                                         *)
(* A blocking acquire can be interrupted by an asynchronous exception such *)
(* as KeyboardInterrupt, which the code handles on the reader's side       *)
(* ("except BaseException") and does not handle on the writer's.           *)
(***************************************************************************)
EXTENDS Integers, FiniteSets

CONSTANTS
    Readers, Writers,    \* the threads that read and those that write
    ReadInterruptible,   \* those whose read calls may be interrupted
    WriteInterruptible,  \* those whose write calls may be interrupted
    LeakBound            \* bound: no write is interrupted above this writer_count

Threads == Readers \union Writers

ASSUME ThreadsAssumption ==
    /\ IsFiniteSet(Threads)
    /\ ReadInterruptible \subseteq Threads
    /\ WriteInterruptible \subseteq Threads
    /\ LeakBound \in Nat

VARIABLES
    pc,                  \* where each thread is
    raising,             \* whether its acquire_read is unwinding
    resource, reader_count_lock, write_count_lock, reader_gate,
    reader_count, writer_count

semaphores == <<resource, reader_count_lock, write_count_lock, reader_gate>>
vars == <<pc, raising, semaphores, reader_count, writer_count>>

\* acquire_read waits for the gate, the count lock and the resource, then
\* unlocks the count and reopens the gate
ReadEntry == {"r_gate", "r_count", "r_resource", "r_unlock", "r_open"}
ReadExit == {"rr_count", "rr_resource", "rr_unlock"}
WriteEntry == {"w_count", "w_gate", "w_unlock", "w_resource"}
WriteExit == {"ww_count", "ww_gate", "ww_unlock"}
Places == {"idle", "reading", "writing"}
            \union ReadEntry \union ReadExit \union WriteEntry \union WriteExit

Init ==
    /\ pc = [t \in Threads |-> "idle"]
    /\ raising = [t \in Threads |-> FALSE]
    /\ resource = 1
    /\ reader_count_lock = 1
    /\ write_count_lock = 1
    /\ reader_gate = 1
    /\ reader_count = 0
    /\ writer_count = 0

Goto(t, from, to) == pc[t] = from /\ pc' = [pc EXCEPT ![t] = to]

-----------------------------------------------------------------------------
(* acquire_read *)

CallAcquireRead(t) ==
    /\ t \in Readers
    /\ Goto(t, "idle", "r_gate")
    /\ UNCHANGED <<raising, semaphores, reader_count, writer_count>>

PassGate(t) ==
    /\ Goto(t, "r_gate", "r_count")
    /\ reader_gate = 1 /\ reader_gate' = 0
    /\ UNCHANGED <<raising, resource, reader_count_lock, write_count_lock,
                   reader_count, writer_count>>

CountReader(t) ==
    /\ reader_count_lock = 1 /\ reader_count_lock' = 0
    /\ reader_count' = reader_count + 1
    /\ Goto(t, "r_count", IF reader_count' = 1 THEN "r_resource" ELSE "r_unlock")
    /\ UNCHANGED <<raising, resource, write_count_lock, reader_gate, writer_count>>

FirstReaderTakesResource(t) ==
    /\ Goto(t, "r_resource", "r_unlock")
    /\ resource = 1 /\ resource' = 0
    /\ UNCHANGED <<raising, reader_count_lock, write_count_lock, reader_gate,
                   reader_count, writer_count>>

UnlockCount(t) ==
    /\ Goto(t, "r_unlock", "r_open")
    /\ reader_count_lock' = 1
    /\ UNCHANGED <<raising, resource, write_count_lock, reader_gate,
                   reader_count, writer_count>>

\* the outer finally, and the return or the exception that follows it
ReopenGate(t) ==
    /\ Goto(t, "r_open", IF raising[t] THEN "idle" ELSE "reading")
    /\ reader_gate' = 1
    /\ raising' = [raising EXCEPT ![t] = FALSE]
    /\ UNCHANGED <<resource, reader_count_lock, write_count_lock,
                   reader_count, writer_count>>

\* without the except clause: the interrupted first reader stays counted
InterruptReadKeepsCount(t) ==
    /\ t \in ReadInterruptible
    /\ \/ Goto(t, "r_gate", "idle") /\ UNCHANGED raising
       \/ /\ Goto(t, "r_resource", "r_unlock")
          /\ raising' = [raising EXCEPT ![t] = TRUE]
    /\ UNCHANGED <<semaphores, reader_count, writer_count>>

\* one try around the whole body: the decrement without the increment
InterruptReadUncountsAlways(t) ==
    /\ t \in ReadInterruptible
    /\ Goto(t, "r_count", "r_open")
    /\ raising' = [raising EXCEPT ![t] = TRUE]
    /\ reader_count' = reader_count - 1
    /\ UNCHANGED <<semaphores, writer_count>>

\* the acquire a reader is blocked in raises: what it owes is given back by
\* the except and finally clauses it leaves through
InterruptRead(t) ==
    /\ t \in ReadInterruptible
    /\ \/ Goto(t, "r_gate", "idle") /\ UNCHANGED <<raising, reader_count>>
       \/ Goto(t, "r_count", "r_open")
          /\ raising' = [raising EXCEPT ![t] = TRUE] /\ UNCHANGED reader_count
       \/ Goto(t, "r_resource", "r_unlock")
          /\ raising' = [raising EXCEPT ![t] = TRUE]
          /\ reader_count' = reader_count - 1
       \/ Goto(t, "rr_count", "reading") /\ UNCHANGED <<raising, reader_count>>
    /\ UNCHANGED <<semaphores, writer_count>>

-----------------------------------------------------------------------------
(* release_read *)

CallReleaseRead(t) ==
    /\ Goto(t, "reading", "rr_count")
    /\ UNCHANGED <<raising, semaphores, reader_count, writer_count>>

UncountReader(t) ==
    /\ reader_count_lock = 1 /\ reader_count_lock' = 0
    /\ reader_count' = reader_count - 1
    /\ Goto(t, "rr_count", IF reader_count' = 0 THEN "rr_resource" ELSE "rr_unlock")
    /\ UNCHANGED <<raising, resource, write_count_lock, reader_gate, writer_count>>

LastReaderFreesResource(t) ==
    /\ Goto(t, "rr_resource", "rr_unlock")
    /\ resource' = 1
    /\ UNCHANGED <<raising, reader_count_lock, write_count_lock, reader_gate,
                   reader_count, writer_count>>

ReturnReleaseRead(t) ==
    /\ Goto(t, "rr_unlock", "idle")
    /\ reader_count_lock' = 1
    /\ UNCHANGED <<raising, resource, write_count_lock, reader_gate,
                   reader_count, writer_count>>

-----------------------------------------------------------------------------
(* acquire_write *)

CallAcquireWrite(t) ==
    /\ t \in Writers
    /\ Goto(t, "idle", "w_count")
    /\ UNCHANGED <<raising, semaphores, reader_count, writer_count>>

CountWriter(t) ==
    /\ write_count_lock = 1 /\ write_count_lock' = 0
    /\ writer_count' = writer_count + 1
    /\ Goto(t, "w_count", IF writer_count' = 1 THEN "w_gate" ELSE "w_unlock")
    /\ UNCHANGED <<raising, resource, reader_count_lock, reader_gate, reader_count>>

\* a writer that looks at the gate and leaves it open
FirstWriterLeavesGate(t) ==
    /\ Goto(t, "w_gate", "w_unlock")
    /\ reader_gate = 1
    /\ UNCHANGED <<raising, semaphores, reader_count, writer_count>>

FirstWriterClosesGate(t) ==
    /\ Goto(t, "w_gate", "w_unlock")
    /\ reader_gate = 1 /\ reader_gate' = 0
    /\ UNCHANGED <<raising, resource, reader_count_lock, write_count_lock,
                   reader_count, writer_count>>

UnlockWriterCount(t) ==
    /\ Goto(t, "w_unlock", "w_resource")
    /\ write_count_lock' = 1
    /\ UNCHANGED <<raising, resource, reader_count_lock, reader_gate,
                   reader_count, writer_count>>

WriterTakesResource(t) ==
    /\ Goto(t, "w_resource", "writing")
    /\ resource = 1 /\ resource' = 0
    /\ UNCHANGED <<raising, reader_count_lock, write_count_lock, reader_gate,
                   reader_count, writer_count>>

\* acquire_write and release_write have no except or finally: what was taken
\* before the interrupted acquire stays taken
InterruptWrite(t) ==
    /\ t \in WriteInterruptible
    /\ writer_count <= LeakBound
    /\ \E from \in {"w_count", "w_gate", "w_resource", "ww_count"} :
            Goto(t, from, "idle")
    /\ UNCHANGED <<raising, semaphores, reader_count, writer_count>>

-----------------------------------------------------------------------------
(* release_write: the resource first, the bookkeeping after it *)

WriterFreesResource(t) ==
    /\ Goto(t, "writing", "ww_count")
    /\ resource' = 1
    /\ UNCHANGED <<raising, reader_count_lock, write_count_lock, reader_gate,
                   reader_count, writer_count>>

\* the last writer does not find itself the last: the gate stays closed
UncountWriterOffByOne(t) ==
    /\ write_count_lock = 1 /\ write_count_lock' = 0
    /\ writer_count' = writer_count - 1
    /\ Goto(t, "ww_count", IF writer_count' < 0 THEN "ww_gate" ELSE "ww_unlock")
    /\ UNCHANGED <<raising, resource, reader_count_lock, reader_gate, reader_count>>

UncountWriter(t) ==
    /\ write_count_lock = 1 /\ write_count_lock' = 0
    /\ writer_count' = writer_count - 1
    /\ Goto(t, "ww_count", IF writer_count' = 0 THEN "ww_gate" ELSE "ww_unlock")
    /\ UNCHANGED <<raising, resource, reader_count_lock, reader_gate, reader_count>>

LastWriterOpensGate(t) ==
    /\ Goto(t, "ww_gate", "ww_unlock")
    /\ reader_gate' = 1
    /\ UNCHANGED <<raising, resource, reader_count_lock, write_count_lock,
                   reader_count, writer_count>>

ReturnReleaseWrite(t) ==
    /\ Goto(t, "ww_unlock", "idle")
    /\ write_count_lock' = 1
    /\ UNCHANGED <<raising, resource, reader_count_lock, reader_gate,
                   reader_count, writer_count>>

-----------------------------------------------------------------------------
\* what a thread inside a call does, the calls themselves, the exceptions
Proceed(t) ==
    \/ PassGate(t) \/ CountReader(t) \/ FirstReaderTakesResource(t)
    \/ UnlockCount(t) \/ ReopenGate(t)
    \/ UncountReader(t) \/ LastReaderFreesResource(t) \/ ReturnReleaseRead(t)
    \/ CountWriter(t) \/ FirstWriterClosesGate(t) \/ UnlockWriterCount(t)
    \/ WriterTakesResource(t)
    \/ UncountWriter(t) \/ LastWriterOpensGate(t) \/ ReturnReleaseWrite(t)
Acquire(t) == CallAcquireRead(t) \/ CallAcquireWrite(t)
Release(t) == CallReleaseRead(t) \/ WriterFreesResource(t)
Interrupt(t) == InterruptRead(t) \/ InterruptWrite(t)

Next == \E t \in Threads : Proceed(t) \/ Acquire(t) \/ Release(t) \/ Interrupt(t)

Spec == Init /\ [][Next]_vars

\* The scheduler runs every thread that can go on, and every critical section
\* ends.  A thread that waits for a semaphore may lose it to others again and
\* again: threading.Semaphore lets a newcomer take it before a waiter.
Fairness == \A t \in Threads : WF_vars(Proceed(t)) /\ WF_vars(Release(t))

-----------------------------------------------------------------------------
(* Properties *)

\* Every variable has its type; the semaphores never exceed their one permit.
TypeOK ==
    /\ pc \in [Threads -> Places]
    /\ raising \in [Threads -> BOOLEAN]
    /\ resource \in {0, 1} /\ reader_count_lock \in {0, 1}
    /\ write_count_lock \in {0, 1} /\ reader_gate \in {0, 1}
    /\ reader_count \in Nat
    /\ writer_count \in Nat

\* "When a writer holds the lock, no other thread (reader or writer) is
\* inside", whatever acquire is interrupted, on either side.
MutualExclusion ==
    \A w, t \in Threads :
        pc[w] = "writing" /\ t # w => pc[t] \notin {"reading", "writing"}

\* The same promise as a specification of its own.
Abstract == INSTANCE RWLock WITH
    readers <- {t \in Threads : pc[t] = "reading"},
    writers <- {t \in Threads : pc[t] = "writing"}
ImplementsRWLock == Abstract!Spec

\* Nothing is left behind: when no thread is in a call and none holds the
\* lock, every semaphore is free and both counters are zero, although reads
\* were interrupted on the way.
QuietMeansFree ==
    (\A t \in Threads : pc[t] = "idle") =>
        /\ semaphores = <<1, 1, 1, 1>>
        /\ reader_count = 0 /\ writer_count = 0

\* "NEW readers wait": once a writer has closed the gate and waits for the
\* readers inside to drain, no reader joins them (one that was interrupted in
\* release_read has not left).
NoReaderJoinsBeforeWaitingWriter ==
    [][(\E w \in Threads : pc[w] = "w_resource") =>
          \A t \in Threads : pc'[t] = "reading" => pc[t] \in {"reading", "rr_count"}]_vars

CallsStop == <>[][\A t \in Threads : ~Acquire(t)]_vars
InterruptsStop == <>[][\A t \in Threads : ~Interrupt(t)]_vars

\* Nobody is kept out by calls that are over: when no more calls and no more
\* exceptions come, each call that is waiting gets in.
CallsGetIn ==
    CallsStop /\ InterruptsStop =>
        \A t \in Threads \ (ReadInterruptible \union WriteInterruptible) :
            /\ pc[t] \in ReadEntry ~> pc[t] = "reading"
            /\ pc[t] \in WriteEntry ~> pc[t] = "writing"

\* "Existing readers finish naturally; once they all release, the queued
\* writer enters": behind the closed gate some writer gets in, although new
\* readers keep coming.
QueuedWriterGetsIn ==
    InterruptsStop =>
        ((\E w \in Threads : pc[w] = "w_resource") ~> (\E w \in Threads : pc[w] = "writing"))

\* "A continuous stream of readers can no longer keep writers out."
ReadersKeepNoWriterOut ==
    InterruptsStop => \A w \in Writers : pc[w] \in WriteEntry ~> pc[w] = "writing"
-----------------------------------------------------------------------------
(* Why the lock works: who holds each semaphore *)

\* The readers that reader_count stands for; one whose acquire_read is
\* unwinding has given its unit back.
CountedReaders ==
    {t \in Threads : \/ pc[t] \in {"r_resource", "reading", "rr_count"}
                     \/ pc[t] \in {"r_unlock", "r_open"} /\ ~raising[t]}
\* The writers that writer_count stands for.
RegisteredWriters ==
    {t \in Threads : pc[t] \in {"w_gate", "w_unlock", "w_resource", "writing", "ww_count"}}
InReaderCount == {"r_resource", "r_unlock", "rr_resource", "rr_unlock"}
InWriterCount == {"w_gate", "w_unlock", "ww_gate", "ww_unlock"}
PastGate == {"r_count", "r_resource", "r_unlock", "r_open"}
ReadersHoldThrough(t) ==
    pc[t] = "rr_resource" \/ (t \in CountedReaders /\ pc[t] # "r_resource")

\* The readers' side: the count is exact, its lock has one holder, and the
\* resource is held by the readers as a group or by one writer.
ReaderInv ==
    /\ reader_count = Cardinality(CountedReaders)
    /\ \A t \in Threads : raising[t] => pc[t] \in {"r_unlock", "r_open"}
    /\ \A t \in Threads : pc[t] \in InReaderCount =>
            /\ reader_count_lock = 0
            /\ \A u \in Threads : pc[u] \in InReaderCount => u = t
    /\ \A t \in Threads : pc[t] = "r_resource" => CountedReaders = {t}
    /\ \A t \in Threads : pc[t] = "rr_resource" => CountedReaders = {}
    /\ \A t \in Threads : ReadersHoldThrough(t) => resource = 0
    /\ \A w \in Threads : pc[w] = "writing" =>
            /\ resource = 0
            /\ \A t \in Threads : ~ReadersHoldThrough(t)
            /\ \A t \in Threads : pc[t] = "writing" => t = w

\* The gate is closed and no reader closed it.
WritersHoldGate == reader_gate = 0 /\ \A t \in Threads : pc[t] \notin PastGate

\* The writers' side: one thread past the gate at a time, and from the
\* first writer registered to the last one gone the writers hold it.
\* An interrupted writer stays registered for good, so the count may exceed
\* the writers that are there.
GateInv ==
    /\ writer_count >= Cardinality(RegisteredWriters)
    /\ \A t \in Threads : pc[t] \in InWriterCount =>
            /\ write_count_lock = 0
            /\ \A u \in Threads : pc[u] \in InWriterCount => u = t
    /\ \A t \in Threads : pc[t] \in PastGate =>
            /\ reader_gate = 0
            /\ \A u \in Threads : pc[u] \in PastGate => u = t
    /\ writer_count >= 1 /\ write_count_lock = 1 => WritersHoldGate
    /\ \A t \in Threads :
            /\ pc[t] \in {"w_unlock", "w_resource", "writing", "ww_count", "ww_gate"}
                  => WritersHoldGate
            /\ pc[t] = "w_gate" => writer_count = 1
            /\ pc[t] = "ww_gate" => writer_count = 0
            /\ pc[t] = "ww_unlock" /\ writer_count >= 1 => WritersHoldGate
=============================================================================
