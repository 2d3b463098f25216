------------------------------- MODULE MCLocks -------------------------------
(***************************************************************************)
(* The locks of rwlock_semaphores on a few threads.  A program constructs  *)
(* one of the tiers; the other variables stay as they are.                 *)
(***************************************************************************)
EXTENDS WriterPriorityRWLock

CONSTANTS t1, t2, t3, t4

VARIABLES tier, rp_pc, rp_raising, rp_resource, rp_count_lock, rp_count

rp_vars == <<rp_pc, rp_raising, rp_resource, rp_count_lock, rp_count>>
all == <<tier, vars, rp_vars>>

\* The first two only read, the last only writes, the third does either.
FirstThree == {t1, t2, t3}
LastTwo == {t3, t4}
JustOne == {t1}
FirstTwo == {t1, t2}
JustTheLast == {t4}
Nobody == {}

\* the writer-priority lock whose write calls may be interrupted too
Leaky == INSTANCE WriterPriorityRWLock WITH WriteInterruptible <- Writers, LeakBound <- 2

RP == INSTANCE ReaderPriorityRWLock WITH
    Interruptible <- ReadInterruptible,
    pc <- rp_pc, raising <- rp_raising, resource <- rp_resource,
    reader_count_lock <- rp_count_lock, reader_count <- rp_count

ASSUME ReaderPriorityConstants == RP!ThreadsConstants

LocksInit ==
    /\ tier \in {"writer_priority", "leaky", "reader_priority"}
    /\ Init /\ RP!Init

WriterPriorityStep == tier = "writer_priority" /\ Next
LeakyStep == tier = "leaky" /\ Leaky!Next
ReaderPriorityStep == tier = "reader_priority" /\ RP!Next

OthersRest ==
    /\ UNCHANGED tier
    /\ tier \notin {"writer_priority", "leaky"} => UNCHANGED vars
    /\ tier # "reader_priority" => UNCHANGED rp_vars

LocksNext ==
    /\ WriterPriorityStep \/ LeakyStep \/ ReaderPriorityStep
    /\ OthersRest

LocksSpec ==
    /\ LocksInit /\ [][LocksNext]_all
    /\ Fairness /\ RP!Fairness

-----------------------------------------------------------------------------
(* Properties *)

\* Every variable has its type, and nothing is left behind by calls that are
\* over: the semaphores and counters are as they were made, although reads
\* were interrupted (a write that is interrupted does leave the writer-priority
\* lock in disorder).
LocksAreSound ==
    /\ TypeOK /\ RP!TypeOK
    /\ (tier # "leaky" => QuietMeansFree) /\ RP!QuietMeansFree

\* The reader-priority lock implements the abstract lock as well.
ReaderPriorityImplementsRWLock == RP!ImplementsRWLock

\* Nobody is kept out by calls that are over, and nothing that comes later
\* keeps out the writers behind the closed gate.
WaitersGetIn ==
    /\ tier = "writer_priority" => CallsGetIn /\ QueuedWriterGetsIn
    /\ RP!CallsGetIn

\* What the docstring of the writer-priority lock says of its writers.
StreamOfReadersKeepsNoWriterOut == tier = "writer_priority" => ReadersKeepNoWriterOut
=============================================================================
