------------------------ MODULE ReaderPriorityRWLock ------------------------
(***************************************************************************)
(* Tier 1b of rwlock_semaphores: the reader-priority reader-writer lock.   *)
(* Steps, semaphores and interrupts are as in WriterPriorityRWLock; there  *)
(* is no gate, and a writer keeps no books, so an interrupted acquire_write*)
(* leaves nothing behind.                                                  *)
(***************************************************************************)
EXTENDS Integers, FiniteSetTheorems, TLAPS

CONSTANTS
    Readers, Writers,    \* the threads that read and those that write
    Interruptible        \* those whose blocking acquires may be interrupted

Threads == Readers \union Writers

\* what the constants must be
ThreadsConstants ==
    IsFiniteSet(Threads) /\ Interruptible \subseteq Threads

VARIABLES pc, raising, resource, reader_count_lock, reader_count

vars == <<pc, raising, resource, reader_count_lock, reader_count>>

Places == {"idle", "r_count", "r_resource", "r_unlock", "reading",
           "rr_count", "rr_resource", "rr_unlock", "w_resource", "writing"}

Init ==
    /\ pc = [t \in Threads |-> "idle"]
    /\ raising = [t \in Threads |-> FALSE]
    /\ resource = 1
    /\ reader_count_lock = 1
    /\ reader_count = 0

Goto(t, from, to) == pc[t] = from /\ pc' = [pc EXCEPT ![t] = to]

-----------------------------------------------------------------------------
CallAcquireRead(t) ==
    /\ t \in Readers
    /\ Goto(t, "idle", "r_count")
    /\ UNCHANGED <<raising, resource, reader_count_lock, reader_count>>

CountReader(t) ==
    /\ reader_count_lock = 1 /\ reader_count_lock' = 0
    /\ reader_count' = reader_count + 1
    /\ Goto(t, "r_count", IF reader_count' = 1 THEN "r_resource" ELSE "r_unlock")
    /\ UNCHANGED <<raising, resource>>

FirstReaderTakesResource(t) ==
    /\ Goto(t, "r_resource", "r_unlock")
    /\ resource = 1 /\ resource' = 0
    /\ UNCHANGED <<raising, reader_count_lock, reader_count>>

\* the finally clause, and the return or the exception that follows it
UnlockCount(t) ==
    /\ Goto(t, "r_unlock", IF raising[t] THEN "idle" ELSE "reading")
    /\ reader_count_lock' = 1
    /\ raising' = [raising EXCEPT ![t] = FALSE]
    /\ UNCHANGED <<resource, reader_count>>

\* release_read
CallReleaseRead(t) ==
    /\ Goto(t, "reading", "rr_count")
    /\ UNCHANGED <<raising, resource, reader_count_lock, reader_count>>

\* any reader that leaves frees the resource
AnyReaderFreesResource(t) ==
    /\ reader_count_lock = 1 /\ reader_count_lock' = 0
    /\ reader_count' = reader_count - 1
    /\ Goto(t, "rr_count", "rr_resource")
    /\ UNCHANGED <<raising, resource>>

UncountReader(t) ==
    /\ reader_count_lock = 1 /\ reader_count_lock' = 0
    /\ reader_count' = reader_count - 1
    /\ Goto(t, "rr_count", IF reader_count' = 0 THEN "rr_resource" ELSE "rr_unlock")
    /\ UNCHANGED <<raising, resource>>

LastReaderFreesResource(t) ==
    /\ Goto(t, "rr_resource", "rr_unlock")
    /\ resource' = 1
    /\ UNCHANGED <<raising, reader_count_lock, reader_count>>

ReturnReleaseRead(t) ==
    /\ Goto(t, "rr_unlock", "idle")
    /\ reader_count_lock' = 1
    /\ UNCHANGED <<raising, resource, reader_count>>

CallAcquireWrite(t) ==
    /\ t \in Writers
    /\ Goto(t, "idle", "w_resource")
    /\ UNCHANGED <<raising, resource, reader_count_lock, reader_count>>

WriterTakesResource(t) ==
    /\ Goto(t, "w_resource", "writing")
    /\ resource = 1 /\ resource' = 0
    /\ UNCHANGED <<raising, reader_count_lock, reader_count>>

ReleaseWrite(t) ==
    /\ Goto(t, "writing", "idle")
    /\ resource' = 1
    /\ UNCHANGED <<raising, reader_count_lock, reader_count>>

-----------------------------------------------------------------------------
\* the acquire a thread is blocked in raises
Interrupt(t) ==
    /\ t \in Interruptible
    /\ \/ \E from \in {"r_count", "w_resource"} :
            Goto(t, from, "idle") /\ UNCHANGED <<raising, reader_count>>
       \/ Goto(t, "r_resource", "r_unlock")
          /\ raising' = [raising EXCEPT ![t] = TRUE]
          /\ reader_count' = reader_count - 1
       \/ Goto(t, "rr_count", "reading") /\ UNCHANGED <<raising, reader_count>>
    /\ UNCHANGED <<resource, reader_count_lock>>

-----------------------------------------------------------------------------
Proceed(t) ==
    \/ CountReader(t) \/ FirstReaderTakesResource(t) \/ UnlockCount(t)
    \/ UncountReader(t) \/ LastReaderFreesResource(t) \/ ReturnReleaseRead(t)
    \/ WriterTakesResource(t)
Acquire(t) == CallAcquireRead(t) \/ CallAcquireWrite(t)
Release(t) == CallReleaseRead(t) \/ ReleaseWrite(t)

Next == \E t \in Threads : Proceed(t) \/ Acquire(t) \/ Release(t) \/ Interrupt(t)

Spec == Init /\ [][Next]_vars

\* As for the writer-priority lock: a semaphore serves its waiters in no order.
Fairness == \A t \in Threads : WF_vars(Proceed(t)) /\ WF_vars(Release(t))

-----------------------------------------------------------------------------
(* Properties *)

\* Every variable has its type.
TypeOK ==
    /\ pc \in [Threads -> Places]
    /\ raising \in [Threads -> BOOLEAN]
    /\ resource \in {0, 1} /\ reader_count_lock \in {0, 1}
    /\ reader_count \in Nat

\* The lock implements the same specification as the writer-priority one.
Abstract == INSTANCE RWLock WITH
    readers <- {t \in Threads : pc[t] = "reading"},
    writers <- {t \in Threads : pc[t] = "writing"}
ImplementsRWLock == Abstract!Spec

\* Interrupted or not, calls that are over leave the lock as it was made.
QuietMeansFree ==
    (\A t \in Threads : pc[t] = "idle") =>
        resource = 1 /\ reader_count_lock = 1 /\ reader_count = 0

CallsStop == <>[][\A t \in Threads : ~Acquire(t)]_vars
InterruptsStop == <>[][\A t \in Threads : ~Interrupt(t)]_vars

\* Nobody is kept out by calls that are over.
CallsGetIn ==
    CallsStop /\ InterruptsStop =>
        \A t \in Threads \ Interruptible :
            /\ pc[t] \in {"r_count", "r_resource", "r_unlock"} ~> pc[t] = "reading"
            /\ pc[t] = "w_resource" ~> pc[t] = "writing"
-----------------------------------------------------------------------------
(* Proofs *)

\* The readers that reader_count stands for.
CountedReaders ==
    {t \in Threads : \/ pc[t] \in {"r_resource", "reading", "rr_count"}
                     \/ pc[t] = "r_unlock" /\ ~raising[t]}
InReaderCount == {"r_resource", "r_unlock", "rr_resource", "rr_unlock"}
ReadersHoldThrough(t) ==
    pc[t] = "rr_resource" \/ (t \in CountedReaders /\ pc[t] # "r_resource")

Shape ==
    /\ pc \in [Threads -> Places]
    /\ raising \in [Threads -> BOOLEAN]
    /\ resource \in {0, 1} /\ reader_count_lock \in {0, 1}
    /\ reader_count \in Int

\* The count is exact, its lock has one holder, and the resource is held by
\* the readers as a group or by one writer.
HoldersInv ==
    /\ reader_count = Cardinality(CountedReaders)
    /\ \A t \in Threads : raising[t] => pc[t] = "r_unlock"
    /\ \A t \in Threads : pc[t] \in InReaderCount =>
            /\ reader_count_lock = 0
            /\ \A u \in Threads : pc[u] \in InReaderCount => u = t
    /\ \A t \in Threads : pc[t] = "r_resource" => CountedReaders = {t}
    /\ \A t \in Threads : pc[t] = "rr_resource" => CountedReaders = {}
    /\ \A t \in Threads : ReadersHoldThrough(t) => resource = 0
    /\ \A w \in Threads : pc[w] = "writing" =>
            /\ resource = 0
            /\ \A t \in Threads : ~ReadersHoldThrough(t)
            /\ \A t \in Threads : pc[t] = "writing" => t = w

RPInv == Shape /\ HoldersInv

\* The counted readers are finitely many.
LEMMA CountedFinite ==
    ASSUME ThreadsConstants
    PROVE  /\ IsFiniteSet(CountedReaders) /\ Cardinality(CountedReaders) \in Nat
           /\ Cardinality(CountedReaders) = 0 <=> CountedReaders = {}
<1>1. CountedReaders \subseteq Threads
  BY DEF CountedReaders
<1>2. IsFiniteSet(CountedReaders)
  BY <1>1, FS_Subset DEF ThreadsConstants
<1> QED BY <1>2, FS_CardinalityType, FS_EmptySet

\* Nobody has called yet.
LEMMA RPInitInv == Init => RPInv
<1> SUFFICES ASSUME Init PROVE RPInv
  OBVIOUS
<1>1. CountedReaders = {}
  BY DEF Init, CountedReaders
<1>2. Cardinality(CountedReaders) = 0
  BY <1>1, FS_EmptySet
<1>3. Shape
  BY DEF Init, Shape, Places
<1> QED BY <1>1, <1>2, <1>3 DEF Init, RPInv, HoldersInv, InReaderCount, ReadersHoldThrough

\* Every step keeps every variable in its type.
LEMMA NextShape == ASSUME Shape, NEW t \in Threads,
                          Proceed(t) \/ Acquire(t) \/ Release(t) \/ Interrupt(t)
                   PROVE  Shape'
<1> USE DEF Shape, Goto
<1>1. CASE CountReader(t) \/ FirstReaderTakesResource(t) \/ UnlockCount(t)
  <2>1. CASE CountReader(t) \/ FirstReaderTakesResource(t)
    BY <2>1 DEF CountReader, FirstReaderTakesResource, Places
  <2>2. CASE UnlockCount(t)
    <3>1. pc' \in [Threads -> Places]
      BY <2>2 DEF UnlockCount, Places
    <3>2. raising' \in [Threads -> BOOLEAN]
      BY <2>2, ZenonT(30) DEF UnlockCount
    <3> QED BY <2>2, <3>1, <3>2 DEF UnlockCount
  <2> QED BY <1>1, <2>1, <2>2
<1>2. CASE UncountReader(t) \/ LastReaderFreesResource(t) \/ ReturnReleaseRead(t)
           \/ WriterTakesResource(t)
  BY <1>2 DEF UncountReader, LastReaderFreesResource, ReturnReleaseRead, WriterTakesResource, Places
<1>3. CASE Acquire(t) \/ Release(t)
  BY <1>3 DEF Acquire, Release, CallAcquireRead, CallAcquireWrite, CallReleaseRead,
     ReleaseWrite, Places
<1>4. CASE Interrupt(t)
  <2>1. pc' \in [Threads -> Places]
    BY <1>4 DEF Interrupt, Places
  <2>2. raising' \in [Threads -> BOOLEAN]
    BY <1>4, ZenonT(30) DEF Interrupt
  <2>3. reader_count' \in Int
    BY <1>4 DEF Interrupt
  <2> QED BY <1>4, <2>1, <2>2, <2>3 DEF Interrupt
<1> QED BY <1>1, <1>2, <1>3, <1>4 DEF Proceed

\* acquire_read keeps the books.
LEMMA AcquireReadInv ==
    ASSUME ThreadsConstants, Shape, HoldersInv, NEW t \in Threads,
           \/ CallAcquireRead(t) \/ CountReader(t)
           \/ FirstReaderTakesResource(t) \/ UnlockCount(t)
    PROVE  HoldersInv'
<1> USE DEF Shape, Goto, HoldersInv, InReaderCount, ReadersHoldThrough
<1>1. CASE CallAcquireRead(t)
  <2>1. CountedReaders' = CountedReaders
    BY <1>1 DEF CallAcquireRead, CountedReaders
  <2> QED BY <1>1, <2>1 DEF CallAcquireRead
<1>2. CASE CountReader(t)
  <2>1. t \notin CountedReaders /\ pc[t] = "r_count" /\ ~raising[t]
    BY <1>2 DEF CountReader, CountedReaders
  <2>2. CountedReaders' = CountedReaders \union {t}
    BY <1>2, <2>1 DEF CountReader, CountedReaders
  <2>3. reader_count' = Cardinality(CountedReaders')
    BY <1>2, <2>1, <2>2, FS_AddElement, CountedFinite DEF CountReader
  <2>4. \A u \in Threads : pc[u] \notin InReaderCount
    BY <1>2 DEF CountReader
  <2>5. CASE reader_count' = 1
    <3>1. CountedReaders = {}
      BY <1>2, <2>5, CountedFinite DEF CountReader
    <3>2. CountedReaders' = {t}
      BY <2>2, <3>1
    <3>3. pc' = [pc EXCEPT ![t] = "r_resource"]
      BY <1>2, <2>5 DEF CountReader
    <3>4. \A u \in Threads : pc[u] # "rr_resource" /\ ~ReadersHoldThrough(u)'
      BY <1>2, <3>1, <3>2, <3>3, <2>4 DEF CountReader
    <3> QED BY <1>2, <2>3, <3>2, <3>3, <3>4, <2>4 DEF CountReader
  <2>6. CASE reader_count' # 1
    <3>1. PICK u \in CountedReaders : pc[u] # "r_resource"
      <4>1. CountedReaders # {}
        BY <1>2, <2>6, CountedFinite DEF CountReader
      <4> QED BY <4>1, <2>4 DEF CountedReaders
    <3>2. u \in Threads /\ ReadersHoldThrough(u)
      BY <3>1 DEF CountedReaders
    <3>3. resource = 0 /\ \A w \in Threads : pc[w] # "writing"
      BY <3>2
    <3>4. pc' = [pc EXCEPT ![t] = "r_unlock"]
      BY <1>2, <2>6 DEF CountReader
    <3> QED BY <1>2, <2>2, <2>3, <2>4, <3>3, <3>4 DEF CountReader
  <2> QED BY <2>5, <2>6
<1>3. CASE FirstReaderTakesResource(t)
  <2>1. CountedReaders' = CountedReaders
    BY <1>3 DEF FirstReaderTakesResource, CountedReaders
  <2> QED BY <1>3, <2>1 DEF FirstReaderTakesResource
<1>4. CASE UnlockCount(t)
  <2>1. CountedReaders' = CountedReaders
    BY <1>4 DEF UnlockCount, CountedReaders
  <2> QED BY <1>4, <2>1 DEF UnlockCount
<1> QED BY <1>1, <1>2, <1>3, <1>4

\* release_read keeps the books.
LEMMA ReleaseReadInv ==
    ASSUME ThreadsConstants, Shape, HoldersInv, NEW t \in Threads,
           \/ CallReleaseRead(t) \/ UncountReader(t)
           \/ LastReaderFreesResource(t) \/ ReturnReleaseRead(t)
    PROVE  HoldersInv'
<1> USE DEF Shape, Goto, HoldersInv, InReaderCount, ReadersHoldThrough
<1>1. CASE CallReleaseRead(t)
  <2>1. CountedReaders' = CountedReaders
    BY <1>1 DEF CallReleaseRead, CountedReaders
  <2> QED BY <1>1, <2>1 DEF CallReleaseRead
<1>2. CASE UncountReader(t)
  <2>1. t \in CountedReaders /\ pc[t] = "rr_count"
    BY <1>2 DEF UncountReader, CountedReaders
  <2>2. CountedReaders' = CountedReaders \ {t}
    BY <1>2, <2>1 DEF UncountReader, CountedReaders
  <2>3. reader_count' = Cardinality(CountedReaders')
    BY <1>2, <2>1, <2>2, FS_RemoveElement, CountedFinite DEF UncountReader
  <2>4. resource = 0 /\ \A w \in Threads : pc[w] # "writing"
    BY <2>1
  <2>5. \A u \in Threads : pc[u] \notin InReaderCount
    BY <1>2 DEF UncountReader
  <2>6. CASE reader_count' = 0
    <3>1. CountedReaders' = {}
      <4>1. IsFiniteSet(CountedReaders \ {t})
        BY FS_Subset, CountedFinite
      <4> QED BY <2>2, <2>3, <2>6, <4>1, FS_EmptySet
    <3>2. pc' = [pc EXCEPT ![t] = "rr_resource"]
      BY <1>2, <2>6 DEF UncountReader
    <3> QED BY <1>2, <2>3, <2>4, <2>5, <3>1, <3>2 DEF UncountReader
  <2>7. CASE reader_count' # 0
    <3>1. pc' = [pc EXCEPT ![t] = "rr_unlock"]
      BY <1>2, <2>7 DEF UncountReader
    <3> QED BY <1>2, <2>2, <2>3, <2>4, <2>5, <3>1 DEF UncountReader
  <2> QED BY <2>6, <2>7
<1>3. CASE LastReaderFreesResource(t)
  <2>1. CountedReaders' = CountedReaders /\ CountedReaders = {}
    BY <1>3 DEF LastReaderFreesResource, CountedReaders
  <2> QED BY <1>3, <2>1 DEF LastReaderFreesResource
<1>4. CASE ReturnReleaseRead(t)
  <2>1. CountedReaders' = CountedReaders
    BY <1>4 DEF ReturnReleaseRead, CountedReaders
  <2> QED BY <1>4, <2>1 DEF ReturnReleaseRead
<1> QED BY <1>1, <1>2, <1>3, <1>4

\* A writer takes the resource only when it is free and keeps no books.
LEMMA WriteInv ==
    ASSUME Shape, HoldersInv, NEW t \in Threads,
           CallAcquireWrite(t) \/ WriterTakesResource(t) \/ ReleaseWrite(t)
    PROVE  HoldersInv'
<1> USE DEF Shape, Goto, HoldersInv, InReaderCount, ReadersHoldThrough
<1>1. CountedReaders' = CountedReaders
  BY DEF CallAcquireWrite, WriterTakesResource, ReleaseWrite, CountedReaders
<1>2. CASE CallAcquireWrite(t)
  BY <1>1, <1>2 DEF CallAcquireWrite
<1>3. CASE WriterTakesResource(t)
  BY <1>1, <1>3 DEF WriterTakesResource
<1>4. CASE ReleaseWrite(t)
  BY <1>1, <1>4 DEF ReleaseWrite
<1> QED BY <1>2, <1>3, <1>4

\* The first reader that is interrupted gives its unit of the count back.
LEMMA InterruptInv ==
    ASSUME ThreadsConstants, Shape, HoldersInv, NEW t \in Threads, Interrupt(t)
    PROVE  HoldersInv'
<1> USE DEF Shape, Goto, HoldersInv, InReaderCount, ReadersHoldThrough
<1>1. CASE pc[t] = "r_resource"
  <2>1. t \in CountedReaders /\ CountedReaders' = CountedReaders \ {t}
    BY <1>1 DEF Interrupt, CountedReaders
  <2>2. reader_count' = Cardinality(CountedReaders')
    BY <1>1, <2>1, FS_RemoveElement, CountedFinite DEF Interrupt
  <2> QED BY <1>1, <2>1, <2>2 DEF Interrupt
<1>2. CASE pc[t] # "r_resource"
  <2>1. CountedReaders' = CountedReaders
    BY <1>2 DEF Interrupt, CountedReaders
  <2> QED BY <1>2, <2>1 DEF Interrupt
<1> QED BY <1>1, <1>2

\* The books are kept by every step.
LEMMA RPStepInv == ASSUME ThreadsConstants, RPInv, [Next]_vars PROVE RPInv'
<1>1. CASE UNCHANGED vars
  BY <1>1 DEF vars, RPInv, Shape, HoldersInv, CountedReaders, InReaderCount, ReadersHoldThrough
<1>2. ASSUME NEW t \in Threads, Proceed(t) \/ Acquire(t) \/ Release(t) \/ Interrupt(t)
      PROVE  RPInv'
  BY <1>2, NextShape, AcquireReadInv, ReleaseReadInv, WriteInv, InterruptInv
     DEF RPInv, Proceed, Acquire, Release
<1> QED BY <1>1, <1>2 DEF Next
\* A step that moves no thread in or out of its critical section is a stutter
\* of the abstract lock.
LEMMA Stutters ==
    ASSUME \A u \in Threads : pc'[u] # pc[u] =>
              {pc[u], pc'[u]} \intersect {"reading", "writing"} = {}
    PROVE  [Abstract!Next]_(Abstract!vars)
  BY DEF Abstract!vars

\* Each step of a thread is a step of the abstract lock or a stutter.
LEMMA StepRefines ==
    ASSUME RPInv, NEW t \in Threads,
           Proceed(t) \/ Acquire(t) \/ Release(t) \/ Interrupt(t)
    PROVE  [Abstract!Next]_(Abstract!vars)
<1> USE DEF RPInv, Shape, Goto
<1>1. CASE pc'[t] = "reading"
  <2>1. /\ pc' = [pc EXCEPT ![t] = "reading"]
        /\ (pc[t] = "r_unlock" /\ ~raising[t]) \/ pc[t] = "rr_count"
    BY <1>1 DEF Proceed, Acquire, Release, Interrupt,
       CountReader, FirstReaderTakesResource, UnlockCount,
       UncountReader, LastReaderFreesResource, ReturnReleaseRead, WriterTakesResource,
       CallAcquireRead, CallAcquireWrite, CallReleaseRead, ReleaseWrite
  <2>2. ReadersHoldThrough(t)
    BY <2>1 DEF ReadersHoldThrough, CountedReaders
  <2>3. \A w \in Threads : pc[w] # "writing"
    BY <2>2 DEF HoldersInv
  <2>4. Abstract!AcquireRead(t)
    BY <2>1, <2>3 DEF Abstract!AcquireRead
  <2> QED BY <2>4 DEF Abstract!Next
<1>2. CASE CallReleaseRead(t)
  <2>1. Abstract!ReleaseRead(t)
    BY <1>2 DEF CallReleaseRead, Abstract!ReleaseRead
  <2> QED BY <2>1 DEF Abstract!Next
<1>3. CASE WriterTakesResource(t)
  <2>1. \A u \in Threads : pc[u] \notin {"reading", "writing"}
    BY <1>3 DEF WriterTakesResource, HoldersInv, ReadersHoldThrough, CountedReaders
  <2>2. pc' = [pc EXCEPT ![t] = "writing"]
    BY <1>3 DEF WriterTakesResource
  <2>3. Abstract!AcquireWrite(t)
    BY <2>1, <2>2 DEF Abstract!AcquireWrite
  <2> QED BY <2>3 DEF Abstract!Next
<1>4. CASE ReleaseWrite(t)
  <2>1. Abstract!ReleaseWrite(t)
    BY <1>4 DEF ReleaseWrite, Abstract!ReleaseWrite
  <2> QED BY <2>1 DEF Abstract!Next
<1>5. CASE /\ pc'[t] # "reading"
           /\ ~CallReleaseRead(t) /\ ~WriterTakesResource(t) /\ ~ReleaseWrite(t)
  <2>1. pc[t] \notin {"reading", "writing"} /\ pc'[t] \notin {"reading", "writing"}
    BY <1>5 DEF Proceed, Acquire, Release, Interrupt,
       CountReader, FirstReaderTakesResource, UnlockCount,
       UncountReader, LastReaderFreesResource, ReturnReleaseRead,
       CallAcquireRead, CallAcquireWrite
  <2>2. \A u \in Threads : u # t => pc'[u] = pc[u]
    BY <1>5 DEF Proceed, Acquire, Release, Interrupt,
       CountReader, FirstReaderTakesResource, UnlockCount,
       UncountReader, LastReaderFreesResource, ReturnReleaseRead,
       CallAcquireRead, CallAcquireWrite
  <2> QED BY <2>1, <2>2, Stutters
<1> QED BY <1>1, <1>2, <1>3, <1>4, <1>5

\* The reader-priority lock is a reader-writer lock, for all threads and
\* whatever acquire is interrupted.
THEOREM ReaderPriorityRefinement ==
    ASSUME ThreadsConstants
    PROVE  Spec => ImplementsRWLock
<1>1. Init => RPInv
  BY RPInitInv
<1>2. ASSUME RPInv, [Next]_vars PROVE RPInv'
  BY <1>2, RPStepInv
<1>3. Init => Abstract!Init
  BY DEF Init, Abstract!Init
<1>4. ASSUME RPInv, [Next]_vars PROVE [Abstract!Next]_(Abstract!vars)
  <2>1. CASE Next
    BY <1>4, <2>1, StepRefines DEF Next
  <2>2. CASE UNCHANGED vars
    BY <2>2 DEF vars, Abstract!vars
  <2> QED BY <1>4, <2>1, <2>2
<1> QED BY <1>1, <1>2, <1>3, <1>4, PTL DEF Spec, ImplementsRWLock, Abstract!Spec
-----------------------------------------------------------------------------
(* Nothing is left behind *)

\* A semaphore is taken only while somebody holds it.
NothingLeft ==
    /\ reader_count_lock = 0 => \E t \in Threads : pc[t] \in InReaderCount
    /\ resource = 0 => \E t \in Threads : ReadersHoldThrough(t) \/ pc[t] = "writing"

\* A thread that holds the count lock holds it until it gives it back.
LEMMA ReaderNothingLeft ==
    ASSUME Shape, HoldersInv, NothingLeft, NEW t \in Threads,
           \/ CountReader(t) \/ FirstReaderTakesResource(t) \/ UnlockCount(t)
           \/ UncountReader(t) \/ LastReaderFreesResource(t) \/ ReturnReleaseRead(t)
    PROVE  NothingLeft'
<1> USE DEF Shape, Goto, NothingLeft, InReaderCount
<1>1. CASE CountReader(t)
  <2>1. pc[t] = "r_count" /\ pc'[t] \in InReaderCount /\ UNCHANGED resource
    BY <1>1 DEF CountReader
  <2>2. \A u \in Threads : u # t => ReadersHoldThrough(u)' = ReadersHoldThrough(u) /\ pc'[u] = pc[u]
    BY <1>1 DEF CountReader, ReadersHoldThrough, CountedReaders
  <2>3. ~ReadersHoldThrough(t)
    BY <2>1 DEF ReadersHoldThrough, CountedReaders
  <2> QED BY <2>1, <2>2, <2>3
<1>2. CASE FirstReaderTakesResource(t)
  <2>1. pc' = [pc EXCEPT ![t] = "r_unlock"] /\ UNCHANGED raising /\ ~raising[t]
    BY <1>2 DEF FirstReaderTakesResource, HoldersInv
  <2>2. ReadersHoldThrough(t)'
    BY <2>1 DEF ReadersHoldThrough, CountedReaders
  <2> QED BY <2>1, <2>2
<1>3. CASE UnlockCount(t)
  <2>1. /\ pc[t] = "r_unlock" /\ pc'[t] \in {"idle", "reading"}
        /\ pc'[t] = "idle" <=> raising[t]
        /\ UNCHANGED resource /\ reader_count_lock' = 1
    BY <1>3 DEF UnlockCount
  <2>2. \A u \in Threads : u # t => ReadersHoldThrough(u)' = ReadersHoldThrough(u) /\ pc'[u] = pc[u]
    BY <1>3 DEF UnlockCount, ReadersHoldThrough, CountedReaders
  <2>3. ReadersHoldThrough(t) => ReadersHoldThrough(t)'
    BY <2>1 DEF ReadersHoldThrough, CountedReaders
  <2> QED BY <2>1, <2>2, <2>3
<1>4. CASE UncountReader(t)
  <2>1. /\ pc[t] = "rr_count" /\ pc'[t] \in {"rr_resource", "rr_unlock"}
        /\ UNCHANGED <<resource, raising>> /\ reader_count_lock = 1
        /\ pc'[t] = "rr_unlock" => reader_count - 1 # 0
    BY <1>4 DEF UncountReader
  <2>2. \A u \in Threads : u # t => ReadersHoldThrough(u)' = ReadersHoldThrough(u) /\ pc'[u] = pc[u]
    BY <1>4 DEF UncountReader, ReadersHoldThrough, CountedReaders
  <2>3. CASE pc'[t] = "rr_resource"
    BY <2>1, <2>3 DEF ReadersHoldThrough
  <2>4. CASE pc'[t] = "rr_unlock"
    <3>1. \E u \in CountedReaders : u # t
      <4>1. t \in CountedReaders
        BY <2>1 DEF CountedReaders
      <4>2. ASSUME CountedReaders = {t} PROVE FALSE
        <5>1. Cardinality(CountedReaders) = 1
          BY <4>2, FS_Singleton
        <5> QED BY <5>1, <2>1, <2>4 DEF HoldersInv
      <4> QED BY <4>1, <4>2
    <3>2. PICK u \in CountedReaders : u # t
      BY <3>1
    <3>3. u \in Threads /\ pc[u] # "r_resource"
      BY <2>1 DEF HoldersInv, CountedReaders
    <3>4. ReadersHoldThrough(u)
      BY <3>3 DEF ReadersHoldThrough
    <3> QED BY <2>1, <2>2, <2>4, <3>2, <3>3, <3>4
  <2> QED BY <2>1, <2>3, <2>4
<1>5. CASE LastReaderFreesResource(t)
  BY <1>5 DEF LastReaderFreesResource
<1>6. CASE ReturnReleaseRead(t)
  <2>1. \A u \in Threads : ReadersHoldThrough(u) => ReadersHoldThrough(u)'
    BY <1>6 DEF ReturnReleaseRead, ReadersHoldThrough, CountedReaders
  <2>2. \A u \in Threads : pc[u] = "writing" => pc'[u] = "writing"
    BY <1>6 DEF ReturnReleaseRead
  <2> QED BY <1>6, <2>1, <2>2 DEF ReturnReleaseRead
<1> QED BY <1>1, <1>2, <1>3, <1>4, <1>5, <1>6

\* Calls, interrupts and the steps of a writer leave nothing behind either.
LEMMA OtherNothingLeft ==
    ASSUME Shape, HoldersInv, NothingLeft, NEW t \in Threads,
           \/ WriterTakesResource(t) \/ Acquire(t) \/ Release(t) \/ Interrupt(t)
    PROVE  NothingLeft'
<1> USE DEF Shape, Goto, NothingLeft, InReaderCount
<1>1. CASE WriterTakesResource(t)
  <2>1. pc[t] = "w_resource" /\ pc' = [pc EXCEPT ![t] = "writing"] /\ UNCHANGED reader_count_lock
    BY <1>1 DEF WriterTakesResource
  <2> QED BY <2>1
<1>2. CASE Acquire(t) \/ CallReleaseRead(t)
  <2>1. \A u \in Threads : ReadersHoldThrough(u) => ReadersHoldThrough(u)'
    BY <1>2 DEF Acquire, CallAcquireRead, CallAcquireWrite, CallReleaseRead,
       ReadersHoldThrough, CountedReaders
  <2>2. \A u \in Threads : pc[u] = "writing" \/ pc[u] \in InReaderCount => pc'[u] = pc[u]
    BY <1>2 DEF Acquire, CallAcquireRead, CallAcquireWrite, CallReleaseRead
  <2> QED BY <1>2, <2>1, <2>2 DEF Acquire, CallAcquireRead, CallAcquireWrite, CallReleaseRead
<1>3. CASE ReleaseWrite(t)
  BY <1>3 DEF ReleaseWrite
<1>4. CASE Interrupt(t)
  <2>1. \A u \in Threads : ReadersHoldThrough(u) => ReadersHoldThrough(u)'
    BY <1>4 DEF Interrupt, ReadersHoldThrough, CountedReaders, HoldersInv
  <2>2. \A u \in Threads : pc[u] = "writing" => pc'[u] = pc[u]
    BY <1>4 DEF Interrupt
  <2>3. \A u \in Threads : pc[u] \in InReaderCount => pc'[u] \in InReaderCount
    BY <1>4 DEF Interrupt
  <2>4. UNCHANGED <<resource, reader_count_lock>>
    BY <1>4 DEF Interrupt
  <2> QED BY <2>1, <2>2, <2>3, <2>4
<1> QED BY <1>1, <1>2, <1>3, <1>4 DEF Release

\* Whoever holds a semaphore is in a call or has the lock.
LEMMA NothingLeftWhenQuiet ==
    ASSUME ThreadsConstants, RPInv, NothingLeft PROVE TypeOK /\ QuietMeansFree
<1>1. TypeOK
  BY CountedFinite DEF RPInv, Shape, HoldersInv, TypeOK
<1>2. ASSUME \A t \in Threads : pc[t] = "idle"
      PROVE  resource = 1 /\ reader_count_lock = 1 /\ reader_count = 0
  <2>1. CountedReaders = {}
    BY <1>2 DEF CountedReaders
  <2>2. reader_count = 0
    BY <2>1, FS_EmptySet DEF RPInv, HoldersInv
  <2> QED BY <1>2, <2>1, <2>2 DEF RPInv, Shape, NothingLeft, InReaderCount, ReadersHoldThrough
<1> QED BY <1>1, <1>2 DEF QuietMeansFree

\* What the locks module composes: nothing is left at the start or by a step.
LEMMA StepLeavesNothing ==
    /\ Init => NothingLeft
    /\ ThreadsConstants /\ RPInv /\ NothingLeft /\ [Next]_vars => NothingLeft'
<1>1. Init => NothingLeft
  BY DEF Init, NothingLeft
<1>2. ASSUME RPInv, NothingLeft, NEW t \in Threads,
             Proceed(t) \/ Acquire(t) \/ Release(t) \/ Interrupt(t)
      PROVE  NothingLeft'
  BY <1>2, ReaderNothingLeft, OtherNothingLeft DEF RPInv, Proceed
<1>3. NothingLeft /\ UNCHANGED vars => NothingLeft'
  BY DEF vars, NothingLeft, InReaderCount, ReadersHoldThrough, CountedReaders
<1> QED BY <1>1, <1>2, <1>3 DEF Next

\* Interrupted or not, calls that are over leave the reader-priority lock as
\* it was made.
THEOREM ReaderPriorityLeavesNothing ==
    ASSUME ThreadsConstants
    PROVE  Spec => [](TypeOK /\ QuietMeansFree)
<1>1. RPInv /\ NothingLeft => TypeOK /\ QuietMeansFree
  BY NothingLeftWhenQuiet
<1>2. Init => RPInv /\ NothingLeft
  BY RPInitInv, StepLeavesNothing
<1>3. RPInv /\ NothingLeft /\ [Next]_vars => (RPInv /\ NothingLeft)'
  BY RPStepInv, StepLeavesNothing
<1> QED BY <1>1, <1>2, <1>3, PTL DEF Spec
=============================================================================
