----------------------------- MODULE Locks_proof -----------------------------
(***************************************************************************)
(* Mutual exclusion and writer priority of the tier 1a lock, for every set *)
(* of readers and writers and whichever of their acquires are interrupted. *)
(* The resource and the gate are each held by a group: the readers through *)
(* their count, the writers through theirs.  ReaderInv and GateInv say who *)
(* holds what, and each is inductive given Shape.  The last part composes  *)
(* this lock with the reader-priority one, whose proofs are in its module. *)
(***************************************************************************)
EXTENDS MCLocks, FiniteSetTheorems, TLAPS

\* The types without the signs of the counters, which need the invariants.
Shape ==
    /\ pc \in [Threads -> Places]
    /\ raising \in [Threads -> BOOLEAN]
    /\ resource \in {0, 1} /\ reader_count_lock \in {0, 1}
    /\ write_count_lock \in {0, 1} /\ reader_gate \in {0, 1}
    /\ reader_count \in Int
    /\ writer_count \in Int

IInv == Shape /\ ReaderInv /\ GateInv

\* An interrupted write, at whatever count.
WriteBrokenOff(t) ==
    /\ \E from \in {"w_count", "w_gate", "w_resource", "ww_count"} : Goto(t, from, "idle")
    /\ UNCHANGED <<raising, semaphores, reader_count, writer_count>>

\* What a thread does to the lock, whichever writes may be interrupted.
Step(t) == Proceed(t) \/ Acquire(t) \/ Release(t) \/ InterruptRead(t) \/ WriteBrokenOff(t)
Steps == \E t \in Threads : Step(t)

\* Both variants of the lock take such steps only: the one whose write calls
\* are not interrupted, and the one whose are.
LEMMA NextSteps == [Next]_vars => [Steps]_vars
<1>1. ASSUME NEW t \in Threads, InterruptWrite(t) PROVE WriteBrokenOff(t)
  BY <1>1 DEF InterruptWrite, WriteBrokenOff
<1> QED BY <1>1 DEF Next, Interrupt, Steps, Step

\* Interrupted writes are steps of the same kind.
LEMMA LeakySteps == [Leaky!Next]_vars => [Steps]_vars
<1> SUFFICES ASSUME Leaky!Next PROVE Steps
  OBVIOUS
<1>1. PICK t \in Threads :
         Leaky!Proceed(t) \/ Leaky!Acquire(t) \/ Leaky!Release(t) \/ Leaky!Interrupt(t)
  BY DEF Leaky!Next, Leaky!Threads, Threads
<1>2. Leaky!Proceed(t) => Proceed(t)
  BY DEF Leaky!Proceed, Proceed, Leaky!Goto, Goto,
     Leaky!PassGate, Leaky!CountReader, Leaky!FirstReaderTakesResource, Leaky!UnlockCount,
     Leaky!ReopenGate, Leaky!UncountReader, Leaky!LastReaderFreesResource,
     Leaky!ReturnReleaseRead, Leaky!CountWriter, Leaky!FirstWriterClosesGate,
     Leaky!UnlockWriterCount, Leaky!WriterTakesResource, Leaky!UncountWriter,
     Leaky!LastWriterOpensGate, Leaky!ReturnReleaseWrite,
     PassGate, CountReader, FirstReaderTakesResource, UnlockCount, ReopenGate,
     UncountReader, LastReaderFreesResource, ReturnReleaseRead,
     CountWriter, FirstWriterClosesGate, UnlockWriterCount, WriterTakesResource,
     UncountWriter, LastWriterOpensGate, ReturnReleaseWrite
<1>3. Leaky!Acquire(t) \/ Leaky!Release(t) => Acquire(t) \/ Release(t)
  BY DEF Leaky!Acquire, Leaky!Release, Acquire, Release, Leaky!Goto, Goto,
     Leaky!CallAcquireRead, Leaky!CallAcquireWrite, Leaky!CallReleaseRead,
     Leaky!WriterFreesResource, Leaky!semaphores, semaphores,
     CallAcquireRead, CallAcquireWrite, CallReleaseRead, WriterFreesResource
<1>4. Leaky!Interrupt(t) => InterruptRead(t) \/ WriteBrokenOff(t)
  BY DEF Leaky!Interrupt, Leaky!InterruptRead, Leaky!InterruptWrite, Leaky!Goto,
     Leaky!semaphores, semaphores, InterruptRead, WriteBrokenOff, Goto
<1> QED BY <1>1, <1>2, <1>3, <1>4 DEF Steps, Step

-----------------------------------------------------------------------------
(* A counter and the set it counts. *)

\* One more member, one more in the count.
LEMMA CountGrows ==
    ASSUME NEW S, IsFiniteSet(S), NEW x, x \notin S
    PROVE  Cardinality(S \union {x}) = Cardinality(S) + 1
BY FS_AddElement

\* One member less, one less in the count.
LEMMA CountShrinks ==
    ASSUME NEW S, IsFiniteSet(S), NEW x, x \in S
    PROVE  Cardinality(S \ {x}) = Cardinality(S) - 1
BY FS_RemoveElement

\* The counted sets are finite, so their sizes are numbers.
LEMMA CountedFinite ==
    /\ IsFiniteSet(CountedReaders) /\ Cardinality(CountedReaders) \in Nat
    /\ IsFiniteSet(RegisteredWriters) /\ Cardinality(RegisteredWriters) \in Nat
    /\ Cardinality(CountedReaders) = 0 <=> CountedReaders = {}
<1>1. CountedReaders \subseteq Threads /\ RegisteredWriters \subseteq Threads
  BY DEF CountedReaders, RegisteredWriters
<1>2. IsFiniteSet(CountedReaders) /\ IsFiniteSet(RegisteredWriters)
  BY <1>1, FS_Subset, ThreadsAssumption
<1> QED BY <1>2, FS_CardinalityType, FS_EmptySet

-----------------------------------------------------------------------------
(* Types *)

\* Initially everything has its type.
LEMMA InitShape == Init => Shape
BY DEF Init, Shape, Places

\* Every step keeps every variable in its type.
LEMMA NextShape == Shape /\ [Steps]_vars => Shape'
<1> SUFFICES ASSUME Shape, [Steps]_vars PROVE Shape'
  OBVIOUS
<1> USE DEF Shape, Goto, semaphores
<1>1. ASSUME NEW t \in Threads, Proceed(t) PROVE Shape'
  <2>1. CASE PassGate(t) \/ CountReader(t) \/ FirstReaderTakesResource(t)
    BY <2>1 DEF PassGate, CountReader, FirstReaderTakesResource, Places, ReadEntry
  <2>2. CASE UnlockCount(t) \/ ReopenGate(t)
    BY <2>2 DEF UnlockCount, ReopenGate, Places, ReadEntry
  <2>3. CASE UncountReader(t) \/ LastReaderFreesResource(t) \/ ReturnReleaseRead(t)
    BY <2>3 DEF UncountReader, LastReaderFreesResource, ReturnReleaseRead, Places, ReadExit
  <2>4. CASE CountWriter(t) \/ FirstWriterClosesGate(t)
    BY <2>4 DEF CountWriter, FirstWriterClosesGate, Places, WriteEntry
  <2>5. CASE UnlockWriterCount(t) \/ WriterTakesResource(t)
    BY <2>5 DEF UnlockWriterCount, WriterTakesResource, Places, WriteEntry
  <2>6. CASE UncountWriter(t) \/ LastWriterOpensGate(t) \/ ReturnReleaseWrite(t)
    BY <2>6 DEF UncountWriter, LastWriterOpensGate, ReturnReleaseWrite, Places, WriteExit
  <2> QED BY <1>1, <2>1, <2>2, <2>3, <2>4, <2>5, <2>6 DEF Proceed
<1>2. ASSUME NEW t \in Threads, Acquire(t) PROVE Shape'
  BY <1>2 DEF Acquire, CallAcquireRead, CallAcquireWrite, Places, ReadEntry, WriteEntry
<1>3. ASSUME NEW t \in Threads, Release(t) PROVE Shape'
  BY <1>3 DEF Release, CallReleaseRead, WriterFreesResource, Places, ReadExit, WriteExit
<1>4. ASSUME NEW t \in Threads, InterruptRead(t) \/ WriteBrokenOff(t) PROVE Shape'
  <2>1. CASE InterruptRead(t)
    <3>1. pc' \in [Threads -> Places]
      BY <2>1 DEF InterruptRead, Places, ReadEntry
    <3>2. raising' \in [Threads -> BOOLEAN]
      BY <2>1, ZenonT(30) DEF InterruptRead
    <3>3. reader_count' \in Int
      BY <2>1 DEF InterruptRead
    <3> QED BY <2>1, <3>1, <3>2, <3>3 DEF InterruptRead
  <2>2. CASE WriteBrokenOff(t)
    BY <2>2 DEF WriteBrokenOff, Places
  <2> QED BY <1>4, <2>1, <2>2
<1>5. CASE UNCHANGED vars
  BY <1>5 DEF vars
<1> QED BY <1>1, <1>2, <1>3, <1>4, <1>5 DEF Steps, Step
-----------------------------------------------------------------------------
(* The readers' side *)

\* Initially nobody holds anything and nobody is counted.
LEMMA InitReaderInv == Init => ReaderInv
<1> SUFFICES ASSUME Init PROVE ReaderInv
  OBVIOUS
<1>1. CountedReaders = {}
  BY DEF Init, CountedReaders
<1>2. Cardinality(CountedReaders) = 0
  BY <1>1, FS_EmptySet
<1> QED BY <1>1, <1>2 DEF Init, ReaderInv, InReaderCount, ReadersHoldThrough

\* acquire_read keeps the readers' bookkeeping.
LEMMA AcquireReadReaderInv ==
    ASSUME Shape, ReaderInv, NEW t \in Threads,
           \/ CallAcquireRead(t) \/ PassGate(t) \/ CountReader(t)
           \/ FirstReaderTakesResource(t) \/ UnlockCount(t) \/ ReopenGate(t)
           \/ InterruptRead(t)
    PROVE  ReaderInv'
<1> USE DEF Shape, Goto, semaphores, ReaderInv, InReaderCount, ReadersHoldThrough
<1>1. CASE CallAcquireRead(t) \/ PassGate(t)
  <2>1. CountedReaders' = CountedReaders
    BY <1>1 DEF CallAcquireRead, PassGate, CountedReaders
  <2> QED BY <1>1, <2>1 DEF CallAcquireRead, PassGate
<1>2. CASE CountReader(t)
  <2>1. t \notin CountedReaders /\ pc[t] = "r_count" /\ ~raising[t]
    BY <1>2 DEF CountReader, CountedReaders
  <2>2. CountedReaders' = CountedReaders \union {t}
    BY <1>2, <2>1 DEF CountReader, CountedReaders
  <2>3. reader_count' = Cardinality(CountedReaders')
    BY <1>2, <2>1, <2>2, CountGrows, CountedFinite DEF CountReader
  <2>4. CASE reader_count' = 1
    <3>1. CountedReaders = {}
      BY <1>2, <2>4, CountedFinite DEF CountReader
    <3>2. CountedReaders' = {t}
      BY <2>2, <3>1
    <3>3. pc' = [pc EXCEPT ![t] = "r_resource"]
      BY <1>2, <2>4 DEF CountReader
    <3>4. \A u \in Threads : pc[u] # "rr_resource" /\ ~ReadersHoldThrough(u)'
      BY <1>2, <3>1, <3>2, <3>3 DEF CountReader
    <3> QED BY <1>2, <2>3, <3>2, <3>3, <3>4 DEF CountReader
  <2>5. CASE reader_count' # 1
    <3>1. PICK u \in CountedReaders : pc[u] # "r_resource"
      <4>1. CountedReaders # {}
        BY <1>2, <2>5, CountedFinite DEF CountReader
      <4>2. \A u \in Threads : pc[u] # "r_resource"
        BY <1>2 DEF CountReader
      <4> QED BY <4>1, <4>2 DEF CountedReaders
    <3>2. u \in Threads /\ ReadersHoldThrough(u)
      BY <3>1 DEF CountedReaders
    <3>3. resource = 0 /\ \A w \in Threads : pc[w] # "writing"
      BY <3>2
    <3>4. pc' = [pc EXCEPT ![t] = "r_unlock"]
      BY <1>2, <2>5 DEF CountReader
    <3> QED BY <1>2, <2>2, <2>3, <3>3, <3>4 DEF CountReader
  <2> QED BY <2>4, <2>5
<1>3. CASE FirstReaderTakesResource(t)
  <2>1. CountedReaders' = CountedReaders
    BY <1>3 DEF FirstReaderTakesResource, CountedReaders
  <2> QED BY <1>3, <2>1 DEF FirstReaderTakesResource
<1>4. CASE UnlockCount(t)
  <2>1. CountedReaders' = CountedReaders
    BY <1>4 DEF UnlockCount, CountedReaders
  <2> QED BY <1>4, <2>1 DEF UnlockCount
<1>5. CASE ReopenGate(t)
  <2>1. CountedReaders' = CountedReaders
    BY <1>5 DEF ReopenGate, CountedReaders
  <2> QED BY <1>5, <2>1 DEF ReopenGate
<1>6. CASE InterruptRead(t)
  <2>1. CASE pc[t] = "r_resource"
    <3>1. t \in CountedReaders /\ CountedReaders' = CountedReaders \ {t}
      BY <1>6, <2>1 DEF InterruptRead, CountedReaders
    <3>2. reader_count' = Cardinality(CountedReaders')
      BY <1>6, <2>1, <3>1, CountShrinks, CountedFinite DEF InterruptRead
    <3> QED BY <1>6, <2>1, <3>1, <3>2 DEF InterruptRead
  <2>2. CASE pc[t] # "r_resource"
    <3>1. CountedReaders' = CountedReaders
      BY <1>6, <2>2 DEF InterruptRead, CountedReaders
    <3> QED BY <1>6, <2>2, <3>1 DEF InterruptRead
  <2> QED BY <2>1, <2>2
<1> QED BY <1>1, <1>2, <1>3, <1>4, <1>5, <1>6
\* release_read keeps the readers' bookkeeping.
LEMMA ReleaseReadReaderInv ==
    ASSUME Shape, ReaderInv, NEW t \in Threads,
           \/ CallReleaseRead(t) \/ UncountReader(t)
           \/ LastReaderFreesResource(t) \/ ReturnReleaseRead(t)
    PROVE  ReaderInv'
<1> USE DEF Shape, Goto, semaphores, ReaderInv, InReaderCount, ReadersHoldThrough
<1>1. CASE CallReleaseRead(t)
  <2>1. CountedReaders' = CountedReaders
    BY <1>1 DEF CallReleaseRead, CountedReaders
  <2> QED BY <1>1, <2>1 DEF CallReleaseRead
<1>2. CASE UncountReader(t)
  <2>1. t \in CountedReaders /\ pc[t] = "rr_count"
    BY <1>2 DEF UncountReader, CountedReaders
  <2>2. CountedReaders' = CountedReaders \ {t}
    BY <1>2, <2>1 DEF UncountReader, CountedReaders
  <2>3. reader_count' = Cardinality(CountedReaders')
    BY <1>2, <2>1, <2>2, CountShrinks, CountedFinite DEF UncountReader
  <2>4. resource = 0 /\ \A w \in Threads : pc[w] # "writing"
    BY <2>1
  <2>5. \A u \in Threads : pc[u] \notin InReaderCount
    BY <1>2 DEF UncountReader
  <2>6. CASE reader_count' = 0
    <3>1. CountedReaders' = {}
      <4>1. IsFiniteSet(CountedReaders \ {t})
        BY FS_Subset, CountedFinite
      <4> QED BY <2>2, <2>3, <2>6, <4>1, FS_EmptySet
    <3>2. pc' = [pc EXCEPT ![t] = "rr_resource"]
      BY <1>2, <2>6 DEF UncountReader
    <3> QED BY <1>2, <2>3, <2>4, <2>5, <3>1, <3>2 DEF UncountReader
  <2>7. CASE reader_count' # 0
    <3>1. pc' = [pc EXCEPT ![t] = "rr_unlock"]
      BY <1>2, <2>7 DEF UncountReader
    <3> QED BY <1>2, <2>2, <2>3, <2>4, <2>5, <3>1 DEF UncountReader
  <2> QED BY <2>6, <2>7
<1>3. CASE LastReaderFreesResource(t)
  <2>1. CountedReaders' = CountedReaders /\ CountedReaders = {}
    BY <1>3 DEF LastReaderFreesResource, CountedReaders
  <2> QED BY <1>3, <2>1 DEF LastReaderFreesResource
<1>4. CASE ReturnReleaseRead(t)
  <2>1. CountedReaders' = CountedReaders
    BY <1>4 DEF ReturnReleaseRead, CountedReaders
  <2> QED BY <1>4, <2>1 DEF ReturnReleaseRead
<1> QED BY <1>1, <1>2, <1>3, <1>4

\* A writer changes nothing of the readers' bookkeeping but the resource, and
\* takes that only when it is free.
LEMMA WriteReaderInv ==
    ASSUME Shape, ReaderInv, NEW t \in Threads,
           \/ CallAcquireWrite(t) \/ CountWriter(t) \/ FirstWriterClosesGate(t)
           \/ UnlockWriterCount(t) \/ WriterTakesResource(t)
           \/ WriterFreesResource(t) \/ UncountWriter(t)
           \/ LastWriterOpensGate(t) \/ ReturnReleaseWrite(t) \/ WriteBrokenOff(t)
    PROVE  ReaderInv'
<1> USE DEF Shape, Goto, semaphores, ReaderInv, InReaderCount, ReadersHoldThrough
<1>1. CASE CallAcquireWrite(t) \/ CountWriter(t) \/ FirstWriterClosesGate(t)
  <2>1. CountedReaders' = CountedReaders
    BY <1>1 DEF CallAcquireWrite, CountWriter, FirstWriterClosesGate, CountedReaders
  <2> QED BY <1>1, <2>1 DEF CallAcquireWrite, CountWriter, FirstWriterClosesGate
<1>2. CASE UnlockWriterCount(t)
  <2>1. CountedReaders' = CountedReaders
    BY <1>2 DEF UnlockWriterCount, CountedReaders
  <2> QED BY <1>2, <2>1 DEF UnlockWriterCount
<1>3. CASE WriterTakesResource(t)
  <2>1. CountedReaders' = CountedReaders
    BY <1>3 DEF WriterTakesResource, CountedReaders
  <2> QED BY <1>3, <2>1 DEF WriterTakesResource
<1>4. CASE WriterFreesResource(t)
  <2>1. CountedReaders' = CountedReaders
    BY <1>4 DEF WriterFreesResource, CountedReaders
  <2> QED BY <1>4, <2>1 DEF WriterFreesResource
<1>5. CASE UncountWriter(t) \/ LastWriterOpensGate(t) \/ ReturnReleaseWrite(t)
  <2>1. CountedReaders' = CountedReaders
    BY <1>5 DEF UncountWriter, LastWriterOpensGate, ReturnReleaseWrite, CountedReaders
  <2> QED BY <1>5, <2>1 DEF UncountWriter, LastWriterOpensGate, ReturnReleaseWrite
<1>6. CASE WriteBrokenOff(t)
  <2>1. CountedReaders' = CountedReaders
    BY <1>6 DEF WriteBrokenOff, CountedReaders
  <2> QED BY <1>6, <2>1 DEF WriteBrokenOff
<1> QED BY <1>1, <1>2, <1>3, <1>4, <1>5, <1>6

\* ReaderInv is inductive.
LEMMA NextReaderInv == Shape /\ ReaderInv /\ [Steps]_vars => ReaderInv'
<1> SUFFICES ASSUME Shape, ReaderInv, [Steps]_vars PROVE ReaderInv'
  OBVIOUS
<1>1. CASE Steps
  <2>1. PICK t \in Threads : Step(t)
    BY <1>1 DEF Steps
  <2> QED BY <2>1, AcquireReadReaderInv, ReleaseReadReaderInv, WriteReaderInv
          DEF Step, Proceed, Acquire, Release
<1>2. CASE UNCHANGED vars
  BY <1>2 DEF vars, semaphores, ReaderInv, CountedReaders, InReaderCount, ReadersHoldThrough
<1> QED BY <1>1, <1>2
-----------------------------------------------------------------------------
(* The writers' side *)

\* Initially no writer is registered and the gate is open.
LEMMA InitGateInv == Init => GateInv
<1> SUFFICES ASSUME Init PROVE GateInv
  OBVIOUS
<1>1. RegisteredWriters = {}
  BY DEF Init, RegisteredWriters
<1>2. Cardinality(RegisteredWriters) = 0
  BY <1>1, FS_EmptySet
<1> QED BY <1>1, <1>2 DEF Init, GateInv, InWriterCount, PastGate

\* A reader holds the gate only while it passes it.
LEMMA ReadGateInv ==
    ASSUME Shape, GateInv, NEW t \in Threads,
           \/ CallAcquireRead(t) \/ PassGate(t) \/ CountReader(t)
           \/ FirstReaderTakesResource(t) \/ UnlockCount(t) \/ ReopenGate(t)
           \/ InterruptRead(t)
           \/ CallReleaseRead(t) \/ UncountReader(t)
           \/ LastReaderFreesResource(t) \/ ReturnReleaseRead(t)
    PROVE  GateInv'
<1> USE DEF Shape, Goto, semaphores, GateInv, InWriterCount, PastGate, WritersHoldGate
<1>1. CASE CallAcquireRead(t) \/ CallReleaseRead(t) \/ UncountReader(t)
           \/ LastReaderFreesResource(t) \/ ReturnReleaseRead(t)
  <2>1. RegisteredWriters' = RegisteredWriters
    BY <1>1 DEF CallAcquireRead, CallReleaseRead, UncountReader,
                LastReaderFreesResource, ReturnReleaseRead, RegisteredWriters
  <2> QED BY <1>1, <2>1 DEF CallAcquireRead, CallReleaseRead, UncountReader,
                            LastReaderFreesResource, ReturnReleaseRead
<1>2. CASE PassGate(t)
  <2>1. RegisteredWriters' = RegisteredWriters
    BY <1>2 DEF PassGate, RegisteredWriters
  <2> QED BY <1>2, <2>1 DEF PassGate
<1>3. CASE CountReader(t) \/ FirstReaderTakesResource(t) \/ UnlockCount(t)
  <2>1. RegisteredWriters' = RegisteredWriters
    BY <1>3 DEF CountReader, FirstReaderTakesResource, UnlockCount, RegisteredWriters
  <2> QED BY <1>3, <2>1 DEF CountReader, FirstReaderTakesResource, UnlockCount
<1>4. CASE ReopenGate(t)
  <2>1. RegisteredWriters' = RegisteredWriters
    BY <1>4 DEF ReopenGate, RegisteredWriters
  <2> QED BY <1>4, <2>1 DEF ReopenGate
<1>5. CASE InterruptRead(t)
  <2>1. RegisteredWriters' = RegisteredWriters
    BY <1>5 DEF InterruptRead, RegisteredWriters
  <2> QED BY <1>5, <2>1 DEF InterruptRead
<1> QED BY <1>1, <1>2, <1>3, <1>4, <1>5

\* acquire_write: the first writer registered closes the gate for them all.
LEMMA AcquireWriteGateInv ==
    ASSUME Shape, GateInv, NEW t \in Threads,
           \/ CallAcquireWrite(t) \/ CountWriter(t) \/ FirstWriterClosesGate(t)
           \/ UnlockWriterCount(t) \/ WriterTakesResource(t) \/ WriteBrokenOff(t)
    PROVE  GateInv'
<1> USE DEF Shape, Goto, semaphores, GateInv, InWriterCount, PastGate, WritersHoldGate
<1>1. CASE CallAcquireWrite(t)
  <2>1. RegisteredWriters' = RegisteredWriters
    BY <1>1 DEF CallAcquireWrite, RegisteredWriters
  <2> QED BY <1>1, <2>1 DEF CallAcquireWrite
<1>2. CASE CountWriter(t)
  <2>1. t \notin RegisteredWriters /\ RegisteredWriters' = RegisteredWriters \union {t}
    BY <1>2 DEF CountWriter, RegisteredWriters
  <2>2. writer_count' >= Cardinality(RegisteredWriters')
    BY <1>2, <2>1, CountGrows, CountedFinite DEF CountWriter
  <2>3. writer_count >= 0
    BY CountedFinite
  <2>4. CASE writer_count' = 1
    BY <1>2, <2>2, <2>3, <2>4 DEF CountWriter
  <2>5. CASE writer_count' # 1
    <3>1. WritersHoldGate
      BY <1>2, <2>3, <2>5 DEF CountWriter
    <3> QED BY <1>2, <2>2, <2>5, <3>1 DEF CountWriter
  <2> QED BY <2>4, <2>5
<1>3. CASE FirstWriterClosesGate(t)
  <2>1. RegisteredWriters' = RegisteredWriters
    BY <1>3 DEF FirstWriterClosesGate, RegisteredWriters
  <2> QED BY <1>3, <2>1 DEF FirstWriterClosesGate
<1>4. CASE UnlockWriterCount(t)
  <2>1. RegisteredWriters' = RegisteredWriters
    BY <1>4 DEF UnlockWriterCount, RegisteredWriters
  <2> QED BY <1>4, <2>1 DEF UnlockWriterCount
<1>5. CASE WriterTakesResource(t)
  <2>1. RegisteredWriters' = RegisteredWriters
    BY <1>5 DEF WriterTakesResource, RegisteredWriters
  <2> QED BY <1>5, <2>1 DEF WriterTakesResource
<1>6. CASE WriteBrokenOff(t)
  <2>1. writer_count' >= Cardinality(RegisteredWriters')
    <3>1. CASE t \in RegisteredWriters
      <4>1. RegisteredWriters' = RegisteredWriters \ {t}
        BY <1>6, <3>1 DEF WriteBrokenOff, RegisteredWriters
      <4> QED BY <1>6, <3>1, <4>1, CountShrinks, CountedFinite DEF WriteBrokenOff
    <3>2. CASE t \notin RegisteredWriters
      <4>1. RegisteredWriters' = RegisteredWriters
        BY <1>6, <3>2 DEF WriteBrokenOff, RegisteredWriters
      <4> QED BY <1>6, <4>1 DEF WriteBrokenOff
    <3> QED BY <3>1, <3>2
  <2> QED BY <1>6, <2>1 DEF WriteBrokenOff
<1> QED BY <1>1, <1>2, <1>3, <1>4, <1>5, <1>6

\* release_write: the gate reopens when no registered writer is left.
LEMMA ReleaseWriteGateInv ==
    ASSUME Shape, GateInv, NEW t \in Threads,
           \/ WriterFreesResource(t) \/ UncountWriter(t)
           \/ LastWriterOpensGate(t) \/ ReturnReleaseWrite(t)
    PROVE  GateInv'
<1> USE DEF Shape, Goto, semaphores, GateInv, InWriterCount, PastGate, WritersHoldGate
<1>1. CASE WriterFreesResource(t)
  <2>1. RegisteredWriters' = RegisteredWriters
    BY <1>1 DEF WriterFreesResource, RegisteredWriters
  <2> QED BY <1>1, <2>1 DEF WriterFreesResource
<1>2. CASE UncountWriter(t)
  <2>1. t \in RegisteredWriters /\ RegisteredWriters' = RegisteredWriters \ {t}
    BY <1>2 DEF UncountWriter, RegisteredWriters
  <2>2. writer_count' >= Cardinality(RegisteredWriters')
    BY <1>2, <2>1, CountShrinks, CountedFinite DEF UncountWriter
  <2>3. WritersHoldGate
    BY <1>2 DEF UncountWriter
  <2> QED BY <1>2, <2>2, <2>3 DEF UncountWriter
<1>3. CASE LastWriterOpensGate(t)
  <2>1. RegisteredWriters' = RegisteredWriters
    BY <1>3 DEF LastWriterOpensGate, RegisteredWriters
  <2>2. RegisteredWriters = {}
    <3>1. Cardinality(RegisteredWriters) = 0
      BY <1>3, CountedFinite DEF LastWriterOpensGate
    <3> QED BY <3>1, CountedFinite, FS_EmptySet
  <2>3. \A u \in Threads :
          pc'[u] \notin {"w_gate", "w_unlock", "w_resource", "writing", "ww_count"}
    BY <2>1, <2>2 DEF RegisteredWriters
  <2> QED BY <1>3, <2>1, <2>3 DEF LastWriterOpensGate
<1>4. CASE ReturnReleaseWrite(t)
  <2>1. RegisteredWriters' = RegisteredWriters
    BY <1>4 DEF ReturnReleaseWrite, RegisteredWriters
  <2> QED BY <1>4, <2>1 DEF ReturnReleaseWrite
<1> QED BY <1>1, <1>2, <1>3, <1>4

\* GateInv is inductive.
LEMMA NextGateInv == Shape /\ GateInv /\ [Steps]_vars => GateInv'
<1> SUFFICES ASSUME Shape, GateInv, [Steps]_vars PROVE GateInv'
  OBVIOUS
<1>1. CASE Steps
  <2>1. PICK t \in Threads : Step(t)
    BY <1>1 DEF Steps
  <2> QED BY <2>1, ReadGateInv, AcquireWriteGateInv, ReleaseWriteGateInv
          DEF Step, Proceed, Acquire, Release
<1>2. CASE UNCHANGED vars
  BY <1>2 DEF vars, semaphores, GateInv, RegisteredWriters, InWriterCount, PastGate,
              WritersHoldGate
<1> QED BY <1>1, <1>2

-----------------------------------------------------------------------------
(* The theorems *)

\* The inductive invariant holds in every behaviour.
LEMMA IInvInductive == (Init => IInv) /\ (IInv /\ [Steps]_vars => IInv')
<1>1. Init => IInv
  BY InitShape, InitReaderInv, InitGateInv DEF IInv
<1>2. IInv /\ [Steps]_vars => IInv'
  BY NextShape, NextReaderInv, NextGateInv DEF IInv
<1> QED BY <1>1, <1>2

\* Whichever lock is constructed takes its own steps, and the others none.
LEMMA LocksTakeSteps ==
    /\ LocksInit => Init /\ RP!Init
    /\ [LocksNext]_all => [Steps]_vars /\ [RP!Next]_(RP!vars)
<1>1. LocksInit => Init /\ RP!Init
  BY DEF LocksInit
<1>2. UNCHANGED all => UNCHANGED vars /\ UNCHANGED RP!vars
  BY DEF all, rp_vars, RP!vars
<1>3. ASSUME LocksNext PROVE [Steps]_vars /\ [RP!Next]_(RP!vars)
  <2>1. tier = "reader_priority" \/ UNCHANGED RP!vars
    BY <1>3 DEF LocksNext, OthersRest, rp_vars, RP!vars
  <2>2. tier \in {"writer_priority", "leaky"} \/ UNCHANGED vars
    BY <1>3 DEF LocksNext, OthersRest
  <2>3. CASE WriterPriorityStep \/ LeakyStep
    BY <2>1, <2>3, NextSteps, LeakySteps DEF WriterPriorityStep, LeakyStep
  <2>4. CASE ReaderPriorityStep
    BY <2>2, <2>4 DEF ReaderPriorityStep
  <2> QED BY <1>3, <2>3, <2>4 DEF LocksNext
<1> QED BY <1>1, <1>2, <1>3

\* So it does for the lock by itself, and for the locks together.
THEOREM Invariance == (Spec => []IInv) /\ (LocksSpec => []IInv)
BY IInvInductive, NextSteps, LocksTakeSteps, PTL DEF Spec, LocksSpec

\* Every variable keeps its type; in particular neither counter of __init__
\* ever goes below zero and no semaphore above its one permit.
THEOREM TypeCorrect ==
    /\ Spec => []TypeOK
    /\ LocksSpec => []TypeOK
<1>1. IInv => TypeOK
  BY CountedFinite DEF IInv, Shape, ReaderInv, GateInv, TypeOK
<1> QED BY <1>1, Invariance, PTL

\* A writer in its critical section is alone, for any number of threads and
\* whichever acquire is interrupted (the module's Invariants section).
THEOREM Exclusion ==
    /\ Spec => []MutualExclusion
    /\ LocksSpec => []MutualExclusion
<1>1. IInv => MutualExclusion
  BY DEF IInv, ReaderInv, ReadersHoldThrough, CountedReaders, MutualExclusion
<1> QED BY <1>1, Invariance, PTL

\* Once a writer waits for the readers inside to drain, no reader joins them
\* (the "killer test" of tier 1a).
THEOREM WriterPriority ==
    /\ Spec => NoReaderJoinsBeforeWaitingWriter
    /\ LocksSpec => NoReaderJoinsBeforeWaitingWriter
<1> DEFINE Waits == \E w \in Threads : pc[w] = "w_resource"
           Joins == \A t \in Threads : pc'[t] = "reading" => pc[t] \in {"reading", "rr_count"}
<1>1. IInv /\ [Steps]_vars => [Waits => Joins]_vars
  <2> SUFFICES ASSUME IInv, Steps, Waits, NEW t \in Threads, pc'[t] = "reading"
               PROVE  pc[t] \in {"reading", "rr_count"}
    BY DEF IInv
  <2>1. pc[t] \notin PastGate
    BY DEF IInv, GateInv, WritersHoldGate
  <2>2. PICK u \in Threads : Step(u)
    BY DEF Steps
  <2>3. CASE u # t
    <3>1. pc'[t] = pc[t]
      BY <2>2, <2>3 DEF IInv, Shape, Goto, Step, Proceed, Acquire, Release,
           PassGate, CountReader, FirstReaderTakesResource, UnlockCount, ReopenGate,
           UncountReader, LastReaderFreesResource, ReturnReleaseRead,
           CountWriter, FirstWriterClosesGate, UnlockWriterCount, WriterTakesResource,
           UncountWriter, LastWriterOpensGate, ReturnReleaseWrite,
           CallAcquireRead, CallAcquireWrite, CallReleaseRead, WriterFreesResource,
           InterruptRead, WriteBrokenOff
    <3> QED BY <3>1
  <2>4. CASE u = t
    BY <2>1, <2>2, <2>4 DEF IInv, Shape, Goto, Step, Proceed, Acquire, Release,
         PassGate, CountReader, FirstReaderTakesResource, UnlockCount, ReopenGate,
         UncountReader, LastReaderFreesResource, ReturnReleaseRead,
         CountWriter, FirstWriterClosesGate, UnlockWriterCount, WriterTakesResource,
         UncountWriter, LastWriterOpensGate, ReturnReleaseWrite,
         CallAcquireRead, CallAcquireWrite, CallReleaseRead, WriterFreesResource,
         InterruptRead, WriteBrokenOff, PastGate
  <2> QED BY <2>3, <2>4
<1> QED BY <1>1, Invariance, NextSteps, LocksTakeSteps, PTL
        DEF Spec, LocksSpec, NoReaderJoinsBeforeWaitingWriter
-----------------------------------------------------------------------------
(* Refinement *)

\* A step that moves no thread in or out of its critical section is a stutter
\* of the abstract lock.
LEMMA Stutters ==
    ASSUME \A u \in Threads : pc'[u] # pc[u] =>
              {pc[u], pc'[u]} \intersect {"reading", "writing"} = {}
    PROVE  [Abstract!Next]_(Abstract!vars)
BY DEF Abstract!vars

\* Each step of a thread is a step of the abstract lock or a stutter.
LEMMA StepRefines ==
    ASSUME IInv, NEW t \in Threads,
           Step(t)
    PROVE  [Abstract!Next]_(Abstract!vars)
<1> USE DEF IInv, Shape, Goto
<1>1. CASE pc'[t] = "reading" /\ pc[t] # "reading"
  <2>1. pc' = [pc EXCEPT ![t] = "reading"] /\ t \in CountedReaders /\ pc[t] # "r_resource"
    BY <1>1 DEF Step, Proceed, Acquire, Release, CountedReaders,
         PassGate, CountReader, FirstReaderTakesResource, UnlockCount, ReopenGate,
         UncountReader, LastReaderFreesResource, ReturnReleaseRead,
         CountWriter, FirstWriterClosesGate, UnlockWriterCount, WriterTakesResource,
         UncountWriter, LastWriterOpensGate, ReturnReleaseWrite,
         CallAcquireRead, CallAcquireWrite, CallReleaseRead, WriterFreesResource,
         InterruptRead, WriteBrokenOff
  <2>2. \A w \in Threads : pc[w] # "writing"
    BY <2>1 DEF ReaderInv, ReadersHoldThrough
  <2>3. Abstract!AcquireRead(t)
    BY <1>1, <2>1, <2>2 DEF Abstract!AcquireRead
  <2> QED BY <2>3 DEF Abstract!Next
<1>2. CASE CallReleaseRead(t)
  <2>1. Abstract!ReleaseRead(t)
    BY <1>2 DEF CallReleaseRead, Abstract!ReleaseRead
  <2> QED BY <2>1 DEF Abstract!Next
<1>3. CASE WriterTakesResource(t)
  <2>1. \A u \in Threads : pc[u] \notin {"reading", "writing"}
    BY <1>3 DEF WriterTakesResource, ReaderInv, ReadersHoldThrough, CountedReaders
  <2>2. pc' = [pc EXCEPT ![t] = "writing"]
    BY <1>3 DEF WriterTakesResource
  <2>3. Abstract!AcquireWrite(t)
    BY <2>1, <2>2 DEF Abstract!AcquireWrite
  <2> QED BY <2>3 DEF Abstract!Next
<1>4. CASE WriterFreesResource(t)
  <2>1. Abstract!ReleaseWrite(t)
    BY <1>4 DEF WriterFreesResource, Abstract!ReleaseWrite
  <2> QED BY <2>1 DEF Abstract!Next
<1>5. CASE /\ ~(pc'[t] = "reading" /\ pc[t] # "reading")
           /\ ~CallReleaseRead(t) /\ ~WriterTakesResource(t) /\ ~WriterFreesResource(t)
  <2>1. pc[t] \notin {"reading", "writing"} /\ pc'[t] \notin {"reading", "writing"}
    BY <1>5 DEF Step, Proceed, Acquire, Release,
         PassGate, CountReader, FirstReaderTakesResource, UnlockCount, ReopenGate,
         UncountReader, LastReaderFreesResource, ReturnReleaseRead,
         CountWriter, FirstWriterClosesGate, UnlockWriterCount,
         UncountWriter, LastWriterOpensGate, ReturnReleaseWrite,
         CallAcquireRead, CallAcquireWrite, InterruptRead, WriteBrokenOff
  <2>2. \A u \in Threads : u # t => pc'[u] = pc[u]
    BY <1>5 DEF Step, Proceed, Acquire, Release,
         PassGate, CountReader, FirstReaderTakesResource, UnlockCount, ReopenGate,
         UncountReader, LastReaderFreesResource, ReturnReleaseRead,
         CountWriter, FirstWriterClosesGate, UnlockWriterCount,
         UncountWriter, LastWriterOpensGate, ReturnReleaseWrite,
         CallAcquireRead, CallAcquireWrite, InterruptRead, WriteBrokenOff
  <2>3. \A u \in Threads : pc'[u] # pc[u] =>
          {pc[u], pc'[u]} \intersect {"reading", "writing"} = {}
    BY <2>1, <2>2
  <2> QED BY <2>3, Stutters
<1> QED BY <1>1, <1>2, <1>3, <1>4, <1>5

\* The lock implements the reader-writer lock of RWLock: what its callers see
\* are the steps of the abstract specification.
THEOREM Refinement ==
    /\ Spec => ImplementsRWLock
    /\ LocksSpec => ImplementsRWLock
<1>1. Init => Abstract!Init
  BY DEF Init, Abstract!Init
<1>2. IInv /\ [Steps]_vars =>
        [Abstract!Next]_(Abstract!vars)
  <2>1. ASSUME IInv, Steps
        PROVE  [Abstract!Next]_(Abstract!vars)
    BY <2>1, StepRefines DEF Steps
  <2>2. ASSUME UNCHANGED vars
        PROVE  UNCHANGED Abstract!vars
    BY <2>2 DEF vars, Abstract!vars
  <2> QED BY <2>1, <2>2
<1> QED BY <1>1, <1>2, Invariance, NextSteps, LocksTakeSteps, PTL
        DEF Spec, LocksSpec, ImplementsRWLock, Abstract!Spec
-----------------------------------------------------------------------------
(* Nothing is left behind *)

\* The writers that hold the gate.
ClosedGate == {"w_unlock", "w_resource", "writing", "ww_count", "ww_gate"}

\* A semaphore is taken only while somebody holds it, and only writers that
\* are there are counted.  It takes writes that are not interrupted.
WritersCounted == writer_count = Cardinality(RegisteredWriters)
CountLocksHeld ==
    /\ reader_count_lock = 0 => \E t \in Threads : pc[t] \in InReaderCount
    /\ write_count_lock = 0 => \E t \in Threads : pc[t] \in InWriterCount
ResourceHeld == resource = 0 => \E t \in Threads : ReadersHoldThrough(t) \/ pc[t] = "writing"
GateHeld == reader_gate = 0 => \E t \in Threads : pc[t] \in PastGate \union ClosedGate

NothingLeft == WritersCounted /\ CountLocksHeld /\ ResourceHeld /\ GateHeld

\* What a thread does when its write call is not interrupted.
Calm(t) == Proceed(t) \/ Acquire(t) \/ Release(t) \/ InterruptRead(t)

\* A writer is counted from CountWriter to UncountWriter.
LEMMA CalmWritersCounted ==
    ASSUME Shape, WritersCounted, NEW t \in Threads, Calm(t) PROVE WritersCounted'
<1> USE DEF Shape, Goto, WritersCounted, semaphores
<1>1. CASE CountWriter(t)
  <2>1. t \notin RegisteredWriters /\ RegisteredWriters' = RegisteredWriters \union {t}
    BY <1>1 DEF CountWriter, RegisteredWriters
  <2> QED BY <1>1, <2>1, CountGrows, CountedFinite DEF CountWriter
<1>2. CASE UncountWriter(t)
  <2>1. t \in RegisteredWriters /\ RegisteredWriters' = RegisteredWriters \ {t}
    BY <1>2 DEF UncountWriter, RegisteredWriters
  <2> QED BY <1>2, <2>1, CountShrinks, CountedFinite DEF UncountWriter
<1>3. CASE ~CountWriter(t) /\ ~UncountWriter(t)
  <2>1. UNCHANGED writer_count
    BY <1>3 DEF Calm, Proceed, Acquire, Release, PassGate, CountReader,
       FirstReaderTakesResource, UnlockCount, ReopenGate, UncountReader,
       LastReaderFreesResource, ReturnReleaseRead, FirstWriterClosesGate, UnlockWriterCount,
       WriterTakesResource, LastWriterOpensGate, ReturnReleaseWrite,
       CallAcquireRead, CallAcquireWrite, CallReleaseRead, WriterFreesResource, InterruptRead
  <2>2. RegisteredWriters' = RegisteredWriters
    <3>1. \A u \in Threads : u # t => pc'[u] = pc[u]
      BY <1>3 DEF Calm, Proceed, Acquire, Release, PassGate, CountReader,
         FirstReaderTakesResource, UnlockCount, ReopenGate, UncountReader,
         LastReaderFreesResource, ReturnReleaseRead, FirstWriterClosesGate, UnlockWriterCount,
         WriterTakesResource, LastWriterOpensGate, ReturnReleaseWrite,
         CallAcquireRead, CallAcquireWrite, CallReleaseRead, WriterFreesResource, InterruptRead
    <3>2. t \in RegisteredWriters <=> t \in RegisteredWriters'
      BY <1>3 DEF RegisteredWriters, Calm, Proceed, Acquire, Release, PassGate, CountReader,
         FirstReaderTakesResource, UnlockCount, ReopenGate, UncountReader,
         LastReaderFreesResource, ReturnReleaseRead, FirstWriterClosesGate, UnlockWriterCount,
         WriterTakesResource, LastWriterOpensGate, ReturnReleaseWrite,
         CallAcquireRead, CallAcquireWrite, CallReleaseRead, WriterFreesResource, InterruptRead
    <3> QED BY <3>1, <3>2 DEF RegisteredWriters
  <2> QED BY <2>1, <2>2
<1> QED BY <1>1, <1>2, <1>3

\* Each count lock is held from the step that counts to the one that unlocks.
LEMMA CalmCountLocksHeld ==
    ASSUME Shape, CountLocksHeld, NEW t \in Threads, Calm(t) PROVE CountLocksHeld'
<1> USE DEF Shape, Goto, CountLocksHeld, InReaderCount, InWriterCount, semaphores
<1>1. CASE CountReader(t) \/ UnlockCount(t) \/ UncountReader(t) \/ ReturnReleaseRead(t)
  <2>1. /\ reader_count_lock' = 1 \/ pc'[t] \in InReaderCount
        /\ UNCHANGED write_count_lock /\ pc[t] \notin InWriterCount
        /\ \A u \in Threads : u # t => pc'[u] = pc[u]
    BY <1>1 DEF CountReader, UnlockCount, UncountReader, ReturnReleaseRead
  <2> QED BY <2>1
<1>2. CASE CountWriter(t) \/ UnlockWriterCount(t) \/ UncountWriter(t) \/ ReturnReleaseWrite(t)
  <2>1. /\ write_count_lock' = 1 \/ pc'[t] \in InWriterCount
        /\ UNCHANGED reader_count_lock /\ pc[t] \notin InReaderCount
        /\ \A u \in Threads : u # t => pc'[u] = pc[u]
    BY <1>2 DEF CountWriter, UnlockWriterCount, UncountWriter, ReturnReleaseWrite
  <2> QED BY <2>1
<1>3. CASE /\ ~(CountReader(t) \/ UnlockCount(t) \/ UncountReader(t) \/ ReturnReleaseRead(t))
           /\ ~(CountWriter(t) \/ UnlockWriterCount(t) \/ UncountWriter(t)
                  \/ ReturnReleaseWrite(t))
  <2>1. UNCHANGED <<reader_count_lock, write_count_lock>>
    BY <1>3 DEF Calm, Proceed, Acquire, Release, PassGate, FirstReaderTakesResource,
       ReopenGate, LastReaderFreesResource, FirstWriterClosesGate, WriterTakesResource,
       LastWriterOpensGate, CallAcquireRead, CallAcquireWrite, CallReleaseRead,
       WriterFreesResource, InterruptRead
  <2>2. \A u \in Threads : /\ pc[u] \in InReaderCount => pc'[u] \in InReaderCount
                           /\ pc[u] \in InWriterCount => pc'[u] \in InWriterCount
    BY <1>3 DEF Calm, Proceed, Acquire, Release, PassGate, FirstReaderTakesResource,
       ReopenGate, LastReaderFreesResource, FirstWriterClosesGate, WriterTakesResource,
       LastWriterOpensGate, CallAcquireRead, CallAcquireWrite, CallReleaseRead,
       WriterFreesResource, InterruptRead
  <2> QED BY <2>1, <2>2
<1> QED BY <1>1, <1>2, <1>3

\* A reader that leaves while others are counted leaves them the resource.
LEMMA OthersStillRead ==
    ASSUME Shape, ReaderInv, NEW t \in Threads, pc[t] = "rr_count",
           reader_count_lock = 1, reader_count - 1 # 0
    PROVE  \E u \in Threads : u # t /\ ReadersHoldThrough(u)
<1>1. t \in CountedReaders
  BY DEF CountedReaders
<1>2. ASSUME CountedReaders = {t} PROVE FALSE
  <2>1. Cardinality(CountedReaders) = 1
    BY <1>2, FS_Singleton
  <2> QED BY <2>1 DEF ReaderInv
<1>3. PICK u \in CountedReaders : u # t
  BY <1>1, <1>2
<1>4. u \in Threads /\ pc[u] # "r_resource"
  BY DEF ReaderInv, CountedReaders, InReaderCount
<1> QED BY <1>3, <1>4 DEF ReadersHoldThrough

\* The resource is held by a reader that is counted, or by a writer.
LEMMA CalmResourceHeld ==
    ASSUME Shape, ReaderInv, ResourceHeld, NEW t \in Threads, Calm(t) PROVE ResourceHeld'
<1> USE DEF Shape, Goto, ResourceHeld, semaphores
<1>1. CASE UncountReader(t)
  <2>1. /\ pc[t] = "rr_count" /\ pc'[t] \in {"rr_resource", "rr_unlock"}
        /\ UNCHANGED <<resource, raising>> /\ reader_count_lock = 1
        /\ pc'[t] = "rr_unlock" => reader_count - 1 # 0
    BY <1>1 DEF UncountReader
  <2>2. \A u \in Threads : u # t => ReadersHoldThrough(u)' = ReadersHoldThrough(u)
    BY <1>1 DEF UncountReader, ReadersHoldThrough, CountedReaders
  <2>3. CASE pc'[t] = "rr_resource"
    BY <2>1, <2>3 DEF ReadersHoldThrough
  <2>4. CASE pc'[t] = "rr_unlock"
    BY <2>1, <2>2, <2>4, OthersStillRead
  <2> QED BY <2>1, <2>3, <2>4
<1>2. CASE FirstReaderTakesResource(t)
  <2>1. pc' = [pc EXCEPT ![t] = "r_unlock"] /\ UNCHANGED raising /\ ~raising[t]
    BY <1>2 DEF FirstReaderTakesResource, ReaderInv
  <2>2. ReadersHoldThrough(t)'
    BY <2>1 DEF ReadersHoldThrough, CountedReaders
  <2> QED BY <2>1, <2>2
<1>3. CASE WriterTakesResource(t)
  <2>1. pc'[t] = "writing"
    BY <1>3 DEF WriterTakesResource
  <2> QED BY <2>1
<1>4. CASE LastReaderFreesResource(t) \/ WriterFreesResource(t)
  BY <1>4 DEF LastReaderFreesResource, WriterFreesResource
<1>5. CASE /\ ~UncountReader(t) /\ ~FirstReaderTakesResource(t) /\ ~WriterTakesResource(t)
           /\ ~LastReaderFreesResource(t) /\ ~WriterFreesResource(t)
  <2>1. UNCHANGED resource
    BY <1>5 DEF Calm, Proceed, Acquire, Release, PassGate, CountReader, UnlockCount, ReopenGate,
       ReturnReleaseRead, CountWriter, FirstWriterClosesGate, UnlockWriterCount, UncountWriter,
       LastWriterOpensGate, ReturnReleaseWrite, CallAcquireRead, CallAcquireWrite,
       CallReleaseRead, InterruptRead
  <2>2. \A u \in Threads : pc[u] = "writing" => pc'[u] = "writing"
    BY <1>5 DEF Calm, Proceed, Acquire, Release, PassGate, CountReader, UnlockCount, ReopenGate,
       ReturnReleaseRead, CountWriter, FirstWriterClosesGate, UnlockWriterCount, UncountWriter,
       LastWriterOpensGate, ReturnReleaseWrite, CallAcquireRead, CallAcquireWrite,
       CallReleaseRead, InterruptRead
  <2>3. ASSUME NEW u \in Threads, u # t, ReadersHoldThrough(u) PROVE ReadersHoldThrough(u)'
    BY <1>5, <2>3 DEF ReadersHoldThrough, CountedReaders, Calm, Proceed, Acquire, Release,
       PassGate, CountReader, UnlockCount, ReopenGate,
       ReturnReleaseRead, CountWriter, FirstWriterClosesGate, UnlockWriterCount, UncountWriter,
       LastWriterOpensGate, ReturnReleaseWrite, CallAcquireRead, CallAcquireWrite,
       CallReleaseRead, InterruptRead
  <2>4. ASSUME ReadersHoldThrough(t) PROVE ReadersHoldThrough(t)'
    <3>1. \/ pc[t] = "reading" \/ pc[t] = "rr_count" \/ pc[t] = "rr_resource"
          \/ pc[t] \in {"r_unlock", "r_open"} /\ ~raising[t]
      BY <2>4 DEF ReadersHoldThrough, CountedReaders
    <3>2. \/ UnlockCount(t) \/ ReopenGate(t) \/ CallReleaseRead(t) \/ InterruptRead(t)
      BY <1>5, <3>1 DEF Calm, Proceed, Acquire, Release, PassGate, CountReader,
       ReturnReleaseRead, CountWriter, FirstWriterClosesGate, UnlockWriterCount, UncountWriter,
       LastWriterOpensGate, ReturnReleaseWrite, CallAcquireRead, CallAcquireWrite
    <3> QED BY <3>1, <3>2 DEF UnlockCount, ReopenGate, CallReleaseRead, InterruptRead,
            ReadersHoldThrough, CountedReaders
  <2> QED BY <2>1, <2>2, <2>3, <2>4
<1> QED BY <1>1, <1>2, <1>3, <1>4, <1>5

\* The gate is closed by a reader on its way, or for the writers.
LEMMA CalmGateHeld ==
    ASSUME Shape, GateInv, WritersCounted, GateHeld, NEW t \in Threads, Calm(t)
    PROVE  GateHeld'
<1> USE DEF Shape, Goto, GateHeld, PastGate, ClosedGate, semaphores
<1>1. CASE ReopenGate(t) \/ LastWriterOpensGate(t)
  BY <1>1 DEF ReopenGate, LastWriterOpensGate
<1>2. CASE PassGate(t) \/ FirstWriterClosesGate(t)
  <2>1. pc'[t] \in {"r_count", "w_unlock"}
    BY <1>2 DEF PassGate, FirstWriterClosesGate
  <2> QED BY <2>1
<1>3. CASE UncountWriter(t)
  <2>1. /\ pc[t] = "ww_count" /\ pc'[t] \in {"ww_gate", "ww_unlock"}
        /\ \A u \in Threads : u # t => pc'[u] = pc[u]
        /\ write_count_lock = 1
        /\ pc'[t] = "ww_unlock" => writer_count - 1 # 0
    BY <1>3 DEF UncountWriter
  <2>2. CASE pc'[t] = "ww_gate"
    BY <2>2
  <2>3. CASE pc'[t] = "ww_unlock"
    <3>1. t \in RegisteredWriters
      BY <2>1 DEF RegisteredWriters
    <3>2. ASSUME RegisteredWriters = {t} PROVE FALSE
      <4>1. Cardinality(RegisteredWriters) = 1
        BY <3>2, FS_Singleton
      <4> QED BY <4>1, <2>1, <2>3 DEF WritersCounted
    <3>3. PICK u \in RegisteredWriters : u # t
      BY <3>1, <3>2
    <3>4. u \in Threads /\ pc[u] \in {"w_resource", "writing", "ww_count"}
      BY <2>1 DEF GateInv, RegisteredWriters, InWriterCount
    <3> QED BY <2>1, <3>3, <3>4
  <2> QED BY <2>1, <2>2, <2>3
<1>4. CASE /\ ~ReopenGate(t) /\ ~LastWriterOpensGate(t) /\ ~PassGate(t)
           /\ ~FirstWriterClosesGate(t) /\ ~UncountWriter(t)
  <2>1. UNCHANGED reader_gate
    BY <1>4 DEF Calm, Proceed, Acquire, Release, CountReader, FirstReaderTakesResource,
       UnlockCount, UncountReader, LastReaderFreesResource, ReturnReleaseRead, CountWriter,
       UnlockWriterCount, WriterTakesResource, ReturnReleaseWrite,
       CallAcquireRead, CallAcquireWrite, CallReleaseRead, WriterFreesResource, InterruptRead
  <2>2. \A u \in Threads :
          pc[u] \in PastGate \union ClosedGate => pc'[u] \in PastGate \union ClosedGate
    BY <1>4 DEF Calm, Proceed, Acquire, Release, CountReader, FirstReaderTakesResource,
       UnlockCount, UncountReader, LastReaderFreesResource, ReturnReleaseRead, CountWriter,
       UnlockWriterCount, WriterTakesResource, ReturnReleaseWrite,
       CallAcquireRead, CallAcquireWrite, CallReleaseRead, WriterFreesResource, InterruptRead
  <2> QED BY <2>1, <2>2
<1> QED BY <1>1, <1>2, <1>3, <1>4

\* Nothing is left by any step of a lock whose writes are not interrupted.
LEMMA CalmLeavesNothing ==
    ASSUME WriteInterruptible = {}
    PROVE  /\ Init => NothingLeft
           /\ IInv /\ NothingLeft /\ [Next]_vars => NothingLeft'
<1>1. ASSUME Init PROVE NothingLeft
  <2>1. RegisteredWriters = {}
    BY <1>1 DEF Init, RegisteredWriters
  <2>2. Cardinality(RegisteredWriters) = 0
    BY <2>1, FS_EmptySet
  <2> QED BY <1>1, <2>2 DEF Init, NothingLeft, WritersCounted, CountLocksHeld, ResourceHeld,
          GateHeld
<1>2. ASSUME IInv, NothingLeft, Next PROVE NothingLeft'
  <2>1. PICK t \in Threads : Calm(t)
    BY <1>2 DEF Next, Interrupt, InterruptWrite, Calm
  <2> QED BY <1>2, <2>1, CalmWritersCounted, CalmCountLocksHeld, CalmResourceHeld, CalmGateHeld
          DEF IInv, NothingLeft
<1>3. NothingLeft /\ UNCHANGED vars => NothingLeft'
  BY DEF vars, semaphores, NothingLeft, WritersCounted, CountLocksHeld, ResourceHeld, GateHeld,
     RegisteredWriters, ReadersHoldThrough, CountedReaders, InReaderCount, InWriterCount
<1> QED BY <1>1, <1>2, <1>3

\* Whoever holds a semaphore is in a call or has the lock.
LEMMA QuietWhenNothingLeft ==
    ASSUME IInv, NothingLeft PROVE QuietMeansFree
<1> SUFFICES ASSUME \A t \in Threads : pc[t] = "idle"
             PROVE  semaphores = <<1, 1, 1, 1>> /\ reader_count = 0 /\ writer_count = 0
  BY DEF QuietMeansFree
<1>1. CountedReaders = {} /\ RegisteredWriters = {}
  BY DEF CountedReaders, RegisteredWriters
<1>2. reader_count = 0 /\ writer_count = 0
  BY <1>1, FS_EmptySet DEF IInv, ReaderInv, NothingLeft, WritersCounted
<1>3. reader_count_lock = 1 /\ write_count_lock = 1
  BY DEF IInv, Shape, NothingLeft, CountLocksHeld, InReaderCount, InWriterCount
<1>4. resource = 1
  BY <1>1 DEF IInv, Shape, NothingLeft, ResourceHeld, ReadersHoldThrough
<1>5. reader_gate = 1
  BY DEF IInv, Shape, NothingLeft, GateHeld, PastGate, ClosedGate
<1> QED BY <1>2, <1>3, <1>4, <1>5 DEF semaphores

\* Calls that are over leave both locks as they were made, for all threads
\* and whatever read is interrupted; the write calls of the writer-priority
\* lock are not (interrupted writes do leave it in disorder).
THEOREM LocksLeaveNothing ==
    ASSUME WriteInterruptible = {}
    PROVE  LocksSpec => []LocksAreSound
<1> DEFINE Left == /\ tier # "leaky" => NothingLeft
                   /\ RP!RPInv /\ RP!NothingLeft
<1>1. IInv /\ Left => LocksAreSound
  <2>1. IInv => TypeOK
    BY CountedFinite DEF IInv, Shape, ReaderInv, GateInv, TypeOK
  <2> QED BY <2>1, QuietWhenNothingLeft, RP!NothingLeftWhenQuiet, ReaderPriorityConstants
          DEF LocksAreSound
<1>2. LocksInit => Left
  BY LocksTakeSteps, CalmLeavesNothing, RP!RPInitInv, RP!StepLeavesNothing,
     ReaderPriorityConstants
<1>3. ASSUME IInv, Left, [LocksNext]_all PROVE Left'
  <2>1. RP!RPInv' /\ RP!NothingLeft'
    BY <1>3, LocksTakeSteps, RP!RPStepInv, RP!StepLeavesNothing, ReaderPriorityConstants
  <2>2. UNCHANGED tier
    BY <1>3 DEF LocksNext, OthersRest, all
  <2>3. tier # "leaky" => [Next]_vars
    BY <1>3 DEF LocksNext, WriterPriorityStep, LeakyStep, ReaderPriorityStep, OthersRest, all
  <2> QED BY <1>3, <2>1, <2>2, <2>3, CalmLeavesNothing
<1> QED BY <1>1, <1>2, <1>3, Invariance, PTL DEF LocksSpec

\* The reader-priority lock implements the reader-writer lock, constructed
\* beside the other one.
THEOREM ReaderPriorityRefinement == LocksSpec => ReaderPriorityImplementsRWLock
<1>1. RP!Spec => RP!ImplementsRWLock
  BY RP!ReaderPriorityRefinement, ReaderPriorityConstants
<1>2. LocksSpec => RP!Spec
  BY LocksTakeSteps, PTL DEF LocksSpec, RP!Spec
<1> QED BY <1>1, <1>2, PTL DEF ReaderPriorityImplementsRWLock
=============================================================================
