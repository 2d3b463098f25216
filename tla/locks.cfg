SPECIFICATION LocksSpec
CONSTANTS
    t1 = t1  t2 = t2  t3 = t3  t4 = t4
    Readers <- FirstThree
    Writers <- LastTwo
    ReadInterruptible <- JustOne
    WriteInterruptible <- Nobody
    LeakBound = 0
INVARIANTS LocksAreSound
PROPERTIES NoReaderJoinsBeforeWaitingWriter ImplementsRWLock ReaderPriorityImplementsRWLock
PROPERTIES WaitersGetIn
CHECK_DEADLOCK FALSE
