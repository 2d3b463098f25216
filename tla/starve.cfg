SPECIFICATION LocksSpec
CONSTANTS
    t1 = t1  t2 = t2  t3 = t3  t4 = t4
    Readers <- FirstTwo
    Writers <- JustTheLast
    ReadInterruptible <- Nobody
    WriteInterruptible <- Nobody
    LeakBound = 0
PROPERTIES StreamOfReadersKeepsNoWriterOut
CHECK_DEADLOCK FALSE
