SPECIFICATION FutexSpec
CONSTANTS
    Task = {t1, t2, t3}
    MaxWord = 1
    Bit = {b1}
    MaxFutex = 3
    MaxLife = 1
    Faults = {"unmap"}
SYMMETRY Symmetry
INVARIANTS WakeExact OneOwner
CHECK_DEADLOCK FALSE
