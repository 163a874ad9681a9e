SPECIFICATION FutexSpec
CONSTANTS
    Task = {t1, t2}
    MaxWord = 1
    Bit = {b1}
    MaxFutex = 2
    MaxLife = 2
    Faults = {"signal", "kill"}
INVARIANT NoOrphan
PROPERTY ChangedReturns
CHECK_DEADLOCK FALSE
