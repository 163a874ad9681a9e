SPECIFICATION Spec
CONSTANTS
    Reorders = FALSE
    LogBlocks = 7
    FsBlocks = 2
    MaxTargets = 2
    MaxCalls = 2
    MaxTxn = 3
    MaxCrash = 2
    MaxFormat = 1
    MaxErr = 0
INVARIANTS CrashAtomic ReadsSeeStore
PROPERTIES ImplementsAtomicStore MountReturns
CHECK_DEADLOCK FALSE
