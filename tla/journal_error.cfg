SPECIFICATION FaultySpec
CONSTANTS
    Reorders = FALSE
    LogBlocks = 7
    FsBlocks = 2
    MaxTargets = 1
    MaxCalls = 1
    MaxTxn = 3
    MaxCrash = 2
    MaxFormat = 1
    MaxErr = 1
INVARIANT CrashAtomic
CHECK_DEADLOCK FALSE
