SPECIFICATION Spec
CONSTANTS
    BootThreads = 1
    MaxPid = 3
    MaxSpace = 2
    MaxCalls = 4
    Calls = {"clone", "stop", "exit", "execve"}
INVARIANT FreedUnused
