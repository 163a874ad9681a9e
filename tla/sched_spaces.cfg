SPECIFICATION Spec
CONSTANTS
    BootThreads = 1
    MaxPid = 4
    MaxSpace = 2
    MaxCalls = 4
    Calls = {"clone", "fork", "execve", "exit", "exit_group", "kill", "term"}
INVARIANTS FreedUnused SpaceAccounted
