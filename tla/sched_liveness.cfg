SPECIFICATION Spec
CONSTANTS
    BootThreads = 2
    MaxPid = 4
    MaxSpace = 2
    MaxCalls = 3
    Calls = {"clone", "exit", "exit_group", "kill", "stop", "cont"}
INVARIANT OneFrame
PROPERTIES ExitCompletes ReadyRuns
