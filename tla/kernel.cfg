SPECIFICATION KernelSpec
CONSTANTS
  Parts = {"signals", "children", "pipes", "sockets", "polled", "lockfile", "rename",
      "creds", "mapping", "cow", "exec", "ext2names", "ext2files"}
  Thread = {1, 2, 3}
  Tgid <- SmallTgid
  Uid <- SmallUid
  Int80 = {3}
  Sig = {9, 18, 19}
  Mask = {{18}}
  MaxSends = 2
  MaxFrames = 1
  MaxCalls = 1
  CredProc = {1, 2}
  CredUid = {0, 5, 6}
  CredGid = {7}
  Mode <- SmallMode
  DirMode <- SmallDirMode
  Umask <- SmallUmask
  MaxCredOps = 3
  LastPid = 3
  Code = {7}
  Wanted <- SmallWanted
  Option = {{}, {"WNOHANG", "WUNTRACED", "WCONTINUED"}}
  MaxChildCalls = 5
INVARIANTS
  CounterLag
  
  ToldTruth
  NamesKept
  GivenUpForGood
  MemorySound
  LoadedOrUndone
  DiskSound
CHECK_DEADLOCK FALSE
