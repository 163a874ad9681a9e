SPECIFICATION KernelSpec
CONSTANTS
  Parts = {"nvme", "e1000", "virtioblk", "clock", "nano", "vt", "console", "shell", "tty"}
  Thread = {1, 2, 3}
  Tgid <- SmallTgid
  Uid <- SmallUid
  Int80 = {3}
  Sig = {9, 18, 19}
  Mask = {{18}}
  MaxSends = 2
  MaxFrames = 1
  MaxCalls = 1
  CredProc = {1, 2}
  CredUid = {0, 5, 6}
  CredGid = {7}
  Mode <- SmallMode
  DirMode <- SmallDirMode
  Umask <- SmallUmask
  MaxCredOps = 3
  LastPid = 3
  Code = {7}
  Wanted <- SmallWanted
  Option = {{}, {"WNOHANG", "WUNTRACED", "WCONTINUED"}}
  MaxChildCalls = 5
INVARIANTS
  DriversExact
  ReadTime
  EditsGuarded
  ScreenExact
  StdinExact
CHECK_DEADLOCK FALSE
