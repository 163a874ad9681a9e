----------------------------- MODULE MCKernel -----------------------------
(*****************************************************************************)
(* Small instances of the process, memory, file system and device components *)
(* that do not share state. A behaviour runs the component that part names;  *)
(* the others rest, so that the state spaces add up and do not multiply.     *)
(* Signals, Creds and Children are extended and not instantiated: what the   *)
(* run checks of them are their own properties, the ones ProcessProofs       *)
(* proves, and at rest they are in their initial states.                     *)
(*****************************************************************************)
EXTENDS Signals, Creds, Children

CONSTANT Parts    \* the components a run checks

VARIABLES
    part,
    queue, endp, fdt, cloexec, inCall, listener, interest, lost, sent, received, eof,
    broken, ready, opsMade,
    tree, cwd, openFiles, pathCall, wins, removed, callsMade,
    freeFrames, cow_refs, frameData, space, vm, expected, memOps,
    call, img, itp, stage, at, freeCount, loadedPages, taken, before, memsz, brk, stack,
    fs, nodes, sizeRead, contents, stale, ext2Ops,
    nvme, sq, cq, ctl, medium, scratch, nvmeCall, known, read, late, faults,
    tx, rx, nic, e1000, copied, accepted, left, arrived, delivered, burst,
    disk, cache, blk, writes, suspect,
    format, instants, chip, cmosAddr, rtc,
    ed, app, frame, docs, torn, asks,
    vt, painted, replies, stdin, sending, meant, seqs,
    fb, device, arrow, guard, draw, flag, mouse, crossed, drawCalls,
    sh, pass, typed,
    kb, tty, rd, user, bytes

pipesVars == <<queue, endp, fdt, cloexec, inCall, listener, interest, lost, sent, received,
    eof, broken, ready, opsMade>>
filesVars == <<tree, cwd, openFiles, pathCall, wins, removed, callsMade>>
memoryVars == <<freeFrames, cow_refs, frameData, space, vm, expected, memOps>>
execVars == <<call, img, itp, stage, at, freeCount, loadedPages, taken, before, memsz, brk,
    stack>>
ext2Vars == <<fs, nodes, sizeRead, contents, stale, ext2Ops>>
nvmeVars == <<nvme, sq, cq, ctl, medium, scratch, nvmeCall, known, read, late, faults>>
e1000Vars == <<tx, rx, nic, e1000, copied, accepted, left, arrived, delivered, burst>>
virtioBlkVars == <<disk, cache, blk, writes, suspect>>
clockVars == <<format, instants, chip, cmosAddr, rtc>>
nanoVars == <<ed, app, frame, docs, torn, asks>>
vtVars == <<vt, painted, replies, stdin, sending, meant, seqs>>
consoleVars == <<fb, device, arrow, guard, draw, flag, mouse, crossed, drawCalls>>
shellVars == <<sh, pass, typed>>
ttyVars == <<kb, tty, rd, user, bytes>>

\* two threads of a process of root and a process of somebody else
SmallTgid == <<1, 1, 3>>
SmallUid == [g \in {1, 3} |-> IF g = 1 THEN 0 ELSE 5]
\* a mode that the mask leaves alone and one that it does not, in a directory open to all
SmallMode == {{<<"u", "r">>, <<"u", "w">>}, {<<"u", "r">>, <<"o", "w">>}}
SmallDirMode == {<<c, a>> : c \in {"u", "g", "o"}, a \in {"w", "x"}}
SmallUmask == {<<"o", "w">>}
\* wait4 for any child or for process 3
SmallWanted == {-1, 3}
Streams == INSTANCE Pipes WITH
    Proc <- {1, 2}, Fd <- 3 .. 5, Queue <- 1 .. 2, Endpoint <- 1 .. 6, Capacity <- 1,
    Uses <- {"pipe", "flags"}, MaxOps <- 4
Sockets == INSTANCE Pipes WITH
    Proc <- {1}, Fd <- 3 .. 5, Queue <- 1 .. 2, Endpoint <- 1 .. 6, Capacity <- 1,
    Uses <- {"socket"}, MaxOps <- 7
Polled == INSTANCE Pipes WITH
    Proc <- {1, 2}, Fd <- 3 .. 5, Queue <- 1 .. 1, Endpoint <- 1 .. 2, Capacity <- 1,
    Uses <- {"pipe", "epoll", "dup"}, MaxOps <- 4
LockfileUserPath ==
    {[absolute |-> TRUE, path |-> <<"d", "f">>], [absolute |-> FALSE, path |-> <<"..", "l",
    "f">>], [absolute |-> TRUE, path |-> <<"s">>], [absolute |-> TRUE, path |-> <<"d">>]}
LockfileFirstTree ==
    <<[kind |-> "dir", ents |-> [n \in {"d", "l", "s"} |-> CASE n = "d" -> 2 [] n = "l" -> 3
    [] OTHER -> 4]], [kind |-> "dir", ents |-> [n \in {} |-> 0]], [kind |-> "link", target
    |-> [absolute |-> FALSE, path |-> <<"d">>]], [kind |-> "link", target |-> [absolute |->
    TRUE, path |-> <<"s">>]]>>
LockfileCalls == {"open", "unlink", "mkdir", "rmdir", "chdir", "getdents"}
Lockfile == INSTANCE Files WITH
    Proc <- {1, 2}, Fd <- {3}, Name <- {"d", "f", "l", "s"}, UserPath <- LockfileUserPath,
    FirstTree <- LockfileFirstTree, Calls <- LockfileCalls, SYMLOOP_MAX <- 2,
    MAX_EXPANDED_BYTES <- 6, MaxLen <- 1, MaxCalls <- 3, IoErrors <- FALSE
RenamingUserPath ==
    {[absolute |-> TRUE, path |-> <<"f">>], [absolute |-> TRUE, path |-> <<"d", "g">>],
    [absolute |-> TRUE, path |-> <<"l", "g">>], [absolute |-> FALSE, path |-> <<"d">>]}
RenamingFirstTree ==
    <<[kind |-> "dir", ents |-> [n \in {"d", "l"} |-> IF n = "d" THEN 2 ELSE 3]], [kind |->
    "dir", ents |-> [n \in {} |-> 0]], [kind |-> "link", target |-> [absolute |-> TRUE, path
    |-> <<"d">>]]>>
RenamingCalls ==
    {"open", "rename", "unlink", "write", "read", "lseek", "close", "rmdir"}
Renaming == INSTANCE Files WITH
    Proc <- {1}, Fd <- {3}, Name <- {"d", "f", "g", "l"}, UserPath <- RenamingUserPath,
    FirstTree <- RenamingFirstTree, Calls <- RenamingCalls, SYMLOOP_MAX <- 2,
    MAX_EXPANDED_BYTES <- 6, MaxLen <- 1, MaxCalls <- 5, IoErrors <- TRUE
MappingMemCalls ==
    {"brk", "mmap", "fixed", "munmap", "mremap", "mprotect", "touch"}
Mapping == INSTANCE Memory WITH
    MemProc <- {1}, Frame <- 1 .. 2, LastPage <- 3, HeapFrom <- 0, MmapFloor <- 1,
    MemCalls <- MappingMemCalls, Prot <- {{}, {"r", "w"}}, MaxMemOps <- 4
Cow == INSTANCE Memory WITH
    MemProc <- {1, 2, 3}, Frame <- 1 .. 3, LastPage <- 1, HeapFrom <- 0, MmapFloor <- 3,
    MemCalls <- {"brk", "touch", "fork", "exit"}, Prot <- {{"r", "w"}}, MaxMemOps <- 9
SharedMemCalls == {"mmap", "munmap", "touch", "fork", "exit"}
Shared == INSTANCE Memory WITH
    MemProc <- {1, 2}, Frame <- 1 .. 3, LastPage <- 2, HeapFrom <- 0, MmapFloor <- 1,
    MemCalls <- SharedMemCalls, Prot <- {{"r", "w"}}, MaxMemOps <- 7
ProgramsImages ==
    {[magic |-> TRUE, kind |-> k, len |-> 12, ph |-> p] : k \in {"exec", "dyn"}, p \in
    {<<a>> : a \in {[load |-> TRUE, off |-> o, vaddr |-> v, filesz |-> f, memsz |-> z] : o
    \in {3}, v \in {11, 200}, f \in {0, 5, 9}, z \in {5, 12}}} \cup {<<a, [load |-> FALSE],
    [load |-> TRUE, off |-> 0, vaddr |-> 32, filesz |-> 3, memsz |-> 9]>> : a \in {[load |->
    TRUE, off |-> 3, vaddr |-> v, filesz |-> f, memsz |-> 12] : v \in {11, 34}, f \in {5,
    9}}}} \cup {[magic |-> FALSE, kind |-> "exec", len |-> 12, ph |-> <<>>]}
ProgramsInterps ==
    {[magic |-> TRUE, kind |-> "dyn", len |-> 12, ph |-> <<[load |-> TRUE, off |-> 2, vaddr
    |-> v, filesz |-> 4, memsz |-> 9]>>] : v \in {0, 90}}
Programs == INSTANCE Exec WITH
    PAGE <- 8, WORD <- 2, RANDOM_LEN <- 4, Wrap <- 208, USER_ADDR_MAX <- 160, PIE_BASE <- 8,
    INTERP_BASE <- 56, MAX_IMAGE_BYTES <- 20, USER_STACK_TOP <- 152, USER_STACK_PAGES <- 8,
    KERNEL_STACK_PAGES <- 2, MaxArgs <- 2, MaxArgBytes <- 4, Images <- ProgramsImages,
    Interps <- ProgramsInterps, ArgLists <- {<<1>>, <<0, 3>>}, FreeCounts <- {3, 15}
NamesExt2Calls ==
    {"lookup", "create", "mkdir", "symlink", "link", "unlink", "mount"}
Names == INSTANCE Ext2 WITH
    DeviceBlocks <- {18}, MAX_GROUP_BLOCKS <- 11, MIN_INODES <- 4, InodesPerBlock <- 4,
    BlocksPerInode <- 8, EXT2_FIRST_INO <- 3, Runt <- 1, NDIRECT <- 1, PPB <- 2, BS <- 4,
    Name <- {"a", "longer"}, RecLen <- LAMBDA n : IF n = "longer" THEN 2 ELSE 1,
    TargetLen <- {1, 3}, FAST_MAX_TARGET <- 1, Ext2Calls <- NamesExt2Calls, Write <- {},
    Sizes <- {}, TX_DATA_BLOCKS <- 1, ZERO_CHUNK <- 1, MaxNodes <- 2, MaxExt2Ops <- 4
ExtentsExt2Calls == {"lookup", "create", "unlink", "write", "truncate"}
Extents == INSTANCE Ext2 WITH
    DeviceBlocks <- {16, 19}, MAX_GROUP_BLOCKS <- 11, MIN_INODES <- 4, InodesPerBlock <- 4,
    BlocksPerInode <- 8, EXT2_FIRST_INO <- 3, Runt <- 1, NDIRECT <- 1, PPB <- 2, BS <- 2,
    Name <- {"a", "b"}, RecLen <- LAMBDA n : 1, TargetLen <- {1}, FAST_MAX_TARGET <- 1,
    Ext2Calls <- ExtentsExt2Calls, Write <- {<<0, 3>>, <<5, 2>>, <<7, 4>>}, Sizes <- {1, 6},
    TX_DATA_BLOCKS <- 2, ZERO_CHUNK <- 3, MaxNodes <- 3, MaxExt2Ops <- 5
Disk == INSTANCE Nvme WITH
    Sectors <- 2, Datum <- {0, 1}, LbaSizes <- {1, 2}, Entries <- 2, MaxCommands <- 4,
    MaxFailures <- 1, MaxTimeouts <- 1
Nic == INSTANCE E1000 WITH
    DESC_COUNT <- 3, MaxFrames <- 6
Cached == INSTANCE VirtioBlk WITH
    BlkTask <- {1, 2}, Capacity <- 2, SECTOR_CACHE_MAX <- 2, MaxSectors <- 2, MaxWrites <- 2
RtcMoments ==
    {<<2023, 12, 31, 23, 59, 58>>, <<2024, 2, 28, 23, 59, 59>>, <<2024, 2, 29, 23, 59, 59>>,
    <<2000, 2, 28, 11, 59, 59>>, <<2099, 7, 9, 0, 59, 58>>}
RtcFormats ==
    {[binary |-> FALSE, hour24 |-> FALSE], [binary |-> TRUE, hour24 |-> TRUE]}
Rtc == INSTANCE Clock WITH
    Readers <- {"a"}, Moments <- RtcMoments, Formats <- RtcFormats, MaxUpdates <- 2
EditDisk0 ==
    [x \in {"f", "g", "f.bak", "g.bak"} |-> CASE x = "f" -> <<<<"a", "n">>>> [] x = "g" ->
    <<<<"tab">>>> [] OTHER -> <<>>]
EditListing ==
    [root |-> <<[path |-> "d", is_dir |-> TRUE], [path |-> "f", is_dir |-> FALSE], [path |->
    "f.bak", is_dir |-> FALSE]>>, d |-> <<[path |-> "g", is_dir |-> FALSE]>>]
Edit == INSTANCE Nano WITH
    Letters <- {"a"}, Values <- {<<>>, <<"a">>, <<"2">>}, Disk0 <- EditDisk0,
    Listing <- EditListing, Root <- "root", Start <- "f", MAX_LINE <- 2, MAX_FILE <- 4,
    MAX_DEPTH <- 2, UNDO_LIMIT <- 2, Rows <- 2, TabSize <- 2, Backup <- TRUE, MaxKeys <- 4
TerminalSequences ==
    {[bytes |-> <<"a", "b">>, text |-> <<"a", "b">>, answer |-> <<>>, moves |-> FALSE],
    [bytes |-> <<"a", "LF">>, text |-> <<"a", "LF">>, answer |-> <<>>, moves |-> FALSE],
    [bytes |-> <<"ESC", "[", "3", "1", "m", "b">>, text |-> <<"b">>, answer |-> <<>>, moves
    |-> FALSE], [bytes |-> <<"ESC", "[", "3", "8", ";", "5", ";", "9", "m">>, text |-> <<>>,
    answer |-> <<>>, moves |-> FALSE], [bytes |-> <<"ESC", "(", "B">>, text |-> <<>>, answer
    |-> <<>>, moves |-> FALSE], [bytes |-> <<"ESC", "[", "?", "2", "$", "p">>, text |->
    <<>>, answer |-> <<<<"mode", "?", 2>>>>, moves |-> FALSE], [bytes |-> <<"ESC", "[", ">",
    "q">>, text |-> <<>>, answer |-> <<<<"version">>>>, moves |-> FALSE], [bytes |->
    <<"ESC", "]", "1", "1", ";", "?", "BEL">>, text |-> <<>>, answer |->
    <<<<"background">>>>, moves |-> FALSE], [bytes |-> <<"ESC", "]", "0", ";", "a", "ESC",
    "\\">>, text |-> <<>>, answer |-> <<>>, moves |-> FALSE], [bytes |-> <<"ESC", "P", "+",
    "q", "ESC", "\\">>, text |-> <<>>, answer |-> <<>>, moves |-> FALSE], [bytes |->
    <<"ESC", "[", "?", "2", "5", "l">>, text |-> <<>>, answer |-> <<>>, moves |-> FALSE],
    [bytes |-> <<"ESC", "[", "=", "1", "p">>, text |-> <<>>, answer |-> <<>>, moves |->
    FALSE], [bytes |-> <<"ESC", "[", "5", "n">>, text |-> <<>>, answer |-> <<<<"ok">>>>,
    moves |-> FALSE], [bytes |-> <<"ESC", "[", "2", "J">>, text |-> <<>>, answer |-> <<>>,
    moves |-> TRUE], [bytes |-> <<"ESC", "[", "1", "K">>, text |-> <<>>, answer |-> <<>>,
    moves |-> TRUE], [bytes |-> <<"ESC", "[", "9", "S">>, text |-> <<>>, answer |-> <<>>,
    moves |-> TRUE], [bytes |-> <<"ESC", "M">>, text |-> <<>>, answer |-> <<>>, moves |->
    TRUE], [bytes |-> <<"ESC", "[", "2", ";", "3", "r">>, text |-> <<>>, answer |-> <<>>,
    moves |-> TRUE], [bytes |-> <<"ESC", "[", "A">>, text |-> <<>>, answer |-> <<>>, moves
    |-> TRUE], [bytes |-> <<"ESC", "[", "2", "P">>, text |-> <<>>, answer |-> <<>>, moves
    |-> TRUE], [bytes |-> <<"ESC", "7", "HT", "ESC", "8">>, text |-> <<>>, answer |-> <<>>,
    moves |-> TRUE], [bytes |-> <<"ESC", "[", "L">>, text |-> <<>>, answer |-> <<>>, moves
    |-> TRUE], [bytes |-> <<"ESC", "[", "X", "BS">>, text |-> <<>>, answer |-> <<>>, moves
    |-> TRUE], [bytes |-> <<"ESC", "[", ";", "2", "H">>, text |-> <<>>, answer |-> <<>>,
    moves |-> TRUE]}
Terminal == INSTANCE Vt WITH
    Cols <- 2, Rows <- 3, MaxParams <- 4, MaxParam <- 99, OscMax <- 5, MaxSent <- 3,
    Sequences <- TerminalSequences
Screen == INSTANCE Console WITH
    Cols <- 2, Rows <- 2, Threads <- {"shell", "log"}, MaxCalls <- 2
PromptingCommands == {<<"a", "b">>, <<"a", "a">>, <<"b", "a", "b">>}
Prompting == INSTANCE Shell WITH
    Cols <- 4, Rows <- 2, Prompt <- <<">">>, Letters <- {"a", "b"},
    Commands <- PromptingCommands, Entries <- {<<"a">>}, MAX_CMD_LEN <- 5, CAP <- 2,
    MaxKeys <- 4
StdinOthers == {"Left", "Enter", "Backspace", "shift", "ctrl"}
Stdin == INSTANCE Tty WITH
    Letters <- {"c", "d"}, Others <- StdinOthers, Counts <- {1, 2}, BUF_SIZE <- 4,
    STDIN_LINE_MAX <- 2, MaxStrokes <- 3, MaxReads <- 2

\* what a component that is only instantiated has for a state while it is not the active one
Unused == 0
NoPipes == queue = Unused /\ endp = Unused /\ fdt = Unused /\ cloexec = Unused /\
    inCall = Unused /\ listener = Unused /\ interest = Unused /\ lost = Unused /\ sent = Unused
    /\ received = Unused /\ eof = Unused /\ broken = Unused /\ ready = Unused /\
    opsMade = Unused
NoFiles == tree = Unused /\ cwd = Unused /\ openFiles = Unused /\ pathCall = Unused /\
    wins = Unused /\ removed = Unused /\ callsMade = Unused
NoMemory == freeFrames = Unused /\ cow_refs = Unused /\ frameData = Unused /\ space = Unused
    /\ vm = Unused /\ expected = Unused /\ memOps = Unused
NoExec == call = Unused /\ img = Unused /\ itp = Unused /\ stage = Unused /\ at = Unused /\
    freeCount = Unused /\ loadedPages = Unused /\ taken = Unused /\ before = Unused /\
    memsz = Unused /\ brk = Unused /\ stack = Unused
NoExt2 == fs = Unused /\ nodes = Unused /\ sizeRead = Unused /\ contents = Unused /\
    stale = Unused /\ ext2Ops = Unused
NoNvme == nvme = Unused /\ sq = Unused /\ cq = Unused /\ ctl = Unused /\ medium = Unused /\
    scratch = Unused /\ nvmeCall = Unused /\ known = Unused /\ read = Unused /\ late = Unused /\
    faults = Unused
NoE1000 == tx = Unused /\ rx = Unused /\ nic = Unused /\ e1000 = Unused /\ copied = Unused
    /\ accepted = Unused /\ left = Unused /\ arrived = Unused /\ delivered = Unused /\
    burst = Unused
NoVirtioBlk == disk = Unused /\ cache = Unused /\ blk = Unused /\ writes = Unused /\
    suspect = Unused
NoClock == format = Unused /\ instants = Unused /\ chip = Unused /\ cmosAddr = Unused /\
    rtc = Unused
NoNano == ed = Unused /\ app = Unused /\ frame = Unused /\ docs = Unused /\ torn = Unused /\
    asks = Unused
NoVt == vt = Unused /\ painted = Unused /\ replies = Unused /\ stdin = Unused /\
    sending = Unused /\ meant = Unused /\ seqs = Unused
NoConsole == fb = Unused /\ device = Unused /\ arrow = Unused /\ guard = Unused /\
    draw = Unused /\ flag = Unused /\ mouse = Unused /\ crossed = Unused /\ drawCalls = Unused
NoShell == sh = Unused /\ pass = Unused /\ typed = Unused
NoTty == kb = Unused /\ tty = Unused /\ rd = Unused /\ user = Unused /\ bytes = Unused

KernelInit ==
    /\ part \in Parts
    /\ Init /\ CredInit /\ ChildInit
    /\ IF part \in {"pipes", "sockets", "polled"} THEN Streams!Init ELSE NoPipes
    /\ IF part = "lockfile" THEN Lockfile!Init
       ELSE IF part = "rename" THEN Renaming!Init ELSE NoFiles
    /\ IF part = "mapping" THEN Mapping!Init
       ELSE IF part = "cow" THEN Cow!Init
       ELSE IF part = "shared" THEN Shared!Init ELSE NoMemory
    /\ IF part = "exec" THEN Programs!Init ELSE NoExec
    /\ IF part \in {"ext2names", "ext2files"} THEN Names!Init ELSE NoExt2
    /\ IF part = "nvme" THEN Disk!Init ELSE NoNvme
    /\ IF part = "e1000" THEN Nic!Init ELSE NoE1000
    /\ IF part = "virtioblk" THEN Cached!Init ELSE NoVirtioBlk
    /\ IF part = "clock" THEN Rtc!Init ELSE NoClock
    /\ IF part = "nano" THEN Edit!Init ELSE NoNano
    /\ IF part = "vt" THEN Terminal!Init ELSE NoVt
    /\ IF part = "console" THEN Screen!Init ELSE NoConsole
    /\ IF part = "shell" THEN Prompting!Init ELSE NoShell
    /\ IF part = "tty" THEN Stdin!Init ELSE NoTty

\* the components other than the active one rest
Resting(active) ==
    /\ IF active = "Signals" THEN TRUE ELSE UNCHANGED sigVars
    /\ IF active = "Children" THEN TRUE ELSE UNCHANGED childVars
    /\ IF active = "Pipes" THEN TRUE ELSE UNCHANGED pipesVars
    /\ IF active = "Files" THEN TRUE ELSE UNCHANGED filesVars
    /\ IF active = "Creds" THEN TRUE ELSE UNCHANGED credVars
    /\ IF active = "Memory" THEN TRUE ELSE UNCHANGED memoryVars
    /\ IF active = "Exec" THEN TRUE ELSE UNCHANGED execVars
    /\ IF active = "Ext2" THEN TRUE ELSE UNCHANGED ext2Vars
    /\ IF active = "Nvme" THEN TRUE ELSE UNCHANGED nvmeVars
    /\ IF active = "E1000" THEN TRUE ELSE UNCHANGED e1000Vars
    /\ IF active = "VirtioBlk" THEN TRUE ELSE UNCHANGED virtioBlkVars
    /\ IF active = "Clock" THEN TRUE ELSE UNCHANGED clockVars
    /\ IF active = "Nano" THEN TRUE ELSE UNCHANGED nanoVars
    /\ IF active = "Vt" THEN TRUE ELSE UNCHANGED vtVars
    /\ IF active = "Console" THEN TRUE ELSE UNCHANGED consoleVars
    /\ IF active = "Shell" THEN TRUE ELSE UNCHANGED shellVars
    /\ IF active = "Tty" THEN TRUE ELSE UNCHANGED ttyVars

KernelNext ==
    /\ UNCHANGED part
    /\ \/ part = "signals" /\ Next /\ Resting("Signals")
       \/ part = "children" /\ ChildNext /\ Resting("Children")
       \/ part = "pipes" /\ Streams!Next /\ Resting("Pipes")
       \/ part = "sockets" /\ Sockets!Next /\ Resting("Pipes")
       \/ part = "polled" /\ Polled!Next /\ Resting("Pipes")
       \/ part = "lockfile" /\ Lockfile!Next /\ Resting("Files")
       \/ part = "rename" /\ Renaming!Next /\ Resting("Files")
       \/ part = "creds" /\ CredNext /\ Resting("Creds")
       \/ part = "mapping" /\ Mapping!Next /\ Resting("Memory")
       \/ part = "cow" /\ Cow!Next /\ Resting("Memory")
       \/ part = "shared" /\ Shared!Next /\ Resting("Memory")
       \/ part = "exec" /\ Programs!Next /\ Resting("Exec")
       \/ part = "ext2names" /\ Names!Next /\ Resting("Ext2")
       \/ part = "ext2files" /\ Extents!Next /\ Resting("Ext2")
       \/ part = "nvme" /\ Disk!Next /\ Resting("Nvme")
       \/ part = "e1000" /\ Nic!Next /\ Resting("E1000")
       \/ part = "virtioblk" /\ Cached!Next /\ Resting("VirtioBlk")
       \/ part = "clock" /\ Rtc!Next /\ Resting("Clock")
       \/ part = "nano" /\ Edit!Next /\ Resting("Nano")
       \/ part = "vt" /\ Terminal!Next /\ Resting("Vt")
       \/ part = "console" /\ Screen!Next /\ Resting("Console")
       \/ part = "shell" /\ Prompting!Next /\ Resting("Shell")
       \/ part = "tty" /\ Stdin!Next /\ Resting("Tty")
kernelVars == <<part, sigVars, childVars, pipesVars, filesVars, credVars, memoryVars,
    execVars, ext2Vars, nvmeVars, e1000Vars, virtioBlkVars, clockVars, nanoVars, vtVars,
    consoleVars, shellVars, ttyVars>>

KernelSpec == KernelInit /\ [][KernelNext]_kernelVars

\* What a task is told of a pipe stays true (Pipes).
ToldTruth ==
    /\ part = "pipes" => Streams!ToldTruth
    /\ part = "sockets" => Sockets!ToldTruth
    /\ part = "polled" => Polled!ToldTruth
\* A name is created by one exclusive open at a time, and a rename keeps the contents
\* (Files).
NamesKept ==
    /\ part = "lockfile" => Lockfile!OneCreatorPerName
    /\ part = "rename" => Renaming!RenameKeepsContents
\* For one process that maps and unmaps, every frame is free or mapped at one page; for
\* processes that fork, write and exit but unmap nothing, every sharer of a frame is
\* counted; and either way a page keeps what its process has put there (Memory).
MemorySound ==
    /\ part = "mapping" => Mapping!NoFrameLost /\ Mapping!MemoryKept
    /\ part = "cow" => Cow!SharersCounted /\ Cow!MemoryKept
\* A frame is free only when nobody shares it, which fails once a process that has forked
\* unmaps (Memory).
FreedAtZero == part = "shared" => Shared!FreedAtZero
\* A started program finds its segments and arguments, and a pass of the loader that fails
\* leaves nothing behind (Exec).
LoadedOrUndone == part = "exec" => Programs!StartedAsAsked /\ Programs!FailedPassUndone
\* The file system stays consistent, and a file reads back as what was written (Ext2).
DiskSound ==
    /\ part = "ext2names" => Names!FsckClean /\ Names!FileHoldsWritten
    /\ part = "ext2files" => Extents!FsckClean /\ Extents!FileHoldsWritten
\* Every block that is marked used belongs to some file (Ext2).
NoBlockLost ==
    /\ part = "ext2names" => Names!NoBlockLost
    /\ part = "ext2files" => Extents!NoBlockLost
\* The drivers hand on what they were given: reads return the last write, frames keep their
\* order, the sector cache agrees with the device (Nvme, E1000, VirtioBlk).
DriversExact ==
    /\ part = "nvme" => Disk!ReadsBack
    /\ part = "e1000" => Nic!RingsInOrder
    /\ part = "virtioblk" => Cached!CoherentApart
\* A read of any sectors returns the last write (Nvme).
AnySectors == part = "nvme" => Disk!AnySectors
\* The completion that ends a command is its own (Nvme).
OwnCompletion == part = "nvme" => Disk!OwnCompletion
\* A full ring is only full for the moment (E1000).
MomentarilyFull == part = "e1000" => Nic!MomentarilyFull
\* The sector cache is coherent (VirtioBlk).
CoherentByConstruction == part = "virtioblk" => Cached!CoherentByConstruction
\* The time that a single reader reads is one that was (Clock).
ReadTime == part = "clock" => Rtc!ReadTime
\* No edit is lost unasked (Nano).
EditsGuarded == part = "nano" => Edit!EditsGuarded
\* An unmodified buffer is the file (Nano).
NothingToLose == part = "nano" => Edit!NothingToLose
\* The frame shows the buffer (Nano).
FrameCurrent == part = "nano" => Edit!FrameCurrent
\* The screen shows the text that was sent to it: no piece of an escape sequence, no trail
\* of the pointer, and the line that is being edited (Vt, Console, Shell).
ScreenExact ==
    /\ part = "vt" => Terminal!ShowsText
    /\ part = "console" => Screen!NoTrail
    /\ part = "shell" => Prompting!LineShown
\* A flush shows everything drawn (Console).
FlushedIsShown == part = "console" => Screen!FlushedIsShown
\* No writer leaves a stale background under the pointer (Console).
NeverStale == part = "console" => Screen!NeverStale
\* The console reflects the buffer (Shell).
ConsoleReflects == part = "shell" => Prompting!ConsoleReflects
\* No stray caret bar (Shell).
NoStrayBar == part = "shell" => Prompting!NoStrayBar
\* Standard input is what was typed (Tty).
StdinExact == part = "tty" => Stdin!StdinExact
\* SIGINT means Ctrl+C (Tty).
InterruptMeansCtrlC == part = "tty" => Stdin!InterruptMeansCtrlC
============================================================================
