------------------------------- MODULE Journal -------------------------------
(***************************************************************************)
(* The write-ahead log of fs/journal.rs over a block device: `format`,     *)
(* `open`, `commit` and `recover`, with a power loss possible between any  *)
(* two device operations; FaultySpec adds I/O errors.                      *)
(*                                                                         *)
(* Device layout, as in the code: file-system blocks 0..FsBlocks-1, the    *)
(* journal superblock at FsBlocks, the circular log after it.  Contents    *)
(* are records whose `kind` stands for the magic number.  CRC32 over the   *)
(* logged data is modelled as that data itself (no collisions).            *)
(*                                                                         *)
(* Writes that follow one another with no flush between them are appended  *)
(* to the cache in one step: the cache may lose any suffix of them, so no  *)
(* crash outcome is lost.                                                  *)
(***************************************************************************)
EXTENDS BlockDevice, FiniteSets, FiniteSetsExt

CONSTANTS
    LogBlocks,   \* JournalArea::log_blocks
    FsBlocks,    \* JournalArea::fs_blocks
    MaxTargets,  \* JDESC_MAX_TARGETS
    MaxCalls,    \* bound: log_block calls in a transaction
    MaxTxn,      \* bound: transactions begun
    MaxCrash,    \* bound: power losses
    MaxFormat,   \* bound: formats of the device
    MaxErr       \* bound: I/O errors of FaultySpec

VARIABLES
    pc,          \* where the one thread that owns the journal lock is
    jnl,         \* struct Journal: head, tail, next_seq (and history: life)
    txn,         \* struct Txn: the records of the transaction being committed
    scan,        \* the locals of `recover`
    result,      \* what the last journal call returned
    outcomes,    \* history: file-system images a power loss may leave behind
    nTxn, nCrash, nFormat, nErr

vars == <<medium, cache, pc, jnl, txn, scan, result, outcomes,
          nTxn, nCrash, nFormat, nErr>>
counters == <<nTxn, nCrash, nFormat, nErr>>

ASSUME JournalAssumption ==
    /\ LogBlocks \in Nat \ {0} /\ FsBlocks \in Nat \ {0} /\ MaxTargets \in Nat
    /\ {MaxCalls, MaxTxn, MaxCrash, MaxFormat, MaxErr} \subseteq Nat
    /\ Reorders \in BOOLEAN
------------------------------------------------------------------------------
FsBlock == 0..(FsBlocks - 1)
SuperAddr == FsBlocks
LogAddr(pos) == FsBlocks + 1 + (pos % LogBlocks)
Address == 0..(FsBlocks + LogBlocks)

\* A commit may be asked for a block just past the file system.
Target == 0..FsBlocks

Data(v) == [kind |-> "data", val |-> v]
ZeroBlock == Data(0)
CommitRecord(s, crc) == [kind |-> "commit", seq |-> s, crc |-> crc]

\* `life` is history: the format that the superblock or record descends from.
Super(j) == [kind |-> "super", head |-> j.head, tail |-> j.tail,
             next_seq |-> j.next_seq, life |-> j.life]
Descriptor(s, ts, l) == [kind |-> "desc", seq |-> s, targets |-> ts, life |-> l]

\* persist_super
SuperWrite(j) == BlockWrite(SuperAddr, Super(j))

FsPart(image) == [b \in FsBlock |-> image[b]]

\* log_block: logging a target twice keeps the later contents.
LogBlock(records, target, contents) ==
    LET logged == {i \in 1..Len(records) : records[i].target = target}
        r == [target |-> target, contents |-> contents]
    IN  IF logged = {} THEN Append(records, r) ELSE [records EXCEPT ![Min(logged)] = r]

\* The transaction that a sequence of log_block calls builds; every call of
\* every transaction writes contents of its own.
Records(calls) ==
    LET Logged[i \in 0..Len(calls)] ==
            IF i = 0 THEN <<>>
            ELSE LogBlock(Logged[i - 1], calls[i], Data(nTxn * (MaxCalls + 1) + i))
    IN  Logged[Len(calls)]

Targets(records) == [i \in DOMAIN records |-> records[i].target]
Contents(records) == [i \in DOMAIN records |-> records[i].contents]
CheckpointWrites(records) ==
    [i \in DOMAIN records |-> BlockWrite(records[i].target, records[i].contents)]
------------------------------------------------------------------------------
NoJournal == [head |-> 0, tail |-> 0, next_seq |-> 1, life |-> 0]
NoScan == [pos |-> 0, expected |-> 1, last |-> 0, budget |-> 0,
           status |-> "done", writes |-> <<>>]

\* The image of the file system once `records` are checkpointed.
Overlay(fs, records) == Written(fs, CheckpointWrites(records))

IsDescriptor(c) ==
    c.kind = "desc" /\ Len(c.targets) \in 1..MaxTargets
                    /\ Len(c.targets) + 2 <= LogBlocks

LoggedData(image, pos, n) == [i \in 1..n |-> image[LogAddr(pos + i)]]

Committed(image, pos, d) ==
    LET n == Len(d.targets)
        c == image[LogAddr(pos + 1 + n)]
    IN  c.kind = "commit" /\ c.seq = d.seq /\ c.crc = LoggedData(image, pos, n)

\* Bug: the records that are skipped are not counted against the budget.
PastUncharged(s, n) == [s EXCEPT !.pos = (s.pos + n + 2) % LogBlocks]

\* The scan moves past a record of n blocks.
Past(s, n) ==
    [s EXCEPT !.pos = (s.pos + n + 2) % LogBlocks,
              !.budget = IF @ > n + 2 THEN @ - (n + 2) ELSE 0]

\* One turn of recover's loop over the log of `image`; `writes` collects the
\* replayed blocks.  `last = 0` is the code's None (sequences start at 1).
ScanStep(s, image) ==
    LET d == image[LogAddr(s.pos)]
        n == Len(d.targets)
        good == IF \E i \in 1..n : d.targets[i] >= FsBlocks
                THEN Min({i \in 1..n : d.targets[i] >= FsBlocks}) - 1 ELSE n
        replay == [i \in 1..good |-> BlockWrite(d.targets[i], image[LogAddr(s.pos + i)])]
    IN  IF s.budget = 0 \/ ~IsDescriptor(d) THEN [s EXCEPT !.status = "done"]
        ELSE IF s.last = 0 /\ d.seq < s.expected THEN Past(s, n)
        ELSE IF d.seq # s.expected \/ ~Committed(image, s.pos, d)
             THEN [s EXCEPT !.status = "done"]
        ELSE IF good < n THEN [s EXCEPT !.status = "corrupt", !.writes = @ \o replay]
        ELSE [Past(s, n) EXCEPT !.last = d.seq, !.expected = d.seq + 1,
                                !.writes = @ \o replay]

ScanStart(j) == [pos |-> j.tail, expected |-> j.next_seq, last |-> 0,
                 budget |-> LogBlocks, status |-> "run", writes |-> <<>>]

\* A finished scan stays as it is.  (The scan s is bound before it is used so that
\* TLC evaluates it once.)
Turned(s, image) ==
    CHOOSE r \in {IF t.status = "run" THEN ScanStep(t, image) ELSE t : t \in {s}} : TRUE

\* The scan of a device image, turn by turn.
Turns(image) ==
    LET Turn[k \in 0..(LogBlocks + 1)] ==
            IF k = 0 THEN ScanStart(image[SuperAddr]) ELSE Turned(Turn[k - 1], image)
    IN  Turn

\* The file system that a mount makes of a device image: every record that
\* recover's loop would replay is applied.
Recovered(image) ==
    IF image[SuperAddr].kind = "super"
    THEN FsPart(Written(image, Turns(image)[LogBlocks + 1].writes))
    ELSE FsPart(image)
------------------------------------------------------------------------------
Init ==
    /\ medium = [a \in Address |-> ZeroBlock] /\ cache = <<>>
    /\ pc = "off" /\ jnl = NoJournal /\ txn = <<>> /\ scan = NoScan
    /\ result = "none"
    /\ outcomes = {[b \in FsBlock |-> ZeroBlock]}
    /\ nTxn = 0 /\ nCrash = 0 /\ nFormat = 0 /\ nErr = 0

\* Ext2Fs::format as the journal sees it: the file system's blocks, an empty
\* journal superblock, and log position 0 zeroed.  Nothing is flushed.
FormatWrites ==
    [b \in 1..FsBlocks |-> BlockWrite(b - 1, ZeroBlock)]
    \o <<SuperWrite([NoJournal EXCEPT !.life = nFormat + 1]),
         BlockWrite(LogAddr(0), ZeroBlock)>>

Format ==
    /\ pc = "off" /\ nFormat < MaxFormat
    /\ WriteBlocks(FormatWrites)
    /\ nFormat' = nFormat + 1
    /\ outcomes' = {[b \in FsBlock |-> ZeroBlock]}
    /\ result' = "formatted"
    /\ UNCHANGED <<pc, jnl, txn, scan, nTxn, nCrash, nErr>>

\* Journal::open, the first half of mount_fs.
Open ==
    /\ pc = "off"
    /\ LET js == View[SuperAddr]
       IN  IF js.kind = "super"
           THEN /\ pc' = "scan" /\ scan' = ScanStart(js) /\ result' = "none"
                /\ jnl' = [head |-> js.head, tail |-> js.tail,
                           next_seq |-> js.next_seq, life |-> js.life]
           ELSE result' = "BadJournal" /\ UNCHANGED <<pc, scan, jnl>>
    /\ UNCHANGED <<devVars, txn, outcomes, counters>>

\* A device call of the running operation failed after `ws` was written in part
\* (all of `ws` when it is the flush after it that failed).
DeviceFails(ws) ==
    /\ nErr < MaxErr /\ nErr' = nErr + 1
    /\ \E k \in 0..Len(ws) : WriteBlocks(SubSeq(ws, 1, k))
    /\ result' = "IoError"

RecoverStep ==
    /\ pc = "scan" /\ scan.status = "run"
    /\ LET s == ScanStep(scan, View)
       IN  /\ WriteBlocks(s.writes)
           /\ scan' = [s EXCEPT !.writes = <<>>]
           /\ pc' = IF s.status = "corrupt" THEN "off" ELSE "scan"
           /\ result' = IF s.status = "corrupt" THEN "Corrupt" ELSE result
    /\ UNCHANGED <<jnl, txn, outcomes, counters>>

EmptiedLog ==
    [jnl EXCEPT !.head = scan.pos, !.tail = scan.pos,
                !.next_seq = IF scan.last = 0 THEN @ ELSE Max({@, scan.last + 1})]

RecoverFinish ==
    /\ pc = "scan" /\ scan.status = "done"
    /\ IF scan.last = 0 THEN WriteBlocks(<<SuperWrite(EmptiedLog)>>)
                        ELSE FlushThenWrite(<<SuperWrite(EmptiedLog)>>)
    /\ jnl' = EmptiedLog
    /\ pc' = "mounted" /\ scan' = NoScan /\ result' = "ok"
    /\ outcomes' = {FsPart(View)}
    /\ UNCHANGED <<txn, counters>>

RecoverFails ==
    /\ pc = "scan"
    /\ DeviceFails(IF scan.status = "run" THEN ScanStep(scan, View).writes ELSE <<>>)
    /\ pc' = "off" /\ scan' = NoScan
    /\ UNCHANGED <<jnl, txn, outcomes, nTxn, nCrash, nFormat>>
------------------------------------------------------------------------------
Used == IF jnl.head >= jnl.tail THEN jnl.head - jnl.tail
                                ELSE jnl.head + LogBlocks - jnl.tail
Free == LogBlocks - Used

Reclaimed == [jnl EXCEPT !.tail = jnl.head]
MustReclaim(n) == n + 2 > Free

\* Bug: the moved tail stays in memory (issue #35's window).
ReclaimInMemory(n) ==
    /\ jnl' = IF MustReclaim(n) THEN Reclaimed ELSE jnl
    /\ UNCHANGED devVars

\* The moved tail is persisted and flushed before the record is written.
ReclaimLog(n) ==
    IF MustReclaim(n)
    THEN /\ medium' = Written(View, <<SuperWrite(Reclaimed)>>)
         /\ cache' = <<>> /\ jnl' = Reclaimed
    ELSE UNCHANGED <<devVars, jnl>>

Fits(n) == n <= MaxTargets /\ n + 3 <= LogBlocks

\* The block writes of a caller, at most n.
SeqUpTo(S, n) == UNION {[1..m -> S] : m \in 0..n}

\* commit: an empty transaction, or one that no descriptor or ring can hold.
CommitRefused ==
    /\ pc = "mounted" /\ nTxn < MaxTxn
    /\ \E calls \in SeqUpTo(Target, MaxCalls) :
        LET n == Len(Records(calls))
        IN  /\ n = 0 \/ ~Fits(n)
            /\ result' = IF n = 0 THEN "ok" ELSE "OutOfSpace"
    /\ UNCHANGED <<devVars, pc, jnl, txn, scan, outcomes, counters>>

\* commit up to the descriptor: reclaim the ring if the record does not fit in
\* its free part, then validate the targets.
CommitBegin ==
    /\ pc = "mounted" /\ nTxn < MaxTxn
    /\ \E calls \in SeqUpTo(Target, MaxCalls) :
        LET records == Records(calls)
            n == Len(records)
            valid == \A i \in 1..n : records[i].target < FsBlocks
        IN  /\ n > 0 /\ Fits(n)
            /\ ReclaimLog(n)
            /\ IF valid
               THEN /\ txn' = records /\ pc' = "log" /\ result' = "none"
                    /\ outcomes' = outcomes \cup {Overlay(o, records) : o \in outcomes}
               ELSE result' = "Corrupt" /\ UNCHANGED <<txn, pc, outcomes>>
    /\ nTxn' = nTxn + 1
    /\ UNCHANGED <<scan, nCrash, nFormat, nErr>>

ReclaimFails ==
    /\ pc = "mounted" /\ nTxn < MaxTxn
    /\ \E n \in 1..MaxCalls : Fits(n) /\ MustReclaim(n)
    /\ jnl' = Reclaimed
    /\ DeviceFails(<<SuperWrite(Reclaimed)>>)
    /\ UNCHANGED <<pc, txn, scan, outcomes, nTxn, nCrash, nFormat>>

\* Steps 1-3 of commit: descriptor, data and commit record into the log.
LogWrites ==
    LET n == Len(txn)
        seq == jnl.next_seq
    IN  <<BlockWrite(LogAddr(jnl.head), Descriptor(seq, Targets(txn), jnl.life))>>
        \o [i \in 1..n |-> BlockWrite(LogAddr(jnl.head + i), txn[i].contents)]
        \o <<BlockWrite(LogAddr(jnl.head + 1 + n), CommitRecord(seq, Contents(txn)))>>

WriteLog ==
    /\ pc = "log"
    /\ WriteBlocks(LogWrites)
    /\ pc' = "logged"
    /\ UNCHANGED <<jnl, txn, scan, result, outcomes, counters>>

\* Bug: no flush between the commit record and the checkpoint (issue #15).
FlushLogSkipped ==
    /\ pc = "logged"
    /\ pc' = "checkpoint"
    /\ UNCHANGED <<devVars, jnl, txn, scan, result, outcomes, counters>>

FlushLog ==
    /\ pc = "logged"
    /\ Flush
    /\ pc' = "checkpoint"
    /\ UNCHANGED <<jnl, txn, scan, result, outcomes, counters>>

Checkpoint ==
    /\ pc = "checkpoint"
    /\ WriteBlocks(CheckpointWrites(txn))
    /\ pc' = "checkpointed"
    /\ UNCHANGED <<jnl, txn, scan, result, outcomes, counters>>

\* Bug: the head runs past the end of the ring.
AdvancedUnwrapped ==
    [jnl EXCEPT !.head = jnl.head + Len(txn) + 2, !.next_seq = jnl.next_seq + 1]

\* Bug: the sequence number is used again.
AdvancedSameSeq ==
    [jnl EXCEPT !.head = (jnl.head + Len(txn) + 2) % LogBlocks]

\* The in-memory half of step 5.
Advanced ==
    [jnl EXCEPT !.head = (jnl.head + Len(txn) + 2) % LogBlocks,
                !.next_seq = jnl.next_seq + 1]

\* The second flush, step 5 of commit, and the return.
CommitFinish ==
    /\ pc = "checkpointed"
    /\ FlushThenWrite(<<SuperWrite(Advanced)>>)
    /\ jnl' = Advanced
    /\ pc' = "mounted" /\ txn' = <<>> /\ result' = "ok"
    /\ outcomes' = {Overlay(o, txn) : o \in outcomes}
    /\ UNCHANGED <<scan, counters>>

\* A failing device call makes commit return with head and next_seq as they
\* were; the caller cannot tell whether the transaction will be replayed.
CommitFails ==
    /\ \/ pc = "log" /\ DeviceFails(LogWrites)
       \/ pc = "checkpoint" /\ DeviceFails(CheckpointWrites(txn))
    /\ pc' = "mounted" /\ txn' = <<>>
    /\ UNCHANGED <<jnl, scan, outcomes, nTxn, nCrash, nFormat>>

\* The last persist_super fails: head and next_seq have moved in memory.
PersistFails ==
    /\ pc = "checkpointed"
    /\ nErr < MaxErr /\ nErr' = nErr + 1
    /\ Flush
    /\ jnl' = Advanced
    /\ pc' = "mounted" /\ txn' = <<>> /\ result' = "IoError"
    /\ UNCHANGED <<scan, outcomes, nTxn, nCrash, nFormat>>

PowerLoss ==
    /\ nCrash < MaxCrash /\ nCrash' = nCrash + 1
    /\ LoseCache
    /\ pc' = "off" /\ jnl' = NoJournal /\ txn' = <<>> /\ scan' = NoScan
    /\ result' = "none"
    /\ UNCHANGED <<outcomes, nTxn, nFormat, nErr>>

DeviceDestages ==
    /\ Destage
    /\ UNCHANGED <<pc, jnl, txn, scan, result, outcomes, counters>>

Mount == Open \/ RecoverStep \/ RecoverFinish
Commit == WriteLog \/ FlushLog \/ Checkpoint \/ CommitFinish
Failure == RecoverFails \/ ReclaimFails \/ CommitFails \/ PersistFails

Next ==
    \/ Format \/ Mount
    \/ CommitRefused \/ CommitBegin \/ Commit
    \/ PowerLoss \/ DeviceDestages

\* The thread that mounts or commits runs on: nothing it waits for is held by
\* another thread, device calls return, and the timer cannot preempt it (the
\* journal's Spinlock masks interrupts).
Fairness == WF_vars(RecoverStep \/ RecoverFinish) /\ WF_vars(Commit)

Spec == Init /\ [][Next]_vars /\ Fairness

\* The journal on a device whose calls may fail, too.
FaultySpec == Init /\ [][Next \/ Failure]_vars /\ Fairness
------------------------------------------------------------------------------
\* The journal's positions stay inside the ring, the log never holds a file
\* system block, and a transaction is open exactly while commit runs.
TypeOK ==
    /\ DOMAIN medium = Address
    /\ \A b \in FsBlock : View[b].kind = "data"
    /\ pc \in {"off", "scan", "mounted", "log", "logged", "checkpoint", "checkpointed"}
    /\ jnl.head \in 0..(LogBlocks - 1) /\ jnl.tail \in 0..(LogBlocks - 1)
    /\ jnl.next_seq \in Nat \ {0}
    /\ scan.pos \in 0..(LogBlocks - 1) /\ scan.budget \in 0..LogBlocks
    /\ (txn # <<>>) = (pc \in {"log", "logged", "checkpoint", "checkpointed"})

\* Crash atomicity (journal.rs: "atomic multi-block transactions and
\* crash-consistent replay"): whatever instant the power fails at, the next
\* mount finds every transaction whole or absent, and every acknowledged one.
CrashAtomic == Recovered(medium) \in outcomes

\* While mounted and idle, what reads return is what a mount of the device as
\* it is seen now would restore: the log holds nothing that is not checkpointed.
ReadsSeeStore == pc = "mounted" => FsPart(View) = Recovered(View)

\* A mount that began scanning the log ends, however the ring is filled (the
\* budget of recover: "so corrupt data cannot make the scan spin").
MountReturns == (pc = "scan") ~> (pc # "scan")

\* The journal implements the atomic store: the store is what a mount would
\* restore from the medium.
Store == INSTANCE AtomicStore WITH
            Blocks <- FsBlock, Initial <- ZeroBlock,
            store <- Recovered(medium), inflight <- txn, reply <- result

\* Every step of the log, the device and the power supply is a step of
\* AtomicStore or leaves it alone.
ImplementsAtomicStore == Store!ASpec

\* Journal::format clears position 0 and says of the log that an earlier file
\* system left behind: "the rest of the ring stays untouched because no scan can
\* reach it from `tail`".  Once position 0 holds nothing of an earlier format,
\* recovery replays records of the present one only.
OldLogNeverReplayed ==
    LET first == View[LogAddr(0)]
    IN  /\ pc = "scan" /\ scan.status = "run" /\ ScanStep(scan, View).writes # <<>>
        /\ first.kind = "desc" => first.life = jnl.life
        => View[LogAddr(scan.pos)].life = jnl.life
==============================================================================
