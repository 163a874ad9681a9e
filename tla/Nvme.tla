-------------------------------- MODULE Nvme --------------------------------
(***************************************************************************)
(* The NVMe driver and its I/O queue pair: the driver puts one command at  *)
(* a time into the submission queue and polls the completion queue by the  *)
(* phase bit; the controller (external) fetches, executes and completes at *)
(* its own pace. NVME_DEV is locked from submit to the end of complete, so *)
(* there is one command per driver at a time; a command that timed out is  *)
(* still in the queue. All transfers go through one scratch page. A        *)
(* request is for 512-byte sectors and goes out as a command per logical   *)
(* block, which may be larger than a sector.                               *)
(***************************************************************************)
EXTENDS Integers, Sequences, FiniteSetsExt

CONSTANTS
    Sectors, Datum,     \* the namespace has sectors 0 .. Sectors - 1; what they may hold
    LbaSizes,           \* sectors per logical block: 2^(lbads - 9)
    Entries,            \* IO_SQ_ENTRIES = IO_CQ_ENTRIES
    MaxCommands, MaxFailures, MaxTimeouts

VARIABLES
    nvme,       \* NvmeCtrl: cid, tail, head, phase, lba_size in sectors
    sq, cq,     \* the queues in memory
    ctl,        \* the controller: doorbell it saw, its heads and phase
    medium,     \* what the sectors hold
    scratch,    \* data_page, one logical block of it
    nvmeCall,   \* the request under way; kind "none": idle
    known,      \* what each sector may hold after the acknowledged writes: history
    read,       \* the last request that succeeded, with the bytes it returned
    late,       \* a command has timed out and may still be executed
    faults

nvmeVars == <<nvme, sq, cq, ctl, medium, scratch, nvmeCall, known, read, late, faults>>

Slot == 0 .. Entries - 1
Sector == 0 .. Sectors - 1
Idle == [kind |-> "none"]
NoRead == [kind |-> "none"]
Succ(i) == (i + 1) % Entries

Init ==
    /\ \E n \in LbaSizes :
        /\ nvme = [cid |-> 0, tail |-> 0, head |-> 0, phase |-> 1, lba_size |-> n]
        /\ scratch = [k \in 0 .. n - 1 |-> 0]
    /\ sq = [i \in Slot |-> Idle]
    /\ cq = [i \in Slot |-> [phase |-> 0, cid |-> 0, ok |-> TRUE]]
    /\ ctl = [db |-> 0, head |-> 0, post |-> 0, phase |-> 1]
    /\ medium = [b \in Sector |-> 0] /\ known = [b \in Sector |-> {0}]
    /\ nvmeCall = Idle /\ read = NoRead /\ late = FALSE
    /\ faults = [failures |-> 0, timeouts |-> 0, partial |-> FALSE]

-----------------------------------------------------------------------------
(* The driver *)

\* rw_common and io_flush take the lock; sent is FALSE while no command is out
Requested(kind, first, bytes) ==
    /\ nvme.cid < MaxCommands
    /\ nvmeCall.kind = "none"
    /\ nvmeCall' = [kind |-> kind, first |-> first, bytes |-> bytes, done |-> 0, sent |-> FALSE]
    /\ read' = NoRead
    /\ UNCHANGED <<nvme, sq, cq, ctl, medium, scratch, known, late, faults>>

rw_sectors_buf ==
    \E b \in Sector : \E n \in 1 .. Sectors - b :
        \E data \in [1 .. n -> Datum] : Requested("write", b, data)
rw_sectors ==
    \E b \in Sector : \E n \in 1 .. Sectors - b : Requested("read", b, [k \in 1 .. n |-> 0])
flush == Requested("flush", 0, <<>>)

\* the chunk that follows what is done: its logical block, the sectors before it there, and
\* its length
byte_off(c) == c.first + c.done
lba(c) == byte_off(c) \div nvme.lba_size
within(c) == byte_off(c) % nvme.lba_size
chunk_len(c) == Min({nvme.lba_size - within(c), Len(c.bytes) - c.done})
Chunk(c) == {byte_off(c) + k : k \in 0 .. chunk_len(c) - 1}

\* submit: the entry goes to the slot of the tail and the doorbell is rung
submit ==
    /\ nvme' = [nvme EXCEPT !.cid = @ + 1]
    /\ sq' = [sq EXCEPT ![nvme.tail] =
                  [kind |-> nvmeCall.kind, cid |-> nvme.cid + 1,
                   lba |-> IF nvmeCall.kind = "flush" THEN 0 ELSE lba(nvmeCall)]]
    /\ ctl' = [ctl EXCEPT !.db = Succ(nvme.tail)]
    /\ nvmeCall' = [nvmeCall EXCEPT !.sent = TRUE]
    /\ UNCHANGED <<cq, medium, read, late>>

\* one pass of rw_common: the chunk goes to the start of the scratch page whatever lies
\* before it in its block, and the rest of the block up to there is zeroed
rw_common_write ==
    LET c == nvmeCall IN
    /\ c.kind = "write" /\ ~c.sent
    /\ submit
    /\ scratch' = [k \in DOMAIN scratch |->
                      IF k < chunk_len(c) THEN c.bytes[c.done + k + 1]
                      ELSE IF k < nvme.lba_size - within(c) THEN 0 ELSE scratch[k]]
    /\ known' = [b \in Sector |-> IF b \in Chunk(c)     \* until it is acknowledged
                                  THEN known[b] \cup {c.bytes[b - c.first + 1]} ELSE known[b]]
    /\ faults' = [faults EXCEPT !.partial = @ \/ chunk_len(c) < nvme.lba_size]
rw_common_read ==
    /\ nvmeCall.kind = "read" /\ ~nvmeCall.sent
    /\ submit
    /\ faults' = [faults EXCEPT !.partial = @ \/ chunk_len(nvmeCall) < nvme.lba_size]
    /\ UNCHANGED <<scratch, known>>
io_flush ==
    /\ nvmeCall.kind = "flush" /\ ~nvmeCall.sent
    /\ submit
    /\ UNCHANGED <<scratch, known, faults>>

Pending == cq[nvme.head].phase = nvme.phase
\* a mutant of Popped: the expected phase is not inverted at the wrap
PoppedSamePhase(n) == [n EXCEPT !.head = Succ(@)]
Popped(n) == [n EXCEPT !.head = Succ(@), !.phase = IF Succ(n.head) = 0 THEN 1 - @ ELSE @]

\* complete: an entry with the expected phase is taken, whatever its cid; io_rw advances
\* the tail only on success; a read's chunk is copied from the start of the scratch page,
\* and the request goes on with the next chunk, ends, or fails
complete ==
    LET e == cq[nvme.head]
        c == nvmeCall
        got == IF c.kind # "read" THEN c
               ELSE [c EXCEPT !.bytes = [k \in DOMAIN @ |->
                        IF k - c.done \in 1 .. chunk_len(c) THEN scratch[k - c.done - 1] ELSE @[k]]]
        next == IF c.kind = "flush" THEN c
                ELSE [got EXCEPT !.done = @ + chunk_len(c), !.sent = FALSE]
        ended == c.kind = "flush" \/ next.done = Len(c.bytes)
    IN
    /\ c.kind # "none" /\ c.sent /\ Pending
    /\ nvme' = IF e.ok THEN [Popped(nvme) EXCEPT !.tail = Succ(@)] ELSE Popped(nvme)
    /\ nvmeCall' = IF e.ok /\ ~ended THEN next ELSE Idle
    /\ read' = IF e.ok /\ ended
               THEN [kind |-> c.kind, first |-> c.first, bytes |-> next.bytes, cid |-> e.cid]
               ELSE NoRead
    /\ known' = IF e.ok /\ c.kind = "write"
                THEN [b \in Sector |-> IF b \in Chunk(c) THEN {c.bytes[b - c.first + 1]}
                                       ELSE known[b]]
                ELSE known
    /\ UNCHANGED <<sq, cq, ctl, medium, scratch, late, faults>>

\* COMPLETION_SPINS polls found nothing
complete_timeout ==
    /\ nvmeCall.kind # "none" /\ nvmeCall.sent /\ ~Pending
    /\ faults.timeouts < MaxTimeouts
    /\ faults' = [faults EXCEPT !.timeouts = @ + 1]
    /\ late' = (late \/ ctl.head # ctl.db)
    /\ nvmeCall' = Idle
    /\ UNCHANGED <<nvme, sq, cq, ctl, medium, scratch, known, read>>

-----------------------------------------------------------------------------
(* The controller *)

\* external: the next command below the doorbell is executed and its completion posted
ControllerStep ==
    LET c == sq[ctl.head]
        from == c.lba * nvme.lba_size
    IN
    /\ ctl.head # ctl.db
    /\ \E ok \in BOOLEAN :
        /\ ok \/ faults.failures < MaxFailures
        /\ faults' = IF ok THEN faults ELSE [faults EXCEPT !.failures = @ + 1]
        /\ medium' = IF ok /\ c.kind = "write" 
                     THEN [b \in Sector |-> IF b - from \in DOMAIN scratch THEN scratch[b - from]
                                            ELSE medium[b]]
                     ELSE medium
        /\ scratch' = IF ok /\ c.kind = "read"
                      THEN [k \in DOMAIN scratch |-> medium[from + k]] ELSE scratch
        /\ cq' = [cq EXCEPT ![ctl.post] = [phase |-> ctl.phase, cid |-> c.cid, ok |-> ok]]
    /\ ctl' = [ctl EXCEPT !.head = Succ(@), !.post = Succ(@),
                          !.phase = IF Succ(ctl.post) = 0 THEN 1 - @ ELSE @]
    /\ UNCHANGED <<nvme, sq, nvmeCall, known, read, late>>

Next ==
    \/ rw_sectors_buf \/ rw_sectors \/ flush
    \/ rw_common_write \/ rw_common_read \/ io_flush \/ complete \/ complete_timeout
    \/ ControllerStep

NvmeSpec == Init /\ [][Next]_nvmeVars

-----------------------------------------------------------------------------
(* Properties *)

ReturnsWritten ==
    read.kind = "read" =>
        \A k \in DOMAIN read.bytes : read.bytes[k] \in known[read.first + k - 1]

\* A read that succeeds returns what its sectors hold after the writes that were
\* acknowledged before it (or a write that failed), over requests of several blocks, wraps
\* of both queues and failed commands (rw_common, io_rw, complete), as long as every
\* request covers whole logical blocks and no command was given up while the controller
\* still had it.
ReadsBack == ~late /\ ~faults.partial => ReturnsWritten

\* The same of any range of 512-byte sectors, which is what a BlockDevice is asked for
\* (rw_common computes the offset within a logical block).
AnySectors == ~late => ReturnsWritten

\* The completion that ends a command is the command's own: complete polls, as its
\* comment says, until an entry with matching CID arrives.
OwnCompletion == read.kind # "none" => read.cid = nvme.cid
============================================================================
