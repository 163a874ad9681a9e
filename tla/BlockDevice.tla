----------------------------- MODULE BlockDevice -----------------------------
(***************************************************************************)
(* The `BlockDevice` trait (drivers/mod.rs) as the write-ahead log uses    *)
(* it: whole-block reads and writes, and `flush`.  A write is acknowledged *)
(* when it reaches the device's volatile cache; the device destages cached *)
(* writes to the medium on its own schedule, and `flush` empties the cache.*)
(* A power loss keeps the medium and loses the cache.                      *)
(*                                                                         *)
(* A write of one 4096-byte block is atomic on the medium.  `Reorders`     *)
(* tells apart the two devices of the trait's comment: FALSE destages in   *)
(* order (virtio-blk over a host file; a RAM disk is the case where every  *)
(* write is destaged at once), TRUE destages the blocks in any order       *)
(* (NVMe), keeping the order of two writes to the same block.              *)
(***************************************************************************)
EXTENDS Naturals, Sequences, FiniteSetsExt

CONSTANTS
    Reorders    \* may writes to different blocks be destaged out of order?

VARIABLES
    medium,     \* what survives a power loss: [block address -> contents]
    cache       \* acknowledged writes not yet on the medium, oldest first

devVars == <<medium, cache>>

BlockWrite(a, c) == [addr |-> a, contents |-> c]

\* The image of a device after a sequence of writes: the last write wins.
Written(image, ws) ==
    [a \in DOMAIN image |->
        LET writes == {i \in 1..Len(ws) : ws[i].addr = a}
        IN  IF writes = {} THEN image[a] ELSE ws[Max(writes)].contents]

\* What read_block returns: the cached contents of a block before the medium's.
View == Written(medium, cache)

\* The sequence without its i-th element.
Without(s, i) == SubSeq(s, 1, i - 1) \o SubSeq(s, i + 1, Len(s))

WriteBlocks(ws) == cache' = cache \o ws /\ UNCHANGED medium

\* flush, followed by the writes `ws` (which are cached again).
FlushThenWrite(ws) == medium' = View /\ cache' = ws

Flush == FlushThenWrite(<<>>)

\* The device destages one cached write on its own.
Destage ==
    \E i \in 1..Len(cache) :
        /\ IF Reorders THEN \A j \in 1..(i-1) : cache[j].addr # cache[i].addr
                       ELSE i = 1
        /\ medium' = [medium EXCEPT ![cache[i].addr] = cache[i].contents]
        /\ cache' = Without(cache, i)

LoseCache == cache' = <<>> /\ UNCHANGED medium
==============================================================================
