----------------------------- MODULE VirtioBlk ------------------------------
(***************************************************************************)
(* The sector cache of the virtio-blk driver. SECTOR_CACHE and the device  *)
(* have a lock each; a call takes one after the other, and between the two *)
(* it can be preempted by another call. The device itself is external:     *)
(* read_blocks and write_blocks act at once while the device is locked,    *)
(* and may fail; a write that fails has reached any part of its sectors.   *)
(***************************************************************************)
EXTENDS Integers, Sequences, FiniteSets

CONSTANTS
    BlkTask, Capacity,  \* callers; capacity_blocks
    SECTOR_CACHE_MAX, MaxSectors, MaxWrites

VARIABLES
    disk,       \* what the device holds
    cache,      \* SECTOR_CACHE: sectors in it and their bytes
    blk,        \* the call of each task: step, first sector, bytes
    writes,     \* numbers the writes
    suspect     \* sectors a write reached without storing them, or while another call was
                \* between its own device access and its store: history

blkVars == <<disk, cache, blk, writes, suspect>>

BlkIdle == [step |-> "idle", first |-> 0, bytes |-> <<>>]
Sectors(c) == c.first .. c.first + Len(c.bytes) - 1

Init ==
    /\ disk = [s \in 0 .. Capacity - 1 |-> 0]
    /\ cache = [s \in {} |-> 0]
    /\ blk = [t \in BlkTask |-> BlkIdle]
    /\ writes = 0 /\ suspect = {}

\* validate: whole sectors inside the device
validate(first, n) == n > 0 /\ first + n <= Capacity

\* a mutant of cache_store: sectors that are in the cache are left as they are
StoreMissing(c) ==
    [s \in DOMAIN cache \cup Sectors(c) |->
        IF s \in DOMAIN cache THEN cache[s] ELSE c.bytes[s - c.first + 1]]
\* cache_store: the cache is emptied when the sectors could overflow it
cache_store(c) ==
    LET kept == IF Cardinality(DOMAIN cache) + Len(c.bytes) > SECTOR_CACHE_MAX
                THEN {} ELSE DOMAIN cache
    IN  [s \in kept \cup Sectors(c) |->
            IF s \in Sectors(c) THEN c.bytes[s - c.first + 1] ELSE cache[s]]

\* read_block with every sector in the cache returns from there
cache_fetch ==
    \E t \in BlkTask, first \in 0 .. Capacity - 1, n \in 1 .. MaxSectors :
        LET c == [step |-> "missed", first |-> first, bytes |-> [k \in 1 .. n |-> 0]] IN
        /\ blk[t] = BlkIdle /\ validate(first, n)
        /\ ~Sectors(c) \subseteq DOMAIN cache
        /\ blk' = [blk EXCEPT ![t] = c]
        /\ UNCHANGED <<disk, cache, writes, suspect>>

\* the sectors of a call that has been at the device and not yet at the cache
InFlight(t) == UNION {Sectors(blk[u]) : u \in {v \in BlkTask \ {t} : blk[v].step = "store"}}

\* an error of the device returns before the store
read_blocks ==
    \E t \in BlkTask :
        /\ blk[t].step = "missed"
        /\ \/ blk' = [blk EXCEPT ![t].step = "store",
                                 ![t].bytes = [k \in DOMAIN @ |-> disk[blk[t].first + k - 1]]]
           \/ blk' = [blk EXCEPT ![t] = BlkIdle]
        /\ UNCHANGED <<disk, cache, writes, suspect>>

Written(S) == [s \in DOMAIN disk |-> IF s \in S THEN writes + 1 ELSE disk[s]]

write_blocks ==
    \E t \in BlkTask, first \in 0 .. Capacity - 1, n \in 1 .. MaxSectors :
        LET c == [step |-> "store", first |-> first, bytes |-> [k \in 1 .. n |-> writes + 1]] IN
        /\ blk[t] = BlkIdle /\ validate(first, n) /\ writes < MaxWrites
        /\ writes' = writes + 1
        /\ \/ /\ disk' = Written(Sectors(c))
              /\ blk' = [blk EXCEPT ![t] = c]
              /\ suspect' = suspect \cup (Sectors(c) \cap InFlight(t))
           \/ \E S \in SUBSET Sectors(c) :
                 /\ disk' = Written(S)
                 /\ suspect' = suspect \cup S
                 /\ UNCHANGED blk
        /\ UNCHANGED cache

store ==
    \E t \in BlkTask :
        /\ blk[t].step = "store"
        /\ cache' = cache_store(blk[t])
        /\ blk' = [blk EXCEPT ![t] = BlkIdle]
        /\ UNCHANGED <<disk, writes, suspect>>

Next == cache_fetch \/ read_blocks \/ write_blocks \/ store

BlkSpec == Init /\ [][Next]_blkVars

-----------------------------------------------------------------------------
(* Properties *)

CoherentAt(s) ==
    \/ cache[s] = disk[s]
    \/ \E t \in DOMAIN blk : blk[t].step = "store" /\ s \in Sectors(blk[t])

\* A cached sector is what the device holds, or a call is about to store the new bytes,
\* unless a write of the sector failed at the device or reached it while another call was
\* between the device and the cache (read_block, write_block).
CoherentApart == \A s \in DOMAIN cache \ suspect : CoherentAt(s)

\* The cache, as its comment says, stays coherent by construction: reads populate it,
\* writes update it in place.
CoherentByConstruction == \A s \in DOMAIN cache : CoherentAt(s)
============================================================================
