-------------------------------- MODULE Ext2 --------------------------------
(***************************************************************************)
(* The ext2 file system: block and inode bitmaps with their free counts,   *)
(* block maps with indirect blocks, directory blocks with record lengths,  *)
(* hard and symbolic links, truncation and holes. A mutating operation is  *)
(* one transaction (Tx) under tx_lock, which masks interrupts, so it is    *)
(* one step here; a long write is several, and one that fails leaves what  *)
(* was committed before. That the commit of the dirty blocks is atomic     *)
(* across a crash is what the journal promises. An operation reaches its   *)
(* inode through a node that was looked up earlier, in a step of its own:  *)
(* by then the inode may be gone, or its size be another one. Such a step  *)
(* sets stale, and the behaviour is followed up to there.                  *)
(*                                                                         *)
(* A transaction is a record t that the helpers pass on; t.ok turns FALSE  *)
(* where the code returns an error, and then nothing is committed.         *)
(***************************************************************************)
EXTENDS Integers, Sequences, FiniteSets, SequencesExt

CONSTANTS
    DeviceBlocks,       \* the block counts a device may have, journal excluded
    MAX_GROUP_BLOCKS, MIN_INODES, InodesPerBlock, BlocksPerInode,
    EXT2_FIRST_INO, Runt,   \* Runt: the least room after the metadata of the last group
    NDIRECT, PPB, BS,   \* direct pointers, pointers per block, bytes per block
    Name, RecLen(_),    \* names and min_rec_len of their lengths
    TargetLen, FAST_MAX_TARGET,
    Ext2Calls, Write,   \* the operations of an instance, <<offset, length>> of its writes
    Sizes,              \* the sizes truncate_file is called with
    TX_DATA_BLOCKS,     \* blocks of a write in one transaction
    ZERO_CHUNK,         \* bytes of a growth in one transaction: fewer than TX_DATA_BLOCKS hold
    MaxNodes, MaxExt2Ops

VARIABLES
    fs,         \* what is on the disk (and in Ext2Inner, which mirrors it)
    nodes,      \* nodes held by callers: inode number and whether it is still that inode
    sizeRead,   \* the calls between two transactions: a write with more to write, a truncation
                \* that has read the size and not yet taken the lock
    contents,   \* what each file should hold: a history variable
    stale,      \* a call has used a node whose inode was released, or an old size
    ext2Ops

ext2Vars == <<fs, nodes, sizeRead, contents, stale, ext2Ops>>

EXT2_ROOT_INO == 2
Least(S) == CHOOSE x \in S : \A y \in S : x <= y
CeilDiv(a, b) == (a + b - 1) \div b
Most(a, b) == IF a >= b THEN a ELSE b
Lesser(a, b) == IF a <= b THEN a ELSE b

-----------------------------------------------------------------------------
(* Blocks: a zeroed one reads as zeros whatever it is used for. *)

Zeroed == [k |-> "zero"]
Ptrs(c) == IF c.k = "ptr" THEN c.p ELSE [s \in 0 .. PPB - 1 |-> 0]
Bytes(c) == IF c.k = "data" THEN c.v ELSE [i \in 0 .. BS - 1 |-> 0]
Entries(c) == IF c.k = "dir" THEN c.e ELSE <<>>

NoBlocks == [s \in 0 .. NDIRECT + 1 |-> 0]
Inode(kind, links, size, blocks, map) ==
    [kind |-> kind, links |-> links, size |-> size, blocks |-> blocks, map |-> map]
FreeInode == Inode("none", 0, 0, 0, NoBlocks)

-----------------------------------------------------------------------------
(* dir.rs: a directory block is a chain of entries whose lengths fill it. *)

Ideal(e) == IF e.ino = 0 THEN 0 ELSE RecLen(e.name)
Fits(es, name) == {i \in DOMAIN es : es[i].rec - Ideal(es[i]) >= RecLen(name)}
Found(es, name) == {i \in DOMAIN es : es[i].ino # 0 /\ es[i].name = name}

init_empty_block == <<[ino |-> 0, rec |-> BS, name |-> ""]>>
init_dot_entries(self, parent) ==
    <<[ino |-> self, rec |-> RecLen("."), name |-> "."],
      [ino |-> parent, rec |-> BS - RecLen("."), name |-> ".."]>>
insert_into_block(es, name, ino) ==
    LET i == Least(Fits(es, name))
        new == [ino |-> ino, rec |-> es[i].rec - Ideal(es[i]), name |-> name]
    IN  IF es[i].ino = 0 THEN [es EXCEPT ![i] = new]
        ELSE InsertAt([es EXCEPT ![i].rec = Ideal(es[i])], i + 1, new)
\* a mutant of remove_from_block: the previous entry does not take over the room
RemovedWithRoom(es, name) ==
    LET i == Least(Found(es, name))
    IN  IF i = 1 THEN [es EXCEPT ![1].ino = 0, ![1].name = ""] ELSE RemoveAt(es, i)
remove_from_block(es, name) ==
    LET i == Least(Found(es, name))
    IN  IF i = 1 THEN [es EXCEPT ![1].ino = 0, ![1].name = ""]
        ELSE RemoveAt([es EXCEPT ![i - 1].rec = @ + es[i].rec], i)
live_entry_count(es) ==
    Cardinality({i \in DOMAIN es : es[i].ino # 0 /\ es[i].name \notin {".", ".."}})

-----------------------------------------------------------------------------
(* Allocation: the first group with room, the lowest clear bit. *)

GroupBlocks(t, g) == (g - 1) * MAX_GROUP_BLOCKS .. g * MAX_GROUP_BLOCKS - 1
GroupInodes(t, g) == (g - 1) * t.ipg + 1 .. g * t.ipg
GroupOfBlock(b) == b \div MAX_GROUP_BLOCKS + 1
GroupOfInode(t, i) == (i - 1) \div t.ipg + 1
Failed(t) == [t EXCEPT !.ok = FALSE]

RECURSIVE alloc_zeroed_block_from(_, _)
alloc_zeroed_block_from(t, g) ==
    IF g > Len(t.gds) THEN [t |-> Failed(t), n |-> 0]
    ELSE LET clear == GroupBlocks(t, g) \ t.bbm
             skipped == [t EXCEPT !.gds[g].blocks = 0]
             b == Least(clear)
    IN  IF t.gds[g].blocks = 0 THEN alloc_zeroed_block_from(t, g + 1)
        ELSE IF clear = {} THEN alloc_zeroed_block_from(skipped, g + 1)
        ELSE IF b >= t.total THEN alloc_zeroed_block_from(skipped, g + 1)
        ELSE [t |-> [t EXCEPT !.bbm = @ \cup {b}, !.free.blocks = @ - 1,
                              !.gds[g].blocks = @ - 1, !.blk[b] = Zeroed],
              n |-> b]
alloc_zeroed_block(t) ==
    IF t.ok THEN alloc_zeroed_block_from(t, 1) ELSE [t |-> t, n |-> 0]

free_data_block(t, b) ==
    IF b \notin t.bbm THEN t
    ELSE [t EXCEPT !.bbm = @ \ {b}, !.free.blocks = @ + 1,
                   !.gds[GroupOfBlock(b)].blocks = @ + 1]

RECURSIVE alloc_new_inode_from(_, _)
alloc_new_inode_from(t, g) ==
    IF g > Len(t.gds) THEN [t |-> Failed(t), n |-> 0]
    ELSE LET clear == GroupInodes(t, g) \ t.ibm
             i == Least(clear)
    IN  IF t.gds[g].inodes = 0 THEN alloc_new_inode_from(t, g + 1)
        ELSE IF clear = {} THEN alloc_new_inode_from([t EXCEPT !.gds[g].inodes = 0], g + 1)
        ELSE [t |-> [t EXCEPT !.ibm = @ \cup {i}, !.free.inodes = @ - 1,
                              !.gds[g].inodes = @ - 1],
              n |-> i]
alloc_new_inode(t) == alloc_new_inode_from(t, 1)

free_inode_bit(t, i) ==
    IF i \notin t.ibm THEN t
    ELSE [t EXCEPT !.ibm = @ \ {i}, !.free.inodes = @ + 1,
                   !.gds[GroupOfInode(t, i)].inodes = @ + 1]

-----------------------------------------------------------------------------
(* Block maps: direct pointers, one single and one double indirect tree. The *)
(* triple tree begins beyond 4 GiB, the largest size the operations accept.  *)

Root(lbn) == IF lbn < NDIRECT THEN lbn ELSE IF lbn < NDIRECT + PPB THEN NDIRECT ELSE NDIRECT + 1
Path(lbn) ==
    LET l == lbn - NDIRECT
    IN  IF lbn < NDIRECT THEN <<>>
        ELSE IF l < PPB THEN <<l>>
        ELSE <<(l - PPB) \div PPB, (l - PPB) % PPB>>

RECURSIVE Follow(_, _, _)
Follow(t, b, path) ==
    IF b = 0 \/ path = <<>> THEN b ELSE Follow(t, Ptrs(t.blk[b])[Head(path)], Tail(path))
block_for_offset(t, node, lbn) == Follow(t, node.map[Root(lbn)], Path(lbn))

\* the block a hangs in slot s of the indirect block ind
Hung(m, ind, s, a) ==
    IF a.t.ok
    THEN [m EXCEPT !.t = [a.t EXCEPT !.blk[ind] = [k |-> "ptr", p |-> [Ptrs(@) EXCEPT ![s] = a.n]]],
                   !.node.blocks = @ + 1]
    ELSE [m EXCEPT !.t = a.t]
RECURSIVE map_indirect(_, _, _)
map_indirect(m, ind, path) ==
    IF path = <<>> \/ ~m.t.ok THEN [m EXCEPT !.n = ind]
    ELSE LET s == Head(path)
             next == IF Ptrs(m.t.blk[ind])[s] # 0 THEN m
                     ELSE Hung(m, ind, s, alloc_zeroed_block(m.t))
         IN  map_indirect(next, Ptrs(next.t.blk[ind])[s], Tail(path))
\* the block a hangs in slot r of the inode
ensure_indirect_root(m, r, a) ==
    IF a.t.ok THEN [t |-> a.t, node |-> [m.node EXCEPT !.map[r] = a.n, !.blocks = @ + 1], n |-> 0]
    ELSE [m EXCEPT !.t = a.t]
map_or_alloc(t, node, lbn) ==
    LET r == Root(lbn)
        m == [t |-> t, node |-> node, n |-> 0]
        rooted == IF node.map[r] # 0 THEN m ELSE ensure_indirect_root(m, r, alloc_zeroed_block(t))
    IN  map_indirect(rooted, rooted.node.map[r], Path(lbn))

\* clear_slot: the leaf below the indirect block b goes. An indirect block below b
\* that becomes empty is taken out of b; lost records that its bit stays set.
Unhung(b, path, child, c) ==
    LET slots == [Ptrs(c.t.blk[b]) EXCEPT ![Head(path)] = IF c.empty THEN 0 ELSE @]
    IN  [t |-> [c.t EXCEPT !.blk[b] = [k |-> "ptr", p |-> slots],
                           !.lost = IF c.empty /\ Len(path) > 1 THEN @ \cup {child} ELSE @],
         empty |-> \A s \in DOMAIN slots : slots[s] = 0,
         freed |-> c.freed]
RECURSIVE clear_slot(_, _, _)
clear_slot(t, b, path) ==
    LET child == Ptrs(t.blk[b])[Head(path)]
    IN  Unhung(b, path, child,
            IF child = 0 THEN [t |-> t, empty |-> FALSE, freed |-> 0]
            ELSE IF Len(path) > 1 THEN clear_slot(t, child, Tail(path))
            ELSE [t |-> free_data_block(t, child), empty |-> TRUE, freed |-> 1])
Uprooted(m, r, c) ==
    IF c.empty THEN [m EXCEPT !.t = free_data_block(c.t, m.node.map[r]), !.node.map[r] = 0, !.n = @ + 1 + c.freed]
    ELSE [m EXCEPT !.t = c.t, !.n = @ + c.freed]
clear_mapping(m, lbn) ==
    LET b == m.node.map[Root(lbn)]
    IN  IF b = 0 THEN m
        ELSE Uprooted(m, Root(lbn), IF lbn < NDIRECT THEN [t |-> m.t, empty |-> TRUE, freed |-> 0]
                                    ELSE clear_slot(m.t, b, Path(lbn)))

RECURSIVE free_indirect(_, _, _)
free_indirect(t, b, level) ==
    IF b = 0 THEN t
    ELSE IF level = 0 THEN free_data_block(t, b)
    ELSE free_data_block(FoldLeftDomain(LAMBDA u, s : free_indirect(u, Ptrs(t.blk[b])[s - 1], level - 1),
                                        t, [s \in 1 .. PPB |-> s]), b)
free_all_blocks(t, node) ==
    FoldLeftDomain(LAMBDA u, s : free_indirect(u, node.map[s - 1], Most(0, s - NDIRECT)),
                   t, [s \in 1 .. NDIRECT + 2 |-> s])
is_fast(node) == node.blocks = 0 /\ node.size <= FAST_MAX_TARGET + 1
free_inode_blocks(t, node) ==
    IF node.kind # "link" THEN free_all_blocks(t, node)
    ELSE IF is_fast(node) \/ node.map[0] = 0 THEN t
    ELSE free_data_block(t, node.map[0])
-----------------------------------------------------------------------------
(* format and mount *)

Format(device) ==
    LET bpg == MAX_GROUP_BLOCKS
        groups0 == CeilDiv(device, bpg)
        scaled == Most(device \div BlocksPerInode, MIN_INODES)
        ipg == CeilDiv(Most(scaled \div groups0, InodesPerBlock), InodesPerBlock) * InodesPerBlock
        meta == 1 + 1 + 2 + ipg \div InodesPerBlock
        dropped == groups0 > 1 /\ device - (groups0 - 1) * bpg < meta + Runt
        groups == IF dropped THEN groups0 - 1 ELSE groups0
        total == IF dropped THEN groups * bpg ELSE device
        reserved == EXT2_FIRST_INO - 1
        used(g) == IF g = 1 THEN meta + 1 ELSE meta
        span(g) == IF total - (g - 1) * bpg < bpg THEN total - (g - 1) * bpg ELSE bpg
    IN  [ok |-> total > meta * groups + 1, total |-> total, ipg |-> ipg, meta |-> meta,
         free |-> [blocks |-> total - (meta * groups + 1), inodes |-> groups * ipg - reserved],
         gds |-> [g \in 1 .. groups |->
             [blocks |-> span(g) - used(g), inodes |-> IF g = 1 THEN ipg - reserved ELSE ipg,
              dirs |-> IF g = 1 THEN 1 ELSE 0]],
         bbm |-> UNION {(g - 1) * bpg .. (g - 1) * bpg + used(g) - 1 : g \in 1 .. groups}
                 \cup (total .. groups * bpg - 1),
         ibm |-> 1 .. reserved,
         inode |-> [i \in 1 .. groups * ipg |->
             IF i = EXT2_ROOT_INO THEN Inode("dir", 2, BS, 1, [NoBlocks EXCEPT ![0] = meta])
             ELSE FreeInode],
         blk |-> [b \in 0 .. groups * bpg - 1 |->
             IF b = meta THEN [k |-> "dir", e |-> init_dot_entries(EXT2_ROOT_INO, EXT2_ROOT_INO)]
             ELSE Zeroed],
         lost |-> {}]

Unset(S, used) == Cardinality(S \ used)
reconcile_free_counts(t) ==
    [t EXCEPT !.gds = [g \in DOMAIN @ |->
                  [@[g] EXCEPT !.blocks = Unset(GroupBlocks(t, g) \cap (0 .. t.total - 1), t.bbm),
                               !.inodes = Unset(GroupInodes(t, g), t.ibm)]],
              !.free = [blocks |-> Unset(0 .. t.total - 1, t.bbm),
                        inodes |-> Unset(DOMAIN t.inode, t.ibm)]]

-----------------------------------------------------------------------------
(* Directory operations of a transaction *)

DirBlocks(t, i) ==
    {b \in {block_for_offset(t, t.inode[i], n) : n \in 0 .. CeilDiv(t.inode[i].size, BS) - 1} :
        b # 0}
Holders(t, i, name) == {b \in DirBlocks(t, i) : Found(Entries(t.blk[b]), name) # {}}
ChildOf(t, i, name) ==
    LET b == CHOOSE c \in Holders(t, i, name) : TRUE
        es == Entries(t.blk[b])
    IN  es[Least(Found(es, name))].ino

\* iter_entries refuses a block that is not a chain of entries
Damaged(t, i) == \E b \in DirBlocks(t, i) : t.blk[b].k # "dir"

\* insert_dirent: the first block with room, or a new one at the end
InNewBlock(i, m, name, child) ==
    IF ~m.t.ok THEN m.t
    ELSE [m.t EXCEPT !.blk[m.n] = [k |-> "dir", e |-> insert_into_block(init_empty_block, name, child)],
                     !.inode[i] = [m.node EXCEPT !.size = @ + BS]]
insert_dirent(t, i, name, child) ==
    LET d == t.inode[i]
        n == CeilDiv(d.size, BS)
        room == {l \in 0 .. n - 1 : LET b == block_for_offset(t, d, l)
                                    IN  b # 0 /\ Fits(Entries(t.blk[b]), name) # {}}
        old == block_for_offset(t, d, Least(room))
    IN  IF ~t.ok \/ Damaged(t, i) \/ Holders(t, i, name) # {} THEN Failed(t)
        ELSE IF room # {}
        THEN [t EXCEPT !.blk[old].e = insert_into_block(@, name, child)]
        ELSE InNewBlock(i, map_or_alloc(t, d, n), name, child)

\* the transaction of create with its inode a and, for a directory, its block d
CreateWith(t, parent, name, isDir, a, d) ==
    LET made == IF isDir
                THEN [d.t EXCEPT !.blk[d.n] = [k |-> "dir", e |-> init_dot_entries(a.n, parent)],
                                 !.inode[a.n] = Inode("dir", 2, BS, 1, [NoBlocks EXCEPT ![0] = d.n])]
                ELSE [a.t EXCEPT !.inode[a.n] = Inode("reg", 1, 0, 0, NoBlocks)]
        more == IF isDir THEN 1 ELSE 0
    IN  IF ~a.t.ok THEN a.t
        ELSE IF isDir /\ ~d.t.ok THEN d.t
        ELSE [insert_dirent(made, parent, name, a.n) EXCEPT
                 !.inode[parent].links = @ + more, !.gds[GroupOfInode(t, a.n)].dirs = @ + more]
CreateTx(t, parent, name, isDir) ==
    LET a == alloc_new_inode(t) IN CreateWith(t, parent, name, isDir, a, alloc_zeroed_block(a.t))

\* the words of an inline target, read as block numbers, spell some block in use
TextWords(t) == [NoBlocks EXCEPT ![0] = t.meta]
SymlinkWith(t, parent, name, len, a, d) ==
    LET target == [k |-> "data", v |-> [i \in 0 .. BS - 1 |-> IF i < len THEN 1 ELSE 0]]
    IN  IF ~a.t.ok THEN a.t
        ELSE IF len <= FAST_MAX_TARGET
        THEN insert_dirent([a.t EXCEPT !.inode[a.n] = Inode("link", 1, len, 0, TextWords(t))], parent, name, a.n)
        ELSE IF ~d.t.ok THEN d.t
        ELSE insert_dirent([d.t EXCEPT !.blk[d.n] = target,
                 !.inode[a.n] = Inode("link", 1, len, 1, [NoBlocks EXCEPT ![0] = d.n])], parent, name, a.n)
SymlinkTx(t, parent, name, len) ==
    LET a == alloc_new_inode(t) IN SymlinkWith(t, parent, name, len, a, alloc_zeroed_block(a.t))

LinkTx(t, parent, name, target) ==
    IF t.inode[target].kind = "dir" \/ t.inode[target].links = 0 THEN Failed(t)
    ELSE insert_dirent([t EXCEPT !.inode[target].links = @ + 1], parent, name, target)

Empty(t, i) == \A b \in DirBlocks(t, i) : live_entry_count(Entries(t.blk[b])) = 0
UnlinkTx(t, parent, name) ==
    LET b == CHOOSE c \in Holders(t, parent, name) : TRUE
        i == ChildOf(t, parent, name)
        child == t.inode[i]
        without == [t EXCEPT !.blk[b].e = remove_from_block(@, name)]
        released == free_inode_bit(free_inode_blocks(without, child), i)
        t2 == [released EXCEPT !.inode[i].links = 0]
    IN  IF t.inode[parent].kind # "dir" \/ Damaged(t, parent) \/ Holders(t, parent, name) = {} THEN Failed(t)
        ELSE IF child.kind = "dir"
        THEN IF ~Empty(t, i) THEN Failed(t)
             ELSE [t2 EXCEPT !.inode[parent].links = Most(0, @ - 1),
                             !.gds[GroupOfInode(t, i)].dirs = Most(0, @ - 1)]
        ELSE IF child.links = 0 THEN Failed(t)
        ELSE IF child.links = 1 THEN t2
        ELSE [without EXCEPT !.inode[i].links = @ - 1]
-----------------------------------------------------------------------------
(* File operations of a transaction *)

\* one block of a write: bytes from .. to - 1 of the file become v
Filled(m, a, lbn, from, to, v) ==
    LET old == Bytes(a.t.blk[a.n])
        new == [i \in 0 .. BS - 1 |-> IF lbn * BS + i \in from .. to - 1 THEN v ELSE old[i]]
    IN  IF ~a.t.ok THEN [m EXCEPT !.t = a.t]
        ELSE [m EXCEPT !.t = [a.t EXCEPT !.blk[a.n] = [k |-> "data", v |-> new]], !.node = a.node]
Chunk(m, lbn, from, to, v) ==
    IF m.t.ok THEN Filled(m, map_or_alloc(m.t, m.node, lbn), lbn, from, to, v) ELSE m
Written(m, i, end) ==
    IF ~m.t.ok THEN m.t ELSE [m.t EXCEPT !.inode[i] = [m.node EXCEPT !.size = Most(@, end)]]
WriteTx(t, i, off, len, v) ==
    LET first == off \div BS
        last == (off + len - 1) \div BS
    IN  IF t.inode[i].kind # "reg" THEN Failed(t)
        ELSE Written(FoldLeftDomain(LAMBDA u, n : Chunk(u, first + n - 1, off, off + len, v),
                             [t |-> t, node |-> t.inode[i], n |-> 0],
                            [n \in 1 .. last - first + 1 |-> n]), i, off + len)

\* a mutant of ZeroTail: only whole blocks are cut off
TailKept(t, node, size) == t

\* the rest of the last block is zeroed
ZeroTail(t, node, size) ==
    LET b == block_for_offset(t, node, CeilDiv(size, BS) - 1)
    IN  IF size % BS = 0 \/ b = 0 THEN t
        ELSE [t EXCEPT !.blk[b] = [k |-> "data", v |->
                 [i \in 0 .. BS - 1 |-> IF i < size % BS THEN Bytes(t.blk[b])[i] ELSE 0]]]
Shrunk(m, i, size) ==
    [ZeroTail(m.t, m.node, size) EXCEPT
        !.inode[i] = [m.node EXCEPT !.size = size, !.blocks = Most(0, @ - m.n)]]
ShrinkTx(t, i, old, size) ==
    LET from == CeilDiv(size, BS)
    IN  IF t.inode[i].kind # "reg" THEN Failed(t)
        ELSE Shrunk(FoldLeftDomain(LAMBDA u, n : clear_mapping(u, from + n - 1),
                            [t |-> t, node |-> t.inode[i], n |-> 0],
                            [n \in 1 .. CeilDiv(old, BS) - from |-> n]), i, size)

read_file(t, i) ==
    [n \in 0 .. t.inode[i].size - 1 |->
        LET b == block_for_offset(t, t.inode[i], n \div BS)
        IN  IF b = 0 THEN 0 ELSE Bytes(t.blk[b])[n % BS]]

-----------------------------------------------------------------------------
(* The operations *)

Overwritten(c, off, len, v) ==
    [n \in 0 .. Most(Cardinality(DOMAIN c), off + len) - 1 |->
        IF n \in off .. off + len - 1 THEN v ELSE IF n \in DOMAIN c THEN c[n] ELSE 0]

May(c) == c \in Ext2Calls /\ fs # <<>> /\ ~stale /\ ext2Ops < MaxExt2Ops

\* the transaction commits; the nodes of an inode it releases point at nothing from now on
Committed(t, h, old) ==
    /\ t.ok
    /\ fs' = t
    /\ nodes' = {IF n.ino \in fs.ibm \ t.ibm THEN [n EXCEPT !.live = FALSE] ELSE n : n \in nodes}
    /\ stale' = (stale \/ ~h.live \/ old)
    /\ ext2Ops' = ext2Ops + 1

Dirs == {h \in nodes : fs.inode[h.ino].kind = "dir"}
RegularFiles == {h \in nodes : fs.inode[h.ino].kind = "reg"}

format ==
    /\ fs = <<>>
    /\ \E d \in DeviceBlocks : Format(d).ok /\ fs' = Format(d)
    /\ nodes' = {[ino |-> EXT2_ROOT_INO, live |-> TRUE]}
    /\ contents' = [i \in DOMAIN fs'.inode |-> [n \in {} |-> 0]]
    /\ UNCHANGED <<sizeRead, stale, ext2Ops>>

\* a restart: no node survives it, the counts are taken from the bitmaps
mount_fs ==
    /\ May("mount")
    /\ fs' = reconcile_free_counts(fs)
    /\ nodes' = {[ino |-> EXT2_ROOT_INO, live |-> TRUE]}
    /\ sizeRead' = {}
    /\ ext2Ops' = ext2Ops + 1
    /\ UNCHANGED <<contents, stale>>

lookup ==
    \E h \in Dirs, name \in Name :
        /\ May("lookup") /\ Cardinality(nodes) < MaxNodes
        /\ ~Damaged(fs, h.ino) /\ Holders(fs, h.ino, name) # {}
        /\ nodes' = nodes \cup {[ino |-> ChildOf(fs, h.ino, name), live |-> TRUE]}
        /\ stale' = ~h.live
        /\ UNCHANGED <<fs, sizeRead, contents, ext2Ops>>

\* the last reference to a node goes
forget ==
    \E h \in nodes :
        /\ May("lookup") /\ h.ino # EXT2_ROOT_INO /\ \A r \in sizeRead : r.h # h
        /\ nodes' = nodes \ {h}
        /\ UNCHANGED <<fs, sizeRead, contents, stale, ext2Ops>>

create ==
    \E h \in Dirs, name \in Name, isDir \in BOOLEAN :
     \E t \in {CreateTx(fs, h.ino, name, isDir)} :
        /\ May(IF isDir THEN "mkdir" ELSE "create")
        /\ Committed(t, h, FALSE)
        /\ contents' = IF isDir THEN contents
                       ELSE [contents EXCEPT ![Least(t.ibm \ fs.ibm)] = [n \in {} |-> 0]]
        /\ UNCHANGED sizeRead

create_symlink ==
    \E h \in Dirs, name \in Name, len \in TargetLen :
        /\ May("symlink")
        /\ Committed(SymlinkTx(fs, h.ino, name, len), h, FALSE)
        /\ UNCHANGED <<sizeRead, contents>>

link ==
    \E h \in Dirs, f \in nodes, name \in Name :
        /\ May("link")
        /\ Committed(LinkTx(fs, h.ino, name, f.ino), h, ~f.live)
        /\ UNCHANGED <<sizeRead, contents>>

unlink ==
    \E h \in Dirs, name \in Name :
        /\ May("unlink")
        /\ Committed(UnlinkTx(fs, h.ino, name), h, FALSE)
        /\ UNCHANGED <<sizeRead, contents>>

\* the node a call holds, which may be gone by its next transaction
Now(h) == IF h \in nodes THEN h ELSE [h EXCEPT !.live = FALSE]
TxEnd(r) ==
    Lesser(r.end, IF r.op = "grow" THEN r.pos + ZERO_CHUNK ELSE (r.pos \div BS + TX_DATA_BLOCKS) * BS)
\* one transaction of a write; the call goes on with the rest, or ends here if it fails
WriteStep(r) ==
    LET v == IF r.op = "grow" THEN 0 ELSE 1
        len == TxEnd(r) - r.pos
        rest == IF TxEnd(r) = r.end THEN {} ELSE {[r EXCEPT !.pos = TxEnd(r)]}
    IN  \E t \in {WriteTx(fs, r.h.ino, r.pos, len, v)} :
        \/ /\ Committed(t, Now(r.h), r.op = "grow" /\ fs.inode[r.h.ino].size # r.pos)
           /\ contents' = [contents EXCEPT ![r.h.ino] = Overwritten(@, r.pos, len, v)]
           /\ sizeRead' = (sizeRead \ {r}) \cup rest
        \/ /\ ~t.ok
           /\ sizeRead' = sizeRead \ {r}
           /\ UNCHANGED <<fs, nodes, contents, stale, ext2Ops>>

write_file ==
    \E h \in RegularFiles, w \in Write :
        /\ May("write") /\ \A r \in sizeRead : r.op # "write"
        /\ WriteStep([op |-> "write", h |-> h, pos |-> w[1], end |-> w[1] + w[2]])
write_more == \E r \in sizeRead : r.op # "shrink" /\ May("write") /\ WriteStep(r)

\* truncate_file reads the size without the lock
truncate_begin ==
    \E h \in RegularFiles, size \in Sizes :
        /\ May("truncate") /\ \A r \in sizeRead : r.op = "write"
        /\ size # fs.inode[h.ino].size
        /\ sizeRead' = sizeRead \cup
               {[op |-> IF size > fs.inode[h.ino].size THEN "grow" ELSE "shrink", h |-> h,
                 pos |-> fs.inode[h.ino].size, end |-> size]}
        /\ UNCHANGED <<fs, nodes, contents, stale, ext2Ops>>

truncate_file ==
    \E r \in sizeRead :
        /\ r.op = "shrink" /\ May("truncate")
        /\ \E t \in {ShrinkTx(fs, r.h.ino, r.pos, r.end)} :
               Committed(t, Now(r.h), fs.inode[r.h.ino].size # r.pos)
        /\ contents' = [contents EXCEPT ![r.h.ino] =
               [n \in 0 .. r.end - 1 |-> IF n \in DOMAIN @ THEN @[n] ELSE 0]]
        /\ sizeRead' = sizeRead \ {r}

Init ==
    /\ fs = <<>> /\ nodes = {} /\ sizeRead = {} /\ stale = FALSE /\ ext2Ops = 0
    /\ contents = <<>>

Next ==
    \/ format \/ mount_fs \/ lookup \/ forget \/ create \/ create_symlink \/ link \/ unlink
    \/ write_file \/ write_more \/ truncate_begin \/ truncate_file

Ext2Spec == Init /\ [][Next]_ext2Vars

-----------------------------------------------------------------------------
(* Properties *)

InUse(t) == {i \in DOMAIN t.inode : t.inode[i].links > 0}
Below(t, b) == {<<b, s, Ptrs(t.blk[b])[s]>> : s \in 0 .. PPB - 1}
\* where the blocks of an inode hang: inode or indirect block, slot, block
Edges(t, i) ==
    LET node == t.inode[i]
        top == {<<"inode", i, s, node.map[s]>> : s \in DOMAIN node.map}
        single == {<<"block">> \o e : e \in Below(t, node.map[NDIRECT])}
        double == {<<"block">> \o e : e \in Below(t, node.map[NDIRECT + 1])}
        leaves == UNION {{<<"block">> \o e : e \in Below(t, d[4])} : d \in {e \in double : e[4] # 0}}
        all == top \cup (IF node.map[NDIRECT] = 0 THEN {} ELSE single)
                   \cup (IF node.map[NDIRECT + 1] = 0 THEN {} ELSE double \cup leaves)
    IN  IF node.kind = "link" /\ is_fast(node) THEN {} ELSE {e \in all : e[4] # 0}
AllEdges(t) == UNION {Edges(t, i) : i \in InUse(t)}
Referenced(t) == {e[4] : e \in AllEdges(t)}
MetaBlocks(t) ==
    {b \in 0 .. Len(t.gds) * MAX_GROUP_BLOCKS - 1 : b % MAX_GROUP_BLOCKS < t.meta \/ b >= t.total}
EntryNames(t) ==
    UNION {UNION {{<<d, Entries(t.blk[b])[n].name, Entries(t.blk[b])[n].ino, b, n>> :
                      n \in {x \in DOMAIN Entries(t.blk[b]) : Entries(t.blk[b])[x].ino # 0}} :
                  b \in DirBlocks(t, d)} : d \in {x \in InUse(t) : t.inode[x].kind = "dir"}}
RECURSIVE RecSum(_)
RecSum(es) == IF es = <<>> THEN 0 ELSE Head(es).rec + RecSum(Tail(es))

\* The file system stays consistent over any sequence of operations (Tx and its callers):
\* no block is referenced twice or is metadata; the used bits are the blocks that are
\* referenced, except what clear_slot has lost; inode bits, free counts and i_blocks agree;
\* the entries of a directory block fill it, have different names and name inodes in use;
\* link counts are the numbers of names, and of subdirectories plus two.
FsckClean ==
    fs # <<>> /\ ~stale =>
        LET edges == AllEdges(fs)
            referenced == {e[4] : e \in edges}
            meta == MetaBlocks(fs)
            entries == EntryNames(fs)
            given == {e \in entries : e[2] \notin {".", ".."}}
            names(i) == {e \in given : e[3] = i}
            subdirs(d) == {e \in given : e[1] = d /\ fs.inode[e[3]].kind = "dir"}
        IN  /\ Cardinality(edges) = Cardinality(referenced)
            /\ fs.bbm = meta \cup referenced \cup fs.lost
            /\ meta \cap referenced = {}
            /\ fs.ibm = (1 .. EXT2_FIRST_INO - 1) \cup InUse(fs)
            /\ fs = reconcile_free_counts(fs)
            /\ \A i \in InUse(fs) :
                   /\ fs.inode[i].blocks >= Cardinality(Edges(fs, i))
                   /\ fs.lost = {} => fs.inode[i].blocks = Cardinality(Edges(fs, i))
                   /\ IF fs.inode[i].kind = "dir"
                      THEN /\ fs.inode[i].links = 2 + Cardinality(subdirs(i))
                           /\ i # EXT2_ROOT_INO => Cardinality(names(i)) = 1
                           /\ \A b \in DirBlocks(fs, i) : RecSum(Entries(fs.blk[b])) = BS
                      ELSE fs.inode[i].links = Cardinality(names(i))
            /\ Cardinality({<<e[1], e[2]>> : e \in entries}) = Cardinality(entries)
            /\ \A e \in entries : e[3] \in InUse(fs)

\* A file reads back as what was written to it, and as zeros where nothing was (write_file,
\* truncate_file, read_file): bytes cut off by a truncation never come back.
FileHoldsWritten ==
    fs # <<>> /\ ~stale =>
        \A i \in InUse(fs) : fs.inode[i].kind = "reg" => read_file(fs, i) = contents[i]

\* Every block that is marked used belongs to some file: clear_slot, as its comment says,
\* frees the leaf and any emptied child indirect blocks.
NoBlockLost ==
    fs # <<>> /\ ~stale => fs.bbm = MetaBlocks(fs) \cup Referenced(fs)
============================================================================
