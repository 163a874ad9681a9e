------------------------------- MODULE Memory -------------------------------
(***************************************************************************)
(* The memory of the user processes: memory/pmm.rs (free frames and the    *)
(* count of copy-on-write sharers), memory/vmm.rs (leaf entries, fork,     *)
(* copy on write, release), arch/x86_64/linux/mem.rs and mem_sys.rs (brk,  *)
(* mmap, munmap, mremap, mprotect and the page-fault handler).             *)
(*                                                                         *)
(* Addresses and lengths are in pages.  Each call runs under the lock of   *)
(* the process table, and fork with interrupts off, so a call is one       *)
(* action.  Page-table frames are left out: what they cost is that fork    *)
(* can run out of memory half way (fork_fails).                            *)
(***************************************************************************)
EXTENDS Integers, FiniteSets, Sequences, SequencesExt, FiniteSetsExt

CONSTANTS
  MemProc,        \* address spaces; the first exists at first
  Frame,          \* physical frames, 1 .. n
  LastPage,       \* USER_ADDR_MAX - 1, in pages
  HeapFrom,       \* initial_brk
  MmapFloor,      \* mmap_floor
  MemCalls,       \* the calls the processes make
  Prot,           \* protections asked for: {}, {"r"}, {"r", "w"}
  MaxMemOps       \* bound on the operations

VARIABLES
  freeFrames,     \* the free bitmap
  cow_refs,       \* [Frame -> address spaces that share it copy-on-write]
  frameData,      \* [Frame -> what it holds]
  space,          \* [MemProc -> [Page -> leaf entry]]
  vm,             \* [MemProc -> VmRegionSet, or NoVm]
  expected,       \* [MemProc -> [Page -> what the process has there]]
  memOps

memVars == <<freeFrames, cow_refs, frameData, space, vm, expected, memOps>>

Page == 0..LastPage
Zero == 0
FromFile == 9
Unmapped == [frame |-> 0, w |-> FALSE, cow |-> FALSE]
NoVm == [alive |-> FALSE, regions |-> <<>>]
Alive(p) == vm[p].alive

Length == 1..2
Pages(base, n) == {g \in Page : base <= g /\ g < base + n}
Covers(r, g) == r.base <= g /\ g < r.base + r.pages
Covered(regions, pages) ==
  \A g \in pages : \E i \in DOMAIN regions : Covers(regions[i], g)
Overlap(r, base, n) == r.base < base + n /\ base < r.base + r.pages

Op(p, name) == /\ name \in MemCalls /\ Alive(p)
               /\ memOps < MaxMemOps /\ memOps' = memOps + 1

(***************************************************************************)
(* Frames and leaf entries; m is a state of free frames, contents, leaves  *)
(***************************************************************************)
Memory(p) == [free |-> freeFrames, data |-> frameData, leaf |-> space[p]]
Becomes(p, m) == /\ freeFrames' = m.free
                 /\ frameData' = m.data
                 /\ space' = [space EXCEPT ![p] = m.leaf]

Resident(m, pages) == {g \in pages : m.leaf[g].frame # 0}

\* a frame that is free already stays free
free_frame(free, frames) == free \cup frames

\* virt_to_phys, unmap, free_frame for every page of a range
unwind(m, pages) ==
  [m EXCEPT !.free = free_frame(@, {m.leaf[g].frame : g \in Resident(m, pages)}),
            !.leaf = [g \in Page |-> IF g \in pages THEN Unmapped ELSE @[g]]]

\* alloc_frame takes the lowest free frame: n pages take the n lowest
Filled(m, pages, w, content) ==
  LET fs == SetToSortSeq(m.free, <)
      gs == SetToSortSeq(pages, <)
      got == {fs[i] : i \in DOMAIN gs}
      At(g) == CHOOSE i \in DOMAIN gs : gs[i] = g
  IN [free |-> m.free \ got,
      data |-> [f \in Frame |-> IF f \in got
                  THEN content[gs[CHOOSE i \in DOMAIN gs : fs[i] = f]] ELSE m.data[f]],
      leaf |-> [g \in Page |-> IF g \in pages
                  THEN [frame |-> fs[At(g)], w |-> w, cow |-> FALSE] ELSE m.leaf[g]]]

Missing(m, pages) == pages \ Resident(m, pages)
Enough(m, pages) == Cardinality(Missing(m, pages)) <= Cardinality(m.free)
\* the pages that still got a frame
Backed(m, pages) ==
  {g \in Missing(m, pages) :
     Cardinality({h \in Missing(m, pages) : h <= g}) <= Cardinality(m.free)}

\* Mutant: the pages mapped before the memory ran out are forgotten
map_zeroed_forgetful(m, pages, w, content) ==
  LET filled == Filled(m, Backed(m, pages), w, content)
  IN IF Enough(m, pages) THEN filled ELSE [filled EXCEPT !.leaf = m.leaf]

\* the missing pages of a range, or none of them
map_zeroed_range(m, pages, w, content) ==
  LET filled == Filled(m, Backed(m, pages), w, content)
  IN IF Enough(m, pages) THEN filled ELSE unwind(filled, Backed(m, pages))

Forgotten(p, pages) ==
  [expected EXCEPT ![p] = [g \in Page |-> IF g \in pages THEN Zero ELSE @[g]]]

(***************************************************************************)
(* Regions                                                                 *)
(***************************************************************************)
\* cut_regions: what is left of a region on either side of the range
Pieces(r, base, n) ==
  IF ~Overlap(r, base, n) THEN <<r>>
  ELSE (IF r.base < base THEN <<[r EXCEPT !.pages = base - r.base]>> ELSE <<>>)
    \o (IF r.base + r.pages > base + n
        THEN <<[r EXCEPT !.base = base + n,
                         !.pages = r.base + r.pages - (base + n)]>>
        ELSE <<>>)
cut_regions(regions, base, n) ==
  FlattenSeq([i \in DOMAIN regions |-> Pieces(regions[i], base, n)])

range_is_free(regions, base, n) ==
  /\ base + n <= LastPage + 1
  /\ \A i \in DOMAIN regions : ~Overlap(regions[i], base, n)

\* plan_mmap_base steps over one region after another: the first gap
plan_mmap_base(regions, n) ==
  {b \in MmapFloor..LastPage :
     /\ range_is_free(regions, b, n)
     /\ \A c \in MmapFloor..b - 1 : ~range_is_free(regions, c, n)}

Region(base, n, prot, anon) ==
  [base |-> base, pages |-> n, w |-> "w" \in prot, prot |-> prot, anon |-> anon]

(***************************************************************************)
(* The calls                                                               *)
(***************************************************************************)
\* the next region above the break bounds it; nothing is mapped or unmapped
sys_brk(p, to) ==
  LET v == vm[p]
      above == {v.regions[i].base : i \in DOMAIN v.regions} \cap (v.brk + 1..LastPage)
      ceiling == IF above = {} THEN LastPage + 1 ELSE Min(above)
  IN /\ Op(p, "brk") /\ HeapFrom <= to /\ to <= LastPage
     /\ to > v.brk => to < ceiling
     /\ vm' = [vm EXCEPT ![p].brk = to,
                         ![p].lazy = IF to > v.brk THEN Min({@, v.brk}) ELSE @]
     /\ UNCHANGED <<freeFrames, cow_refs, frameData, space, expected>>

InHeap(v, g) == v.lazy <= g /\ g < v.brk

\* a file is read at once, as far as it goes; anonymous memory is only noted
mmap_at(p, before, regions, base, n, prot, anon, content) ==
  LET pages == Pages(base, n)
      eager == ~anon /\ prot # {}
      after == IF eager THEN map_zeroed_range(before, pages, "w" \in prot,
                                              [g \in pages |-> content])
               ELSE before
  IN /\ Becomes(p, after)
     /\ vm' = [vm EXCEPT ![p].regions =
          IF eager /\ ~Enough(before, pages) THEN regions
          ELSE Append(regions, Region(base, n, prot, anon))]
     /\ expected' = [expected EXCEPT ![p] = [g \in Page |->
          IF g \in pages THEN (IF eager THEN content ELSE Zero) ELSE @[g]]]
     /\ UNCHANGED cow_refs

sys_mmap(p, n, prot, anon, content) ==
  /\ Op(p, "mmap")
  /\ \E base \in plan_mmap_base(vm[p].regions, n) :
       mmap_at(p, Memory(p), vm[p].regions, base, n, prot, anon, content)

\* MAP_FIXED first takes away whatever is there, even if it then fails
sys_mmap_fixed(p, base, n, prot, anon, content) ==
  /\ Op(p, "fixed") /\ base > 0 /\ base + n <= LastPage + 1
  /\ mmap_at(p, unwind(Memory(p), Pages(base, n)), cut_regions(vm[p].regions, base, n),
             base, n, prot, anon, content)

munmap_impl(p, base, n) ==
  /\ Becomes(p, unwind(Memory(p), Pages(base, n)))
  /\ vm' = [vm EXCEPT ![p].regions = cut_regions(@, base, n)]
  /\ expected' = Forgotten(p, Pages(base, n))
  /\ UNCHANGED cow_refs

\* every page must belong to some region (plan_munmap)
sys_munmap(p, base, n) ==
  /\ Op(p, "munmap") /\ base + n <= LastPage + 1
  /\ Covered(vm[p].regions, Pages(base, n))
  /\ munmap_impl(p, base, n)

FirstRegion(p, base, n) ==
  {i \in DOMAIN vm[p].regions :
     /\ Covers(vm[p].regions[i], base) /\ Covers(vm[p].regions[i], base + n - 1)
     /\ \A j \in 1..i - 1 : ~( /\ Covers(vm[p].regions[j], base)
                               /\ Covers(vm[p].regions[j], base + n - 1))}

\* to fewer pages: the rest is given back
mremap_shrink(p, base, n, m) ==
  /\ Op(p, "mremap") /\ m < n /\ FirstRegion(p, base, n) # {}
  /\ munmap_impl(p, base + m, n - m)

\* in place: the length of the region is set to the new length of the range
mremap_extend(p, base, n, m) ==
  \E i \in FirstRegion(p, base, n) :
    LET r == vm[p].regions[i]
        tail == Pages(base + n, m - n)
        done == r.anon \/ Enough(Memory(p), tail)
    IN /\ Op(p, "mremap") /\ m > n
       /\ range_is_free(vm[p].regions, base + n, m - n)
       /\ Becomes(p, IF r.anon THEN Memory(p)
                     ELSE map_zeroed_range(Memory(p), tail, r.w, [g \in tail |-> Zero]))
       /\ vm' = [vm EXCEPT ![p].regions[i].pages = IF done THEN m ELSE @]
       /\ expected' = IF done THEN Forgotten(p, tail) ELSE expected
       /\ UNCHANGED cow_refs

\* elsewhere: new frames are filled from the old ones, which are then freed
mremap_move(p, base, n, m) ==
  \E i \in FirstRegion(p, base, n) : \E to \in plan_mmap_base(vm[p].regions, m) :
    LET r == vm[p].regions[i]
        old == Pages(base, n)
        From(h) == h - to + base
        copied == {h \in Pages(to, n) : From(h) \in Resident(Memory(p), old)}
        full == IF r.anon THEN copied ELSE Pages(to, m)
        moved == map_zeroed_range(Memory(p), full, r.w, [h \in full |->
                   IF h \in copied THEN frameData[space[p][From(h)].frame] ELSE Zero])
    IN /\ Op(p, "mremap") /\ m > n
       /\ ~range_is_free(vm[p].regions, base + n, m - n)
       /\ UNCHANGED cow_refs
       /\ IF Enough(Memory(p), full)
          THEN /\ Becomes(p, unwind(moved, old))
               /\ vm' = [vm EXCEPT ![p].regions = cut_regions(
                           InsertAt(@, i, [r EXCEPT !.base = to, !.pages = m]), base, n)]
               /\ expected' = [expected EXCEPT ![p] = [g \in Page |->
                    IF g \in Pages(to, n) THEN @[From(g)]
                    ELSE IF g \in old \cup Pages(to, m) THEN Zero ELSE @[g]]]
          ELSE Becomes(p, moved) /\ UNCHANGED <<vm, expected>>

\* update_region_flags: only a region that lies wholly in the range
update_region_flags(regions, base, n, prot) ==
  [i \in DOMAIN regions |->
     IF regions[i].base >= base /\ regions[i].base + regions[i].pages <= base + n
     THEN [regions[i] EXCEPT !.w = "w" \in prot, !.prot = prot] ELSE regions[i]]

\* no access: the entries and frames go; otherwise the entries are rewritten
sys_mprotect(p, base, n, prot) ==
  LET pages == Pages(base, n)
  IN /\ Op(p, "mprotect") /\ base + n <= LastPage + 1
     /\ Covered(vm[p].regions, {g \in pages : ~InHeap(vm[p], g)})
     /\ IF prot = {}
        THEN Becomes(p, unwind(Memory(p), pages)) /\ expected' = Forgotten(p, pages)
        ELSE /\ space' = [space EXCEPT ![p] = [g \in Page |->
                  IF g \in Resident(Memory(p), pages)
                  THEN [frame |-> @[g].frame, w |-> "w" \in prot, cow |-> FALSE]
                  ELSE @[g]]]
             /\ UNCHANGED <<freeFrames, frameData, expected>>
     /\ vm' = [vm EXCEPT ![p].regions = update_region_flags(@, base, n, prot)]
     /\ UNCHANGED cow_refs

(***************************************************************************)
(* Page faults and stores                                                  *)
(***************************************************************************)
FaultRegion(p, g) ==
  {i \in DOMAIN vm[p].regions :
     Covers(vm[p].regions[i], g) /\ \A j \in 1..i - 1 : ~Covers(vm[p].regions[j], g)}

handle_user_page_fault(p, g) ==
  LET Back(w) == Becomes(p, map_zeroed_range(Memory(p), {g}, w, [h \in {g} |-> Zero]))
  IN /\ Op(p, "touch") /\ space[p][g].frame = 0
     /\ \/ InHeap(vm[p], g) /\ Back(TRUE)
        \/ /\ ~InHeap(vm[p], g)
           /\ \E i \in FaultRegion(p, g) : LET r == vm[p].regions[i]
                IN r.prot # {} /\ r.anon /\ Back(r.w)
     /\ UNCHANGED <<cow_refs, vm, expected>>

\* Mutant: the frame goes back with the first sharer that lets go
UnrefFrees(f, free) ==
  /\ cow_refs' = [cow_refs EXCEPT ![f] = IF @ > 0 THEN @ - 1 ELSE 0]
  /\ freeFrames' = free \cup {f}

\* the frame goes back when the last sharer lets go
cow_unref(f, free) ==
  /\ cow_refs' = [cow_refs EXCEPT ![f] = IF @ > 0 THEN @ - 1 ELSE 0]
  /\ freeFrames' = IF cow_refs[f] > 1 THEN free ELSE free_frame(free, {f})

handle_cow_fault(p, g) ==
  LET e == space[p][g]
      new == Min(freeFrames)
  IN /\ Op(p, "touch") /\ e.frame # 0 /\ ~e.w /\ e.cow
     /\ \/ InHeap(vm[p], g)
        \/ \E i \in DOMAIN vm[p].regions : Covers(vm[p].regions[i], g) /\ vm[p].regions[i].w
     /\ freeFrames # {}
     /\ cow_unref(e.frame, freeFrames \ {new})
     /\ frameData' = [frameData EXCEPT ![new] = frameData[e.frame]]
     /\ space' = [space EXCEPT ![p][g] = [frame |-> new, w |-> TRUE, cow |-> FALSE]]
     /\ UNCHANGED <<vm, expected>>

store(p, g, v) ==
  /\ Op(p, "touch") /\ space[p][g].frame # 0 /\ space[p][g].w
  /\ frameData' = [frameData EXCEPT ![space[p][g].frame] = v]
  /\ expected' = [expected EXCEPT ![p][g] = v]
  /\ UNCHANGED <<freeFrames, cow_refs, space, vm>>

(***************************************************************************)
(* fork and exit                                                           *)
(***************************************************************************)
\* fork_user_space_cow over a set of leaves
Shared(p, pages) ==
  [g \in Page |-> IF g \in pages THEN [space[p][g] EXCEPT !.w = FALSE, !.cow = TRUE]
                                 ELSE space[p][g]]
Referenced(p, pages) ==
  [f \in Frame |-> cow_refs[f] +
     MapThenSumSet(LAMBDA g : IF space[p][g].cow THEN 1 ELSE 2,
                   {g \in pages : space[p][g].frame = f})]

fork_user_space_cow(p, q) ==
  LET pages == Resident(Memory(p), Page)
  IN /\ Op(p, "fork") /\ ~Alive(q)
     /\ space' = [space EXCEPT ![p] = Shared(p, pages), ![q] = Shared(p, pages)]
     /\ cow_refs' = Referenced(p, pages)
     /\ vm' = [vm EXCEPT ![q] = vm[p]]
     /\ expected' = [expected EXCEPT ![q] = expected[p]]
     /\ UNCHANGED <<freeFrames, frameData>>

\* no frame for a page table: the leaves shared so far stay counted
fork_fails(p) ==
  /\ Op(p, "fork") /\ freeFrames = {}
  /\ \E k \in Page : LET pages == Resident(Memory(p), 0..k)
                     IN /\ space' = [space EXCEPT ![p] = Shared(p, pages)]
                        /\ cow_refs' = Referenced(p, pages)
  /\ UNCHANGED <<freeFrames, frameData, vm, expected>>

\* a shared leaf is unreferenced, a private one freed
drop_user_space(p) ==
  LET At(f) == {g \in Page : space[p][g].frame = f}
      ToldLast(f) == \E g \in At(f) : space[p][g].cow => cow_refs[f] <= 1
  IN /\ Op(p, "exit")
     /\ freeFrames' = freeFrames \cup {f \in Frame : ToldLast(f)}
     /\ cow_refs' = [f \in Frame |->
          IF cow_refs[f] > 0 /\ \E g \in At(f) : space[p][g].cow THEN cow_refs[f] - 1
          ELSE cow_refs[f]]
     /\ space' = [space EXCEPT ![p] = [g \in Page |-> Unmapped]]
     /\ vm' = [vm EXCEPT ![p] = NoVm]
     /\ expected' = Forgotten(p, Page)
     /\ UNCHANGED frameData

Init ==
  /\ freeFrames = Frame
  /\ cow_refs = [f \in Frame |-> 0]
  /\ frameData = [f \in Frame |-> Zero]
  /\ space = [p \in MemProc |-> [g \in Page |-> Unmapped]]
  /\ vm = [p \in MemProc |->
       IF p = 1 THEN [alive |-> TRUE, brk |-> HeapFrom, lazy |-> HeapFrom, regions |-> <<>>]
       ELSE NoVm]
  /\ expected = [p \in MemProc |-> [g \in Page |-> Zero]]
  /\ memOps = 0

\* inputs: a break below the mapping area, a resize of a whole mapping
Next ==
  /\ memOps < MaxMemOps
  /\ \E p \in MemProc :
      \/ \E to \in HeapFrom..MmapFloor - 1 : sys_brk(p, to)
      \/ \E n \in Length, prot \in Prot, anon \in BOOLEAN, c \in {Zero, FromFile} :
           \/ sys_mmap(p, n, prot, anon, c)
           \/ \E b \in Page : sys_mmap_fixed(p, b, n, prot, anon, c)
      \/ \E b \in Page, n \in Length : sys_munmap(p, b, n)
      \/ \E i \in DOMAIN vm[p].regions, m \in Length :
           LET r == vm[p].regions[i]
           IN \/ mremap_shrink(p, r.base, r.pages, m)
              \/ mremap_extend(p, r.base, r.pages, m)
              \/ mremap_move(p, r.base, r.pages, m)
      \/ \E b \in Page, n \in Length, prot \in Prot : sys_mprotect(p, b, n, prot)
      \/ \E g \in Page : \/ handle_user_page_fault(p, g)
                         \/ handle_cow_fault(p, g)
                         \/ store(p, g, p)
      \/ \E q \in MemProc : fork_user_space_cow(p, q)
      \/ fork_fails(p)
      \/ drop_user_space(p)

Spec == Init /\ [][Next]_memVars

(***************************************************************************)
(* Properties                                                              *)
(***************************************************************************)
Users(f) == {<<p, g>> \in MemProc \X Page : space[p][g].frame = f}

\* What a process finds in a page it has in memory is what it last put
\* there, what its parent had put there before the fork, or what the call
\* that made the page promised, zeros or the file: no call, no other
\* process and no reuse of a frame changes it.
MemoryKept ==
  \A p \in DOMAIN space : \A g \in DOMAIN space[p] :
    space[p][g].frame # 0 => frameData[space[p][g].frame] = expected[p][g]

\* Between calls every frame is either free or mapped at one page: calls
\* that fail half way give back what they took, and no call forgets a frame.
NoFrameLost ==
  \A f \in Frame : Cardinality(Users(f)) = (IF f \in freeFrames THEN 0 ELSE 1)

\* A frame that some process maps is not free, and one that several map is
\* counted at least once for each of them (fork_user_space_cow, cow_unref,
\* drop_user_space).  A fork that fails half way leaves it counted too often.
SharersCounted ==
  \A f \in Frame : Users(f) # {} =>
    f \notin freeFrames /\ Cardinality(Users(f)) <= Max({1, cow_refs[f]})

\* pmm.rs, "COW frame sharing": "The frame is returned to the free bitmap
\* exactly when the count reaches zero - never before".
FreedAtZero == \A f \in Frame : cow_refs[f] > 0 => f \notin freeFrames
=============================================================================
