-------------------------------- MODULE Exec --------------------------------
(***************************************************************************)
(* Starting a program: vfs/elf_classify.rs and vfs/elf.rs (which images    *)
(* are accepted, and how their segments come into memory), task/stack.rs   *)
(* and task/stack_map.rs (the first stack), task/process.rs (the order of  *)
(* the steps, and what each failure leaves behind).                        *)
(*                                                                         *)
(* A file is its headers and a length; the byte at offset o is o + 1, and  *)
(* o + 101 in the interpreter, so that a byte in memory tells where it     *)
(* came from.  Addresses wrap at 2^64, here Wrap.                          *)
(***************************************************************************)
EXTENDS Integers, FiniteSets, Sequences, SequencesExt

CONSTANTS
  Images, Interps,        \* the files on disk
  ArgLists,               \* sequences of string lengths
  PAGE, WORD, RANDOM_LEN, \* 4096, 8 and 16 bytes
  Wrap, USER_ADDR_MAX, PIE_BASE, INTERP_BASE, MAX_IMAGE_BYTES,
  USER_STACK_TOP, USER_STACK_PAGES, KERNEL_STACK_PAGES,
  MaxArgs, MaxArgBytes,   \* arg_gate: 256 and 4096
  FreeCounts              \* how many frames may be free at first

VARIABLES
  call,      \* [how, argv, envp] of the running request, how = "none" if none
  img, itp,  \* the image and its interpreter, as sequences of length 0 or 1
  stage,
  at,        \* next program header
  freeCount, \* free frames
  loadedPages, \* [page number -> its bytes], the new address space
  taken,     \* MappedFrames: pages this pass has mapped
  before,    \* free frames and pages when this pass began
  memsz,     \* total_memsz of this pass
  brk,
  stack      \* the first stack, as a sequence of length 0 or 1

execVars == <<call, img, itp, stage, at, freeCount, loadedPages, taken, before, memsz,
              brk, stack>>

Down(x) == x - (x % PAGE)
Up(x) == Down(x + PAGE - 1)
Fits(x) == x < Wrap                    \* checked_add
PagesOf(from, to) == Down(from) \div PAGE .. Up(to) \div PAGE - 1
Load(f) == {i \in DOMAIN f.ph : f.ph[i].load}
Restricted(f, S) == [x \in S |-> f[x]]

(***************************************************************************)
(* Which images are accepted                                               *)
(***************************************************************************)
SegmentOk(f, s) ==
  /\ s.filesz <= s.memsz
  /\ Fits(s.off + s.filesz) /\ s.off + s.filesz <= f.len
  /\ Fits(s.vaddr + s.memsz) /\ Fits(s.vaddr + s.memsz + PAGE - 1)

classify_elf(f) ==
  /\ f.magic /\ f.kind \in {"exec", "dyn"}
  /\ \A i \in Load(f) : LET s == f.ph[i]
                        IN SegmentOk(f, s) /\ Up(s.vaddr + s.memsz) < USER_ADDR_MAX

TotalMemsz(f, S) == FoldSet(LAMBDA i, n : n + f.ph[i].memsz, 0, S)

\* the loader of native programs: absolute images only
validate_program_headers(f) ==
  /\ f.len <= MAX_IMAGE_BYTES
  /\ \A i \in Load(f) : LET s == f.ph[i]
       IN /\ SegmentOk(f, s)
          /\ s.vaddr < USER_ADDR_MAX /\ s.vaddr + s.memsz <= USER_ADDR_MAX
          /\ TotalMemsz(f, {j \in Load(f) : j <= i}) <= MAX_IMAGE_BYTES

load(f) == f.magic /\ f.kind = "exec" /\ validate_program_headers(f)

max_load_vaddr_end(f) ==
  LET ends == {f.ph[i].vaddr + f.ph[i].memsz : i \in Load(f)} \cup {0}
  IN CHOOSE e \in ends : \A d \in ends : d <= e

choose_bias(end) == Fits(end + PAGE - 1) /\ PIE_BASE + Up(end) < USER_ADDR_MAX

Bias == IF stage = "interp" THEN INTERP_BASE
        ELSE IF img[1].kind = "dyn" THEN PIE_BASE ELSE 0
Current == IF stage = "interp" THEN itp[1] ELSE img[1]
ByteAt(o) == IF stage = "interp" THEN o + 101 ELSE o + 1

(***************************************************************************)
(* The steps                                                               *)
(***************************************************************************)
Goto(s) == stage' = s
Fail == /\ stage' = "failed" /\ UNCHANGED <<call, img, itp, at, memsz, brk, before>>

arg_gate(args) ==
  Len(args) <= MaxArgs /\ FoldSeq(LAMBDA n, t : n + t, 0, args) <= MaxArgBytes

\* read_file_all and read_interpreter: no PT_INTERP, or the interpreter found at
\* its path or at a fallback; a file that is missing ends the call here
read_interpreter == {<<>>} \cup {<<h>> : h \in Interps}

Asked(how, f, g, argv, envp) ==
  /\ stage = "idle"
  /\ call' = [how |-> how, argv |-> argv, envp |-> envp]
  /\ img' = <<f>> /\ itp' = g
  /\ Goto("classify")
  /\ UNCHANGED <<at, freeCount, loadedPages, taken, before, memsz, brk, stack>>

create_user_process(f) == Asked("native", f, <<>>, <<>>, <<>>)
run_linux_binary(f, g, argv, envp) == arg_gate(argv) /\ Asked("run", f, g, argv, envp)
exec_linux_image(f, g, argv, envp) ==
  arg_gate(argv) /\ arg_gate(envp) /\ Asked("exec", f, g, argv, envp)

\* load and load_linux up to the first segment
load_linux ==
  LET f == img[1]
      ok == IF call.how = "native" THEN load(f)
            ELSE /\ classify_elf(f)
                 /\ f.kind = "dyn" => choose_bias(max_load_vaddr_end(f))
                 /\ f.len <= MAX_IMAGE_BYTES
  IN /\ stage = "classify"
     /\ IF ok THEN Goto("main") ELSE Goto("failed")
     /\ at' = 1
     /\ before' = [free |-> freeCount, pages |-> loadedPages]
     /\ UNCHANGED <<call, img, itp, freeCount, loadedPages, taken, memsz, brk, stack>>

map_interpreter ==
  LET f == itp[1]
      ok == /\ classify_elf(f) /\ f.kind = "dyn"
            /\ Fits(INTERP_BASE + max_load_vaddr_end(f))
            /\ INTERP_BASE + max_load_vaddr_end(f) < USER_ADDR_MAX
            /\ f.len <= MAX_IMAGE_BYTES
  IN /\ stage = "between"
     /\ IF itp = <<>> THEN Goto("stack") ELSE IF ok THEN Goto("interp") ELSE Goto("failed")
     /\ at' = 1 /\ memsz' = 0
     /\ before' = [free |-> freeCount, pages |-> loadedPages]
     /\ UNCHANGED <<call, img, itp, freeCount, loadedPages, taken, brk, stack>>

\* Drop for MappedFrames: every page mapped by this pass, newest first
Rollback(pages, mapped, count) ==
  /\ loadedPages' = Restricted(pages, DOMAIN pages \ ToSet(mapped))
  /\ freeCount' = count + Len(mapped)
  /\ taken' = <<>>

\* Mutant: only what was mapped for the segments before this one goes back
RollbackShort(pages, mapped, count) ==
  /\ loadedPages' = Restricted(pages, DOMAIN pages \ ToSet(taken))
  /\ freeCount' = count + Len(taken)
  /\ taken' = <<>>

MappedFramesDrop(pages, mapped, count) == Rollback(pages, mapped, count)

Byte(s, from, a) ==
  IF from <= a /\ a < from + s.filesz THEN ByteAt(s.off + a - from) ELSE 0

\* Mutant: the tail of the last page of the file keeps file bytes
ByteUnzeroed(s, from, a) ==
  IF from <= a /\ a < Up(from + s.filesz) THEN ByteAt(s.off + a - from) ELSE 0

SegmentByte(s, from, a) == Byte(s, from, a)

\* one PT_LOAD of map_segments_biased (or map_segments): fresh zeroed frames
\* in place of whatever is mapped, the file bytes, then the zeros after them
map_segment ==
  LET f == Current
      s == f.ph[at]
      from == s.vaddr + Bias
      to == from + s.memsz
      want == SetToSortSeq(PagesOf(from, to), <)
      got == SubSeq(want, 1, IF Len(want) <= freeCount THEN Len(want) ELSE freeCount)
      pages == [p \in DOMAIN loadedPages \cup ToSet(got) |->
                  IF p \in ToSet(got)
                  THEN [o \in 0..PAGE - 1 |-> SegmentByte(s, from, p * PAGE + o)]
                  ELSE loadedPages[p]]
      fits == /\ Fits(from) /\ Fits(to)
              /\ from < USER_ADDR_MAX /\ to <= USER_ADDR_MAX
              /\ call.how # "native" => memsz + s.memsz <= MAX_IMAGE_BYTES
  IN /\ stage \in {"main", "interp"} /\ at \in Load(f)
     /\ UNCHANGED stack
     /\ IF fits /\ Len(got) = Len(want)
        THEN /\ loadedPages' = pages
             /\ freeCount' = freeCount - Len(got)
             /\ taken' = taken \o got
             /\ memsz' = memsz + s.memsz
             /\ brk' = IF stage = "main" /\ to > brk THEN to ELSE brk
             /\ at' = at + 1
             /\ UNCHANGED <<call, img, itp, stage, before>>
        ELSE /\ IF fits THEN MappedFramesDrop(pages, taken \o got, freeCount - Len(got))
                ELSE MappedFramesDrop(loadedPages, taken, freeCount)
             /\ Fail

skip_header ==
  /\ stage \in {"main", "interp"} /\ at \in DOMAIN Current.ph \ Load(Current)
  /\ at' = at + 1
  /\ UNCHANGED <<call, img, itp, stage, freeCount, loadedPages, taken, before, memsz, brk, stack>>

\* the interpreter is mapped after the image, if there is one
map_linux_images == IF stage = "main" /\ call.how # "native" THEN "between" ELSE "stack"

commit ==
  /\ stage \in {"main", "interp"} /\ at > Len(Current.ph)
  /\ taken' = <<>>
  /\ brk' = IF stage = "main" THEN Up(brk) ELSE brk
  /\ Goto(map_linux_images)
  /\ UNCHANGED <<call, img, itp, at, freeCount, loadedPages, before, memsz, stack>>

(***************************************************************************)
(* The first stack                                                         *)
(***************************************************************************)
\* where string i of the blob of strings begins
Offset(args, i) == FoldSeq(LAMBDA n, t : n + 1 + t, 0, SubSeq(args, 1, i - 1))
align_down_16(x) == x - (x % (2 * WORD))

TableFloor(top, blob, words) == top - blob - RANDOM_LEN - WORD * words

build_initial_stack(argv, envp) ==
  LET args == argv \o envp
      blob == Offset(args, Len(args) + 1)
      words == 1 + Len(argv) + 1 + Len(envp) + 1 + 16
      strings == USER_STACK_TOP - blob
      random == strings - RANDOM_LEN
      rsp == align_down_16(TableFloor(USER_STACK_TOP, blob, words))
      Ptr(i) == strings + Offset(args, i)
      aux == [j \in 1..16 |-> IF j = 14 THEN random ELSE 0]
  IN [rsp |-> rsp, random |-> random, strings |-> strings,
      table |-> <<Len(argv)>> \o [i \in 1..Len(argv) |-> Ptr(i)] \o <<0>>
                \o [i \in 1..Len(envp) |-> Ptr(Len(argv) + i)] \o <<0>> \o aux]

StackPages == PagesOf(USER_STACK_TOP - USER_STACK_PAGES * PAGE, USER_STACK_TOP)

\* what a frame held before alloc_frame gave it out: the stack pages are not cleared
Stale == -1

map_initial_stack ==
  LET made == build_initial_stack(call.argv, call.envp)
      enough == freeCount >= USER_STACK_PAGES
      ok == enough /\ made.rsp >= USER_STACK_TOP - USER_STACK_PAGES * PAGE
      pages == [p \in DOMAIN loadedPages \cup StackPages |->
                  IF p \in StackPages THEN [o \in 0..PAGE - 1 |-> Stale] ELSE loadedPages[p]]
  IN /\ stage = "stack"
     /\ before' = [free |-> freeCount, pages |-> loadedPages]
     /\ IF call.how = "native" \/ ok
        THEN /\ IF enough
                THEN loadedPages' = pages /\ freeCount' = freeCount - USER_STACK_PAGES
                ELSE UNCHANGED loadedPages /\ freeCount' = 0   \* no rollback here
             /\ stack' = IF call.how = "native" THEN <<>> ELSE <<made>>
             /\ Goto(IF enough THEN "kstack" ELSE "abandoned")
        ELSE Goto("failed") /\ UNCHANGED <<loadedPages, freeCount, stack>>
     /\ UNCHANGED <<call, img, itp, at, taken, memsz, brk>>

\* run and native: a kernel stack, whose frames stay if there are too few;
\* exec keeps its own and gives the old address space back
finish ==
  LET enough == freeCount >= KERNEL_STACK_PAGES
  IN /\ stage = "kstack"
     /\ Goto(IF call.how = "exec" \/ enough THEN "ready" ELSE "abandoned")
     /\ freeCount' = IF call.how = "exec" THEN freeCount
                     ELSE IF enough THEN freeCount - KERNEL_STACK_PAGES ELSE 0
     /\ UNCHANGED <<call, img, itp, at, loadedPages, taken, before, memsz, brk, stack>>

Init ==
  /\ call = [how |-> "none", argv |-> <<>>, envp |-> <<>>]
  /\ img = <<>> /\ itp = <<>>
  /\ stage = "boot" /\ at = 1
  /\ freeCount = 0
  /\ loadedPages = [p \in {} |-> <<>>]
  /\ taken = <<>>
  /\ before = [free |-> 0, pages |-> [p \in {} |-> <<>>]]
  /\ memsz = 0 /\ brk = 0 /\ stack = <<>>

\* whatever ran earlier has left so many frames
some_free(n) ==
  /\ stage = "boot" /\ Goto("idle") /\ freeCount' = n
  /\ UNCHANGED <<call, img, itp, at, loadedPages, taken, before, memsz, brk, stack>>

Next ==
  \/ \E n \in FreeCounts : some_free(n)
  \/ \E f \in Images : create_user_process(f)
  \/ /\ stage = "idle"
     /\ \E f \in Images, g \in read_interpreter, argv, envp \in ArgLists :
        run_linux_binary(f, g, argv, envp) \/ exec_linux_image(f, g, argv, envp)
  \/ load_linux \/ map_interpreter \/ map_segment \/ skip_header \/ commit
  \/ map_initial_stack \/ finish

Spec == Init /\ [][Next]_execVars

(***************************************************************************)
(* Properties                                                              *)
(***************************************************************************)
SegPages(f, bias, i) == PagesOf(f.ph[i].vaddr + bias, f.ph[i].vaddr + bias + f.ph[i].memsz)
MainBias == IF img[1].kind = "dyn" THEN PIE_BASE ELSE 0

\* what a linker produces: no two segments in one page, none in the stack
Apart(f, bias) ==
  /\ \A i, j \in Load(f) : i # j => SegPages(f, bias, i) \cap SegPages(f, bias, j) = {}
  /\ \A i \in Load(f) : SegPages(f, bias, i) \cap StackPages = {}
ImagesApart ==
  itp # <<>> => \A i \in Load(img[1]), j \in Load(itp[1]) :
                  SegPages(img[1], MainBias, i) \cap SegPages(itp[1], INTERP_BASE, j) = {}

InPlace(f, bias, base) ==
  \A i \in Load(f) : \A k \in 0..f.ph[i].memsz - 1 :
    LET a == f.ph[i].vaddr + bias + k
    IN /\ a \div PAGE \in DOMAIN loadedPages
       /\ loadedPages[a \div PAGE][a % PAGE] =
            IF k < f.ph[i].filesz THEN f.ph[i].off + k + base ELSE 0

ImageInPlace ==
  /\ InPlace(img[1], MainBias, 1)
  /\ itp # <<>> => InPlace(itp[1], INTERP_BASE, 101)
  /\ \A i \in Load(img[1]) : \A p \in SegPages(img[1], MainBias, i) : p * PAGE < brk

StackAsCalled ==
  stack # <<>> =>
    LET s == stack[1]
        args == call.argv \o call.envp
        n == Len(call.argv)
        Slot(i) == IF i <= n THEN 1 + i ELSE 2 + i
    IN /\ s.rsp % (2 * WORD) = 0
       /\ s.rsp >= USER_STACK_TOP - USER_STACK_PAGES * PAGE
       /\ s.table[1] = n /\ s.table[n + 2] = 0 /\ s.table[Len(args) + 3] = 0
       /\ s.rsp + WORD * Len(s.table) <= s.random
       /\ s.random + RANDOM_LEN <= s.strings
       /\ \A i \in DOMAIN args :
            s.table[Slot(i)] + args[i] + 1 =
              IF i = Len(args) THEN USER_STACK_TOP ELSE s.table[Slot(i + 1)]

\* A program that is started finds every byte of its segments, and of its
\* interpreter's, at its address, zeros from the end of the file's part to the
\* end of the segment, and its heap above them.  Its stack is aligned, with argc
\* at the top and a pointer to each string; table, random bytes and strings lie
\* apart inside the stack's pages.
StartedAsAsked ==
  /\ stage = "ready"
  /\ Apart(img[1], MainBias) /\ ImagesApart
  /\ itp # <<>> => Apart(itp[1], INTERP_BASE)
  => ImageInPlace /\ StackAsCalled

\* A pass of the loader that fails, for want of frames or for what the file
\* says, gives back all it had mapped, and leaves the rest as it was.
FailedPassUndone ==
  stage = "failed" => freeCount = before.free /\ loadedPages = before.pages
=============================================================================
