# Pagh-OS in TLA+

Models, model-checking runs and machine-checked proofs for the kernel under `src/`.
Pagh-OS is a single-CPU preemptive x86-64 kernel in Rust: an ext2 file system over a
write-ahead journal, a Linux-compatible system-call layer, its own network stack up to
HTTPS, an apt-compatible package manager, and a shell on a framebuffer console.

## How the system runs, and what that means for the models

- A `Spinlock` (`sync/spinlock.rs`) masks interrupts. On the only CPU a section under a
  lock is one atomic step.
- `linux_dispatch` switches interrupts on. A system call is preempted *between* its locked
  sections, and another task may change what it has read. Every module cuts calls there.
- The network stack is under one lock and is driven by whoever pumps it (`Stack::step`).
- Devices act at any time between two accesses of a driver.
- Power can fail at any instant; the block device keeps what it has destaged.

The file system writes through the journal to the device. The scheduler runs every system
call; futex, pipes, wait4 and the sockets wait by yielding to it. Exit paths go through
the process registry, the futex queue and the reaper. apt fetches over TLS over TCP,
verifies with OpenPGP, unpacks an archive and installs into the file system.
`PROJECT.json` lists every component with its sources, modelled or not, maps the
definitions to the lines they model (every action has an entry of its own; a small helper may
go with the operation it belongs to), and lists the hazards at their source lines.

## Modules

| Module | Models | State and actions |
|---|---|---|
| BlockDevice | the `BlockDevice` trait as the journal uses it | `medium`, volatile `cache`; write, destage, flush, power loss |
| Journal | `fs/journal.rs` | `jnl` is `struct Journal`, `txn` is `struct Txn`, `scan` the locals of `recover`; commit, format, mount, cut at the flushes, and every error return |
| AtomicStore | what the journal promises | a transaction takes effect at one instant or not at all, and before it is answered "ok" |
| Scheduler | `task/scheduler.rs`, the registry entries it needs | ready queue, stopped table, marks, pending reaps; `pc`, `job`, `held` are the locals of the call a task is in |
| Futex | `sys_futex`, `WaitQueue` | one word, its tickets and tokens; each labelled point of the wait loop |
| Signals | `linux/signal.rs`, delivery | pending sets, masks, handlers' frames, `PENDING_APPROX` |
| Children | `task/compat.rs` | registries of processes, exits, stops and continues; wait4 |
| Pipes | `task/fd.rs`, epoll, unix sockets | descriptor tables, endpoints with counts, queues, blocked calls |
| Files | `vfs/`, the calls of `io_sys.rs` on names | tree, walk with symbolic links, open, rename, offsets |
| Creds | `linux/cred.rs`, permission checks | six ids per process, recorded modes |
| Memory | `memory/pmm.rs`, `vmm.rs`, `linux/mem.rs` | frames and share counts, leaf entries, regions |
| Exec | `vfs/elf.rs`, `task/stack.rs`, `task/process.rs` | images, bias, passes with rollback, first stack |
| Ext2 | `fs/ext2/` | bitmaps, block maps, directory blocks, links, format, mount |
| Nvme, E1000, VirtioBlk | `drivers/` | rings or queues with the device as a second actor; sector cache |
| Clock | `linux/rtc.rs`, `timeconv.rs` | the CMOS chip ticking between register reads |
| Arp, Ip, Dhcp, Tcp | `net/` | neighbour tables, fragments and reassembly, lease, connections |
| Resolver, InetSock, Fetch, Tls | `net/`, `linux/inet_sock.rs` | UDP sockets and lookups, TCP descriptors, HTTP transfer, server authentication |
| PackageIndex, AptIndex, Apt | `pkg/` | index, its streaming parser, update and install |
| Archive, Install, OpenPgp | `pkg/` | ar and tar, the planned operations of an installation, signatures |
| Nano, Vt, Console, Shell, Tty | `shell/`, `drivers/vt.rs`, `framebuffer.rs`, `cursor.rs`, `ps2_kbd.rs` | editor, terminal emulator, framebuffer under the pointer, command line, standard input |
| MCNet, MCKernel | all components that have no run of their own | `part` names the one component a behaviour runs; the others rest, so state spaces add up. MCNet extends Dhcp, and MCKernel extends Signals, Creds and Children, so that the runs check the very properties the theorems state; the other components are instances |
| JournalScan, JournalLog, JournalSteps, JournalProofs, SchedulerProofs, SpaceProofs, ProcessProofs, DeliveryProofs | theorems | below |

Data is abstract throughout: a block is a version number, a CRC32 the list of versions it
covers, a name a model value, cryptography symbolic (a signature names its key and what it
signs). Conversions that a property depends on are modelled by what they do: the cutting of
index text into chunks, BCD and 12-hour clock formats, tar name splitting, clear-sign
dash-escaping, sequence numbers modulo their space.

## Runs

| Run | Result | Shows |
|---|---|---|
| journal_crash | pass | in-order device that answers every call: two power losses anywhere, during commit, wrap or recovery, leave every transaction whole or absent; reads see the store; the journal implements AtomicStore; every mount returns |
| journal_error | violation | a failed commit's leftovers complete the next descriptor |
| sched_spaces | pass | address spaces are neither freed in use nor forgotten, without stops and without execve in a threaded process |
| sched_liveness | pass | one frame in one place; an exit completes and a queued task runs |
| sched_parked_space | violation | the reaper does not look at stopped tasks |
| futex_wake | pass | wakes are counted exactly and tickets have one owner, with unmapping, without signals |
| futex_liveness | pass | no orphaned registration and no lost wake-up, with signals and kills, without unmapping |
| tcp_stream | pass | client and echo service over a wrap of the sequence numbers with one loss, repetition, delay or early timeout, and through closed windows: streams exact, no stall but the one after a lost window update |
| net | pass | Arp, Ip, Dhcp, AptIndex, Apt, Archive, Install, OpenPgp, Tls, Fetch, Resolver, InetSock, one property each |
| kernel | pass | Signals, Children, Pipes, Files, Creds, Memory, Exec, Ext2, one property each |
| cow_munmap | violation | after a fork, munmap frees a frame that the other process still maps |
| machine | pass | Nvme, E1000, VirtioBlk, Clock, Nano, Vt, Console, Shell, Tty |

Every property of a passing run has a mutant in `PROJECT.json`: a plausible bug in the
mapped code, defined next to the original, that makes the property fail. The component
properties behind the names of MCNet and MCKernel are stated in the components' modules.

### Bounds

- Journal: a ring of 7 blocks holds one or two records, so three transactions wrap it; two
  file-system blocks make a torn transaction visible; the second power loss falls into the
  recovery from the first.
- Scheduler: four pids are the shell and up to three tasks of one group, or two kernel
  threads and two tasks. Three or four calls suffice for a call that is preempted by
  another on the same group.
- Futex: three threads are two waiters and a waker; a word with two values covers "changed"
  and "changed back".
- Tcp: a sequence space of 16 that starts just below its end, one fault anywhere. The
  client's receive window of one octet is smaller than what the echo service sends back, so
  the window closes with octets unsent and opens again.
- Components of MCNet and MCKernel: each instance has the smallest tables in which the
  limits of the code are hit (a full neighbour cache, a second fragment, a full queue, an
  indirect block, a full ring), two or three actors and three to nine operations. The
  instances stand in the two modules with their bounds.

Symmetry is used in futex_wake only, which has no temporal property. Deadlock checking is
on in the Scheduler runs, as the timer never stops; elsewhere bounds and exits end the
behaviour.

### Fairness

- Journal: weak fairness of the steps of a running mount or commit. The thread holds a
  lock that masks interrupts, and waits for nobody.
- Scheduler: weak fairness of the timer tick and nothing else.
- Futex: weak fairness of each thread's steps. A waiter stays in the ready queue, and
  `ReadyRuns` of Scheduler says that a queued task runs.
- Tcp needs none: `NoStall` speaks of states in which nothing but new input could move the
  connection, and excepts the sender whose peer's window update was lost.

### What the passing runs assume

Some properties hold under a restriction and not without it. These are conditional results:

- Journal: `Spec` has a device that answers every call, `FaultySpec` adds the errors.
  `CrashAtomic` holds for `Spec` and the in-order device. On a device that reorders its cache
  (`Reorders = TRUE`), and after an I/O error (journal_error), a descriptor can meet old data
  and an old commit record, because the checksum does not cover the targets. With
  `MaxTargets = 2` an error of the superblock write breaks it too: in the reclaim, because the tail has
  moved in memory and not on the medium, and at the end of a commit, because two records can
  fill the ring exactly, `head == tail` then reads as empty, and the next record lands where
  the tail on the medium still points. After a second format (`MaxFormat = 2`) `CrashAtomic`
  fails, because the format ends with its writes still in the device's cache and a power loss
  brings the old log back, and `OldLogNeverReplayed` fails, because only position 0 of the
  ring is cleared.
- Scheduler: with stops `FreedUnused` fails (sched_parked_space), and `ParkedUnmarked` fails
  because `request_exit` looks for a parked frame and marks the pid under separate locks.
  With `execve_threaded` `SpaceAccounted` fails: the old space of the caller is in no table.
  A third race was met while stating `SpaceAccounted`: of three threads two call exit_group
  and unregister each other, the third, now alone in the registry, is in execve and is then
  dropped from the ready queue with no reap. The property therefore counts a thread as part
  of its group until it has left the queue.
- Futex: with `"unmap"` `NoOrphan` fails (`load_word(uaddr)?` returns with the waiter
  registered); with `"signal"` `WakeExact` and `OneOwner` fail: a waiter that is selected and
  signalled consumes its token and waits on (`WokenReturns`).
- Signals: a sender is preempted between the pending bit and the count, its bit is delivered
  and discounted, and the counter is zero with a counted signal pending (`NeverUndercounts`).
  `CounterLag` says how far the counter can fall short.
- Children: a task that is killed between removing a process from the registry and recording
  its exit is dropped there, and the exit is lost with it.
- Tcp: nobody probes a closed window, so a lost window update is never asked for again:
  `NoStall` excepts that sender (`Starved`), and `ZeroWindowProbed` fails.
- Files: a rename of an entry onto itself through a linked directory removes it, as only the
  texts of the two paths are compared; `RenameKeepsContents` excepts it.
- Memory: a process that unmaps has not forked, and one that forks does not unmap; together
  they are the run cow_munmap. After a fork that failed half way a frame stays counted too
  often.
- Nvme: `ReadsBack` is about requests of whole logical blocks. With logical blocks larger than
  a sector the driver transfers a partial block from and to its beginning, and `AnySectors`
  fails.
- Console: `NoTrail` excepts behaviours in which the pointer is placed while another thread is
  in the middle of its drawing: the background saved under it is then stale, and `NeverStale`
  fails.
- Ext2 follows a behaviour up to the first use of a node whose inode is gone; a commit is
  atomic, as Journal shows. Files makes everything a call only reads one step. Memory is page
  granular, one thread per process, the break below the mmap floor, mremap of whole mappings.
- Install has relative link targets and no crash inside an operation, and leaves out a hard
  link onto its own entry. Apt runs one command at a time and takes the digest for the bytes.
  OpenPgp has one pinned key with one subkey. Archive takes the decompressors as given. Tls
  and Fetch have one connection at a time, Clock and Tty one reader. Resolver always finds a
  free ephemeral port. InetSock leaves out descriptors closed by another process.
- VirtioBlk exempts the sectors of which a write failed at the device or overlapped another
  call (`CoherentApart`); the unrestricted `CoherentByConstruction` fails. A second reader of
  the CMOS chip would select another register between the two ports. Vt exempts scrolls of the
  whole screen height, Shell lines that wrap, Nano crashes after a stale selection, Tty
  modifiers held across reads.

Properties that code comments suggest and that fail at the same bounds are kept next to the
others, in no run: `StatAgreesWithAccess`, `NeverUndercounts`, `ZeroWindowProbed`,
`NoBlockLost`, `AnySectors`, `NeverStale`, `OwnCompletion`, `MomentarilyFull`,
`CoherentByConstruction`, `NothingToLose`, `FrameCurrent`, `FlushedIsShown`,
`ConsoleReflects`, `NoStrayBar`, `InterruptMeansCtrlC`, `NotConnectedReported`,
`ExtraIgnored`, `CompletionSurfaces`. Their comments in the component modules name the code.

## Findings

Three violation runs show places where the code does not keep what its comments say;
`PROJECT.json` quotes them. journal_error: `commit` that fails leaves its records under the
sequence number the next commit uses again. sched_parked_space: the reaper asks the ready
queue, the pending reaps and CR3 who has an address space, and not `STOPPED_TASKS`.
cow_munmap: `munmap_impl` calls `free_frame` without `cow_unref`, so a frame that a forked
process shares goes to the free bitmap with its count above zero.

## Proofs

All are for every value of the constants that the named assumptions allow. Each invariant
was first checked by TLC on an instance, then proved inductive with one step per action.

**SchedulerProofs** (from `SchedulerAssumption`). `Inductive` shows that
`IInv == TypeOK /\ OneFrame /\ Fresh /\ JobOK` is an invariant; `OneFrameHolds` and
`TypeCorrect` follow. `OneFrame` alone is not inductive: a new task could repeat a pid in
use, which `Fresh` excludes (every pid that occurs is below `nextPid`), and a group call
could act on no task, which `JobOK` excludes. Lemmas say what each queue operation does to
the set of queued pids.

**SpaceProofs** (over `IInv`) speaks of who has an address space.
- `FreedUnusedHolds`, assuming `"stop" \notin Calls`. `Calm` says that without stop signals
  nothing is parked, requested to stop or about to be; so the three places the reaper asks
  are all there are. `Use` adds that a space is built before anything has it (`Built`, so
  that a new one is not already freed), that a freed space has no user and no pending reap
  (`Dropped`), and that a task is pending once.
- `SpaceAccountedHolds`, assuming that neither `"stop"` nor `"execve_threaded"` is called.
  A space is forgotten when its last user leaves without a pending reap. `Groups` and
  `Sharing` say that the threads of a process have one space, so that a thread that goes
  with its group leaves the space to one that is reaped. `ShellStays` says that the shell is
  always in rotation, so the idle task never runs on a space somebody left behind. Both
  exclusions are needed, as above.

**ProcessProofs** speaks of Children and of Creds.
- `ExitReportedOnceHolds` (from `ChildAssumption`). `ChildInv` says that the exit of every pid
  has exactly one of four fates: unclaimed (`Young`), carried by one task between two locked
  steps, or dropped with it there (`Flying`), in `EXITED_CHILDREN` (`Dead`) or told to the
  parent (`Reaped`), always with the parent and the code it was claimed with; and that a pid
  in the registry or not yet handed out is unclaimed. `ExitReportedOnce` alone does not
  exclude that two tasks carry the exit of one process. Whoever removes the state in
  `finish_compat_exit` claims the exit, which is why only the removal, and no lock around the
  two tables, is needed.
- `GivenUpForGoodHolds`. `CredInv` adds types and that what is settled about a process was
  settled without a 0. A lemma for each set*id rule says that it gives a process without the
  user id 0 no user id it did not have.

**DeliveryProofs** speaks of Dhcp, of Signals and of Futex (the last from `FutexAssumption`).
- `LeaseSoundHolds`, assuming that no server is named like the two states without a lease.
  `DhcpInv` adds that every acknowledgement of the current transaction, in flight or queued,
  comes from the server that was asked and has granted it; `DhcpKept` follows the static
  address and its deadline.
- `CounterLagBounded`, for finite sets of threads and signals. `PENDING_APPROX` never
  falls short of the pending bits by more than the senders between the bit and the count.
  Every step changes bits, places and counter in one of six ways, a lemma each.
- `SkipSafeWhenSettled`, its use: with no sender between the two, a counter of zero means that
  nothing is pending, and the skip at the end of a system call overlooks nothing.
- `NoOrphanHolds`, assuming `"unmap" \notin Faults`. `LiveInv` adds that the word is mapped
  and that no entry belongs to a later process, so a recycled root starts with no entries.
- `OneOwnerHolds`, assuming `"signal" \notin Faults`. `OwnerInv` adds that a waiting thread
  has an entry, so its queue is not dropped, and that all tickets are below `nextTicket`.
- `WakeExactHolds`, assuming `"signal" \notin Faults`. `WakeInv` counts tokens and returned
  waiters against what the wakes reported; the sets that are counted are finite and change
  by one element at a time.

**JournalScan, JournalLog, JournalSteps, JournalProofs** prove the write-ahead log, for any
sizes of file system, ring and descriptors and any numbers of transactions and power losses
(from `JournalAssumption`). They are about `Spec`, the device that answers every
call, and assume `OrderedDevice == Reorders = FALSE /\ MaxFormat \in {0, 1}` throughout:
without any one of the three the results are false, as said above.
- JournalScan: what a list of writes does to a device, the positions of the ring, and what
  the loop of `recover` makes of a log. The loop and the writes are recursive functions;
  what they compute is shown by induction over the set of numbers for which it holds
  (`SetInduction`). `Chain` is the shape of the log: the records that follow one another
  from the tail with ascending numbers. A scan is ahead on the chain, past it with nothing
  to replay, or has replayed the one record that is complete (`Scanning`).
- JournalLog: a log is `Clean`, or `Complete` with one transaction at its head. Each prefix
  of the writes of `commit` leaves a clean log until the commit record is there; a new
  superblock leaves an emptied log clean.
- JournalSteps: `ImagesOf(medium, cache)` are the devices a power loss can leave, the
  prefixes of the cached writes. `JournalInv` gives for each place of the thread what all of
  them recover to: one and the same image outside a commit; while the commit record is
  cached, the old image for each that loses a write and the new one for the last.
  `CrashAtomic` alone says nothing of the writes still in the cache and is not inductive.
- JournalProofs: the remaining steps, and `TypeOKHolds`, `CrashAtomicHolds` and
  `ReadsSeeStoreHolds`.
- `ImplementsAtomicStoreHolds`: the store is what a mount would recover. Every step is a
  stutter of AtomicStore but the beginning of a commit, its end, answered or cut off by a
  power loss, and the step, a destage or the flush, that makes the commit record durable:
  the instant at which the transaction takes effect.

**Only model-checked.** Liveness (`ExitCompletes`, `ReadyRuns`, `ChangedReturns`,
`MountReturns`) is outside the prover's reach. The three violation runs
need a counterexample and no proof. `StreamExact` and `NoStall` of Tcp are checked over
whole histories of both ends and quantify over what could happen next; no inductive
invariant for them was found. The components of the collective runs other than Signals,
Creds, Children and Dhcp have no proofs: several compute with recursive operators, which the
prover does not accept, and the drivers and the user interface are checked together in joint
properties.

## Not modelled

Formatting, drawing details, fonts, numeric mixing, hardware tables and one-shot boot
decisions keep no state that a small instance exercises; procfs only reads. The triple
indirect tree of ext2, IPv6 input, the TLS record layer, the decompressors and the virtqueue
(a crate) are left out. `PROJECT.json` gives the reason for each part.
