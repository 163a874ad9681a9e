----------------------------- MODULE Scheduler -----------------------------
(***************************************************************************)
(* The round-robin scheduler of task/scheduler.rs with the operations of   *)
(* arch/x86_64/linux (signal.rs, misc.rs, process.rs) that move tasks in   *)
(* and out of rotation: clone, fork, execve, exit, exit_group, SIGKILL,    *)
(* fatal signals, stop signals and SIGCONT.                                *)
(*                                                                         *)
(* One CPU.  A Spinlock masks interrupts, so a section under one lock is a *)
(* single step; linux_dispatch re-enables interrupts, so the timer may     *)
(* preempt a task between any two sections of a system call.  A section is *)
(* one action of the running task, and `pc`, `job`, `held` are the locals  *)
(* of the call it is in.  The timer interrupt and yield_switch run with    *)
(* interrupts masked from end to end and are one action each.              *)
(*                                                                         *)
(* A saved frame is the pid and the address space it was saved with; the   *)
(* stack pointer, the registers and the FPU area are left out, and so is   *)
(* FRAME_LEDGER, which only reports what OneFrame excludes.                *)
(***************************************************************************)
EXTENDS Naturals, FiniteSets

CONSTANTS
    BootThreads, \* kernel threads spawned by kernel_main; pid 1 is the shell
    MaxPid,      \* bound: pids handed out
    MaxSpace,    \* bound: address spaces built
    MaxCalls,    \* bound: system calls of the kinds below
    Calls        \* the calls the workload makes, of CallNames

CallNames == {"clone", "fork", "execve", "execve_threaded", "exit", "exit_group",
              "kill", "term", "stop", "cont"}

ASSUME SchedulerAssumption ==
    /\ BootThreads \in Nat \ {0} /\ MaxPid \in Nat /\ MaxSpace \in Nat
    /\ BootThreads <= MaxPid
    /\ MaxCalls \in Nat /\ Calls \subseteq CallNames

VARIABLES
    cur,         \* CURRENT_PID
    cr3,         \* the address space loaded in CR3
    ready,       \* READY_QUEUE: frames, each with its index in the deque
    stopped,     \* STOPPED_TASKS
    exiting,     \* EXITING_PIDS
    stopReq,     \* STOP_REQUESTED
    reaps,       \* PENDING_REAPS
    registered,  \* the pids with an entry in COMPAT_STATES
    tgid,        \* CompatState::tgid
    pending,     \* CompatState::sig_pending: fatal and stop signals
    pc, job, held,
    nextPid,     \* NEXT_PID
    nextSpace,   \* the next page-table root the frame allocator hands out
    freed,       \* history: address spaces given to drop_user_space
    reaped,      \* history: tasks whose memory the reaper has released
    calls        \* calls begun

rotation == <<cur, cr3, ready, stopped, exiting, stopReq, reaps>>
registry == <<registered, tgid, pending>>
locals   == <<pc, job, held>>
memory   == <<nextPid, nextSpace, freed, reaped>>
vars     == <<rotation, registry, locals, memory, calls>>
----------------------------------------------------------------------------
Idle == 0
Shell == 1
Kernel == 0
Pid == 1..MaxPid
Space == 0..MaxSpace

\* Bug: the arguments of the constructor are swapped.
FrameSwapped(p, s) == [pid |-> s, cr3 |-> p]

Frame(p, s) == [pid |-> p, cr3 |-> s]
Pids(frames) == {f.pid : f \in frames}
Spaces(frames) == {f.cr3 : f \in frames}
Without(frames, p) == {f \in frames : f.pid # p}

NoJob == [goal |-> Idle, pid |-> Idle, rest |-> {}, others |-> {}]

\* The next of a snapshot: it is visited in pid order.
Least(S) == {p \in S : \A q \in S : p <= q}
----------------------------------------------------------------------------
(* The ready queue.                                                        *)

\* The deque's indexes are 1..n again once entries have been taken out.
Renumber(q) ==
    {[e EXCEPT !.slot = 1 + Cardinality({g \in q : g.slot < e.slot})] : e \in q}

\* spawn and requeue: a second frame of a queued pid is dropped.
Enqueue(q, f) ==
    IF f.pid \in Pids(q) THEN q
    ELSE q \cup {[pid |-> f.pid, cr3 |-> f.cr3, slot |-> Cardinality(q) + 1]}

\* remove_ready_pids, and the first half of stop_ready_pids.
Drained(q, pids) == Renumber({e \in q : e.pid \notin pids})
DrainedFrames(q, pids) == {Frame(e.pid, e.cr3) : e \in {x \in q : x.pid \in pids}}

\* Bug: the newest entry is taken first.
FrontNewest(q) == {e \in q : \A g \in q : g.slot <= e.slot}

Front(q) == {e \in q : \A g \in q : e.slot <= g.slot}
----------------------------------------------------------------------------
(* The registry.                                                           *)

\* tgid_of, group_pids
TgidOf(p) == IF p \in registered THEN tgid[p] ELSE p
GroupPids(g) == {m \in registered : tgid[m] = g}

\* remove_compat; the pending bits go with the entry.
Unregister(pids) ==
    /\ registered' = registered \ pids
    /\ pending' = [p \in Pid |-> IF p \in pids THEN {} ELSE pending[p]]
    /\ UNCHANGED tgid
----------------------------------------------------------------------------
(* The tail of a timer tick: one reap, then the next task.                 *)

\* Bug: the address space is freed without a look at the other tasks.
ExclusiveUnchecked(f, q, rs) == f.cr3 # Kernel /\ f.cr3 # cr3

\* Bug: the reap being processed counts as another owner.
ExclusiveOfItself(f, q, rs) ==
    f.cr3 # Kernel /\ f.cr3 # cr3 /\ f.cr3 \notin Spaces(q) \cup Spaces(rs)

\* reap_exited_tasks frees an address space that no queued task and no other
\* pending reap has, and that is not loaded.
Exclusive(f, q, rs) ==
    /\ f.cr3 # Kernel /\ f.cr3 # cr3
    /\ f.cr3 \notin Spaces(q)
    /\ \A g \in rs : g.pid # f.pid => g.cr3 # f.cr3

\* reap_exited_tasks over the queue q and the pending reaps rs: the lowest pid
\* other than the interrupted one.
ReapOne(q, rs) ==
    LET late == {f \in rs : f.pid # cur}
    IN  IF late = {} THEN reaps' = rs /\ UNCHANGED <<freed, reaped>>
        ELSE \E f \in late :
                /\ \A g \in late : f.pid <= g.pid
                /\ reaps' = rs \ {f}
                /\ reaped' = reaped \cup {f.pid}
                /\ freed' = IF Exclusive(f, q, rs) THEN freed \cup {f.cr3} ELSE freed

\* schedule and the switch; the idle task runs on whatever CR3 is loaded.
Dispatch(q) ==
    \/ q = {} /\ cur' = Idle /\ ready' = {} /\ UNCHANGED cr3
    \/ \E e \in Front(q) :
            /\ cur' = e.pid /\ cr3' = e.cr3
            /\ ready' = Renumber(q \ {e})

TickTail(q, rs) ==
    /\ ReapOne(q, rs) /\ Dispatch(q)
    /\ UNCHANGED <<locals, nextPid, nextSpace, calls>>

\* park_stopped on a set of frames that the running section owns.
Parked(frames) == {f \in stopped : f.pid \notin Pids(frames)} \cup frames
----------------------------------------------------------------------------
Init ==
    /\ cur = Idle /\ cr3 = Kernel
    /\ ready = {[pid |-> p, cr3 |-> Kernel, slot |-> p] : p \in 1..BootThreads}
    /\ stopped = {} /\ exiting = {} /\ stopReq = {} /\ reaps = {}
    /\ registered = {} /\ tgid = [p \in Pid |-> p] /\ pending = [p \in Pid |-> {}]
    /\ pc = [p \in Pid |-> "run"] /\ job = [p \in Pid |-> NoJob]
    /\ held = [p \in Pid |-> {}]
    /\ nextPid = BootThreads + 1 /\ nextSpace = 1 /\ freed = {} /\ reaped = {}
    /\ calls = 0
----------------------------------------------------------------------------
(* scheduler_tick_irq, by what it does with the interrupted task.          *)

Self == Frame(cur, cr3)

\* peek_deliverable_signal picks the lowest number: fatal before stop.
Signalled(sig) ==
    /\ cur \in registered /\ sig \in pending[cur]
    /\ sig = "stop" => "term" \notin pending[cur]

Undisturbed == cur # Idle /\ cur \notin exiting

TickIdle ==
    /\ cur = Idle
    /\ TickTail(ready, reaps)
    /\ UNCHANGED <<stopped, exiting, stopReq, registry>>

TickExiting ==
    /\ cur # Idle /\ cur \in exiting
    /\ exiting' = exiting \ {cur}
    /\ TickTail(ready, Without(reaps, cur) \cup {Self})
    /\ UNCHANGED <<stopped, stopReq, registry>>

\* A fatal signal: force_terminate_group and drop_current_now.  Parked members
\* go to the reaper, the others are marked.
TickKill ==
    /\ Undisturbed /\ Signalled("term")
    /\ LET group == GroupPids(tgid[cur])
           parked == {f \in stopped : f.pid \in group \ {cur}}
       IN  /\ Unregister(group)
           /\ stopped' = stopped \ parked
           /\ stopReq' = stopReq \ (Pids(parked) \cup {cur})
           /\ exiting' = exiting \cup ((group \ {cur}) \ Pids(parked))
           /\ TickTail(ready, {f \in reaps : f.pid \notin Pids(parked) \cup {cur}}
                                  \cup parked \cup {Self})

\* A stop signal: begin_group_stop, and the requeue decision parks the receiver.
TickStop ==
    /\ Undisturbed /\ Signalled("stop")
    /\ LET siblings == GroupPids(tgid[cur]) \ {cur}
           frames == DrainedFrames(ready, siblings) \cup {Self}
       IN  /\ pending' = [pending EXCEPT ![cur] = @ \ {"stop"}]
           /\ stopped' = Parked(frames)
           /\ stopReq' = stopReq \ Pids(frames)
           /\ TickTail(Drained(ready, siblings), reaps)
    /\ UNCHANGED <<exiting, registered, tgid>>

Unsignalled == ~Signalled("term") /\ ~Signalled("stop")

TickPark ==
    /\ Undisturbed /\ Unsignalled /\ cur \in stopReq
    /\ stopReq' = stopReq \ {cur}
    /\ stopped' = Parked({Self})
    /\ TickTail(ready, reaps)
    /\ UNCHANGED <<exiting, registry>>

TickRequeue ==
    /\ Undisturbed /\ Unsignalled /\ cur \notin stopReq
    /\ TickTail(Enqueue(ready, Self), reaps)
    /\ UNCHANGED <<stopped, exiting, stopReq, registry>>

Tick == TickIdle \/ TickExiting \/ TickKill \/ TickStop \/ TickPark \/ TickRequeue
----------------------------------------------------------------------------
(* scheduler_yield_switch                                                  *)

\* The next task is taken from the queue before the caller is put back.
SwitchTo(e, q) == cur' = e.pid /\ cr3' = e.cr3 /\ ready' = q

YieldRequeue ==
    /\ cur \notin stopReq
    /\ \E e \in Front(ready) : SwitchTo(e, Enqueue(Renumber(ready \ {e}), Self))
    /\ UNCHANGED <<stopped, stopReq>>

YieldPark ==
    /\ cur \in stopReq
    /\ stopReq' = stopReq \ {cur}
    /\ stopped' = Parked({Self})
    /\ IF ready = {} THEN cur' = Idle /\ UNCHANGED <<cr3, ready>>
       ELSE \E e \in Front(ready) : SwitchTo(e, Renumber(ready \ {e}))

YieldAlone ==
    /\ ready = {} /\ cur \notin stopReq
    /\ UNCHANGED <<cur, cr3, ready, stopped, stopReq>>

Yield ==
    /\ cur # Idle /\ pc[cur] \in {"run", "stop_yield"}
    /\ pc[cur] = "run" => ready # {}
    /\ YieldRequeue \/ YieldPark \/ YieldAlone
    /\ pc' = [pc EXCEPT ![cur] = "run"]
    /\ UNCHANGED <<exiting, reaps, registry, job, held, memory, calls>>
----------------------------------------------------------------------------
(* System calls of the running task p that are one section.                *)

\* p is in no call; only a task with compat state is routed as a Linux one.
InUser(p) == cur = p /\ p # Idle /\ pc[p] = "run"
MayCall(p, call) ==
    InUser(p) /\ p \in registered /\ call \in Calls /\ calls < MaxCalls

CallOnce == calls' = calls + 1

\* A new task: its compat state and its first frame, interrupts masked.
NewTask(group, space) ==
    /\ nextPid <= MaxPid
    /\ registered' = registered \cup {nextPid}
    /\ tgid' = [tgid EXCEPT ![nextPid] = group]
    /\ ready' = Enqueue(ready, Frame(nextPid, space))
    /\ nextPid' = nextPid + 1
    /\ UNCHANGED <<cur, stopped, exiting, stopReq, reaps, pending, locals,
                   freed, reaped>>

NewSpace == nextSpace <= MaxSpace /\ nextSpace' = nextSpace + 1

\* run_linux_binary, called by the shell.
Launch ==
    /\ InUser(Shell)
    /\ NewTask(nextPid, nextSpace) /\ NewSpace
    /\ UNCHANGED <<cr3, calls>>

\* sys_clone with CLONE_VM | CLONE_THREAD, and without.
CloneThread(p) ==
    /\ MayCall(p, "clone") /\ CallOnce
    /\ NewTask(tgid[p], cr3)
    /\ UNCHANGED <<cr3, nextSpace>>

Fork(p) ==
    /\ MayCall(p, "fork") /\ CallOnce
    /\ NewTask(nextPid, nextSpace) /\ NewSpace
    /\ UNCHANGED cr3

\* The tasks of p's process that may run, registered or on their way out.
ThreadsOf(p) ==
    {m \in Pids(ready \cup stopped \cup UNION {held[q] : q \in Pid}) \cup {cur} :
        tgid[m] = tgid[p]}

\* exec_linux_image and drop_exclusive_user_space; a process with other threads
\* makes a call of its own kind, so that a workload may leave it out.
Execve(p) ==
    /\ MayCall(p, IF ThreadsOf(p) = {p} THEN "execve" ELSE "execve_threaded")
    /\ CallOnce
    /\ NewSpace /\ cr3' = nextSpace
    /\ freed' = IF cr3 = Kernel \/ cr3 \in Spaces(ready) \cup Spaces(reaps)
                THEN freed ELSE freed \cup {cr3}
    /\ UNCHANGED <<cur, ready, stopped, exiting, stopReq, reaps, registry,
                   locals, nextPid, reaped>>

\* kill(q, SIGTERM) with the default action, and ^C from the keyboard interrupt.
SendFatal(q) ==
    /\ "term" \in Calls /\ calls < MaxCalls /\ CallOnce
    /\ q \in registered
    /\ pending' = [pending EXCEPT ![q] = @ \cup {"term"}]
    /\ UNCHANGED <<rotation, registered, tgid, locals, memory>>

\* A kernel thread whose entry function returned; the shell's never does.
KernelThreadFinished(p) ==
    /\ InUser(p) /\ p # Shell /\ p <= BootThreads
    /\ exiting' = exiting \cup {p}
    /\ pc' = [pc EXCEPT ![p] = "halt"]
    /\ UNCHANGED <<cur, cr3, ready, stopped, stopReq, reaps, registry,
                   job, held, memory, calls>>
----------------------------------------------------------------------------
(* Calls of several sections.  `At(p, l)`: the running task p is at l.     *)

At(p, l) == cur = p /\ pc[p] = l
GoTo(p, l) == pc' = [pc EXCEPT ![p] = l]

Enter(p, l, j) == GoTo(p, l) /\ job' = [job EXCEPT ![p] = j] /\ UNCHANGED held

\* The rest of the loop over a group: m is next.
NextMember(p, m) ==
    job' = [job EXCEPT ![p] = [job[p] EXCEPT !.pid = m, !.rest = job[p].rest \ {m}]]

\* sys_exit; finish_compat_exit is the first section of exit_current.
Exit(p) ==
    /\ MayCall(p, "exit") /\ CallOnce
    /\ GoTo(p, "exit")
    /\ UNCHANGED <<rotation, registry, job, held, memory>>

\* sys_exit_group: by call, or as the default action of a fatal signal that
\* deliver_one_pending_syscall takes at the return from some call.
ExitGroup(p) ==
    /\ MayCall(p, "exit_group") /\ CallOnce
    /\ GoTo(p, "exit_group")
    /\ UNCHANGED <<rotation, registry, job, held, memory>>

FatalDeliver(p) ==
    /\ InUser(p) /\ Signalled("term")
    /\ pending' = [pending EXCEPT ![p] = @ \ {"term"}]
    /\ GoTo(p, "exit_group")
    /\ UNCHANGED <<rotation, registered, tgid, job, held, memory, calls>>

ExitGroupOthers(p) ==
    /\ At(p, "exit_group")
    /\ LET others == GroupPids(TgidOf(p)) \ {p}
       IN  Enter(p, "exit_others", [NoJob EXCEPT !.rest = others, !.others = others])
    /\ UNCHANGED <<rotation, registry, memory, calls>>

\* The others lose their compat state one by one, then their place in rotation.
ExitGroupMember(p) ==
    /\ At(p, "exit_others") /\ job[p].rest # {}
    /\ \E m \in Least(job[p].rest) : Unregister({m}) /\ NextMember(p, m)
    /\ UNCHANGED <<rotation, pc, held, memory, calls>>

ExitGroupReady(p) ==
    /\ At(p, "exit_others") /\ job[p].rest = {}
    /\ ready' = Drained(ready, job[p].others)
    /\ GoTo(p, "exit") /\ job' = [job EXCEPT ![p] = NoJob]
    /\ UNCHANGED <<cur, cr3, stopped, exiting, stopReq, reaps, registry, held,
                   memory, calls>>

\* exit_current
ExitCompat(p) ==
    /\ At(p, "exit")
    /\ Unregister({p}) /\ GoTo(p, "exit_mark")
    /\ UNCHANGED <<rotation, job, held, memory, calls>>

\* Bug: the task halts without a mark.
ExitMarkLost(p) ==
    /\ At(p, "exit_mark")
    /\ GoTo(p, "halt")
    /\ UNCHANGED <<rotation, registry, job, held, memory, calls>>

ExitMark(p) ==
    /\ At(p, "exit_mark")
    /\ exiting' = exiting \cup {p} /\ GoTo(p, "halt")
    /\ UNCHANGED <<cur, cr3, ready, stopped, stopReq, reaps, registry,
                   job, held, memory, calls>>
----------------------------------------------------------------------------
(* SIGKILL: force_terminate_group, request_exit for each member.           *)

Kill(p, q) ==
    /\ MayCall(p, "kill") /\ CallOnce
    /\ q \in registered
    /\ Enter(p, "kill", [NoJob EXCEPT !.goal = q, !.rest = GroupPids(tgid[q]) \ {q}])
    /\ UNCHANGED <<rotation, registry, memory>>

\* remove_compat of the next member; of the addressed pid at the end.
KillMember(p) ==
    /\ At(p, "kill")
    /\ \E m \in IF job[p].rest = {} THEN {job[p].goal} ELSE Least(job[p].rest) :
            Unregister({m}) /\ NextMember(p, m)
    /\ GoTo(p, "take_frame")
    /\ UNCHANGED <<rotation, held, memory, calls>>

\* Bug: the parked frame stays in STOPPED_TASKS as well.
KillTakeCopies(p) ==
    /\ At(p, "take_frame")
    /\ LET frames == {f \in stopped : f.pid = job[p].pid}
       IN  /\ held' = [held EXCEPT ![p] = frames]
           /\ GoTo(p, IF frames = {} THEN "mark_exiting" ELSE "unrequest")
    /\ UNCHANGED <<cur, cr3, ready, stopped, exiting, stopReq, reaps, registry, job,
                   memory, calls>>

\* take_stopped_frame
KillTake(p) ==
    /\ At(p, "take_frame")
    /\ LET frames == {f \in stopped : f.pid = job[p].pid}
       IN  /\ stopped' = stopped \ frames
           /\ held' = [held EXCEPT ![p] = frames]
           /\ GoTo(p, IF frames = {} THEN "mark_exiting" ELSE "unrequest")
    /\ UNCHANGED <<cur, cr3, ready, exiting, stopReq, reaps, registry, job,
                   memory, calls>>

KillUnrequest(p) ==
    /\ At(p, "unrequest")
    /\ stopReq' = stopReq \ {job[p].pid} /\ GoTo(p, "pend_reap")
    /\ UNCHANGED <<cur, cr3, ready, stopped, exiting, reaps, registry, job, held,
                   memory, calls>>

\* The loop goes on until the addressed pid itself is done.
KillGoOn(p) ==
    IF job[p].pid = job[p].goal
    THEN GoTo(p, "run") /\ job' = [job EXCEPT ![p] = NoJob]
    ELSE GoTo(p, "kill") /\ UNCHANGED job

KillReap(p) ==
    /\ At(p, "pend_reap")
    /\ reaps' = {f \in reaps : f.pid \notin Pids(held[p])} \cup held[p]
    /\ KillGoOn(p)
    /\ held' = [held EXCEPT ![p] = {}]
    /\ UNCHANGED <<cur, cr3, ready, stopped, exiting, stopReq, registry,
                   memory, calls>>

KillMark(p) ==
    /\ At(p, "mark_exiting")
    /\ exiting' = exiting \cup {job[p].pid}
    /\ KillGoOn(p)
    /\ UNCHANGED <<cur, cr3, ready, stopped, stopReq, reaps, registry, held,
                   memory, calls>>
----------------------------------------------------------------------------
(* Stop signals: send_signal, then begin_group_stop where it is delivered. *)

Stop(p, q) ==
    /\ MayCall(p, "stop") /\ CallOnce
    /\ q \in registered
    /\ Enter(p, "stop", [NoJob EXCEPT !.goal = q, !.rest = GroupPids(tgid[q])])
    /\ UNCHANGED <<rotation, registry, memory>>

\* group_is_stopped, member by member: the signal to a stopped group is dropped.
StopCheck(p) ==
    /\ At(p, "stop") /\ job[p].rest # {}
    /\ \E m \in Least(job[p].rest) :
           IF m \in Pids(stopped) THEN Enter(p, "run", NoJob)
           ELSE NextMember(p, m) /\ UNCHANGED <<pc, held>>
    /\ UNCHANGED <<rotation, registry, memory, calls>>

\* set_pending
StopQueue(p) ==
    /\ At(p, "stop") /\ job[p].rest = {}
    /\ LET q == job[p].goal
       IN  IF q \in registered
           THEN pending' = [pending EXCEPT ![q] = @ \cup {"stop"}]
           ELSE UNCHANGED pending
    /\ Enter(p, "run", NoJob)
    /\ UNCHANGED <<rotation, registered, tgid, memory, calls>>

\* deliver_one_pending_syscall takes the bit at the return from some call.
StopDeliver(p) ==
    /\ InUser(p) /\ Signalled("stop")
    /\ pending' = [pending EXCEPT ![p] = @ \ {"stop"}]
    /\ GoTo(p, "group_stop")
    /\ UNCHANGED <<rotation, registered, tgid, job, held, memory, calls>>

StopSiblings(p) ==
    /\ At(p, "group_stop")
    /\ Enter(p, "stop_ready", [NoJob EXCEPT !.rest = GroupPids(TgidOf(p)) \ {p}])
    /\ UNCHANGED <<rotation, registry, memory, calls>>

\* stop_ready_pids: under READY_QUEUE, then park_stopped for each frame.
StopDrain(p) ==
    /\ At(p, "stop_ready")
    /\ ready' = Drained(ready, job[p].rest)
    /\ held' = [held EXCEPT ![p] = DrainedFrames(ready, job[p].rest)]
    /\ GoTo(p, "park") /\ job' = [job EXCEPT ![p] = NoJob]
    /\ UNCHANGED <<cur, cr3, stopped, exiting, stopReq, reaps, registry,
                   memory, calls>>

StopUnrequest(p) ==
    /\ At(p, "park") /\ held[p] # {}
    /\ \E f \in held[p] :
        /\ job' = [job EXCEPT ![p] = [NoJob EXCEPT !.pid = f.pid]]
        /\ stopReq' = stopReq \ {f.pid}
    /\ GoTo(p, "park_frame")
    /\ UNCHANGED <<cur, cr3, ready, stopped, exiting, reaps, registry, held,
                   memory, calls>>

StopPark(p) ==
    /\ At(p, "park_frame")
    /\ LET frames == {f \in held[p] : f.pid = job[p].pid}
       IN  stopped' = Parked(frames) /\ held' = [held EXCEPT ![p] = @ \ frames]
    /\ GoTo(p, "park")
    /\ UNCHANGED <<cur, cr3, ready, exiting, stopReq, reaps, registry, job,
                   memory, calls>>

\* mark_stop_requested; the yield that follows parks the receiver.
StopRequest(p) ==
    /\ At(p, "park") /\ held[p] = {}
    /\ stopReq' = stopReq \cup {p} /\ Enter(p, "stop_yield", NoJob)
    /\ UNCHANGED <<cur, cr3, ready, stopped, exiting, reaps, registry,
                   memory, calls>>
----------------------------------------------------------------------------
(* SIGCONT: resume_group, resume_stopped for each member.                  *)

Cont(p, q) ==
    /\ MayCall(p, "cont") /\ CallOnce
    /\ q \in registered
    /\ Enter(p, "cont", [NoJob EXCEPT !.rest = GroupPids(tgid[q])])
    /\ UNCHANGED <<rotation, registry, memory>>

\* clear_stop_pending
ContMember(p) ==
    /\ At(p, "cont") /\ job[p].rest # {}
    /\ \E m \in Least(job[p].rest) :
           /\ pending' = [pending EXCEPT ![m] = @ \ {"stop"}]
           /\ NextMember(p, m)
    /\ GoTo(p, "cont_request")
    /\ UNCHANGED <<rotation, registered, tgid, held, memory, calls>>

ContUnrequest(p) ==
    /\ At(p, "cont_request")
    /\ stopReq' = stopReq \ {job[p].pid} /\ GoTo(p, "resume")
    /\ UNCHANGED <<cur, cr3, ready, stopped, exiting, reaps, registry, job, held,
                   memory, calls>>

ContResume(p) ==
    /\ At(p, "resume")
    /\ LET m == job[p].pid
           frames == {f \in stopped : f.pid = m}
       IN  /\ stopped' = stopped \ frames
           /\ held' = [held EXCEPT ![p] = frames]
           /\ GoTo(p, IF frames = {} THEN "cont" ELSE "requeue")
    /\ UNCHANGED <<cur, cr3, ready, exiting, stopReq, reaps, registry, job,
                   memory, calls>>

ContRequeue(p) ==
    /\ At(p, "requeue")
    /\ \E f \in held[p] : ready' = Enqueue(ready, f)
    /\ held' = [held EXCEPT ![p] = {}] /\ GoTo(p, "cont")
    /\ UNCHANGED <<cur, cr3, stopped, exiting, stopReq, reaps, registry, job,
                   memory, calls>>

ContDone(p) ==
    /\ At(p, "cont") /\ job[p].rest = {}
    /\ Enter(p, "run", NoJob)
    /\ UNCHANGED <<rotation, registry, memory, calls>>
----------------------------------------------------------------------------
OneSection(p) ==
    \/ CloneThread(p) \/ Fork(p) \/ Execve(p) \/ KernelThreadFinished(p)
    \/ SendFatal(p)

ExitStep(p) ==
    \/ Exit(p) \/ ExitGroup(p) \/ FatalDeliver(p) \/ ExitGroupOthers(p)
    \/ ExitGroupMember(p) \/ ExitGroupReady(p) \/ ExitCompat(p) \/ ExitMark(p)

KillStep(p) ==
    \/ \E q \in Pid : Kill(p, q)
    \/ KillMember(p) \/ KillTake(p) \/ KillUnrequest(p) \/ KillReap(p) \/ KillMark(p)

StopStep(p) ==
    \/ \E q \in Pid : Stop(p, q)
    \/ StopCheck(p) \/ StopQueue(p) \/ StopDeliver(p) \/ StopSiblings(p)
    \/ StopDrain(p) \/ StopUnrequest(p) \/ StopPark(p) \/ StopRequest(p)

ContStep(p) ==
    \/ \E q \in Pid : Cont(p, q)
    \/ ContMember(p) \/ ContUnrequest(p) \/ ContResume(p) \/ ContRequeue(p)
    \/ ContDone(p)

Next ==
    \/ Tick \/ Yield \/ Launch
    \/ \E p \in Pid : OneSection(p) \/ ExitStep(p) \/ KillStep(p)
                        \/ StopStep(p) \/ ContStep(p)

\* The timer keeps firing.  Nothing else is assumed: a task may stay in ring 3.
Spec == Init /\ [][Next]_vars /\ WF_vars(Tick)
----------------------------------------------------------------------------
Labels == {"run", "halt", "exit", "exit_mark", "exit_group", "exit_others",
           "kill", "take_frame", "unrequest", "pend_reap", "mark_exiting",
           "stop", "group_stop", "stop_ready", "park", "park_frame", "stop_yield",
           "cont", "cont_request", "resume", "requeue"}

FrameSet == [pid : Pid, cr3 : Space]
Entry == [pid : Pid, cr3 : Space, slot : Nat]
Job == [goal : Pid \cup {Idle}, pid : Pid \cup {Idle},
        rest : SUBSET Pid, others : SUBSET Pid]

\* Every table of the scheduler and every local of a call holds what the code's
\* type allows, within the bounds.
TypeOK ==
    /\ cur \in Pid \cup {Idle} /\ cr3 \in Space
    /\ ready \subseteq Entry
    /\ stopped \subseteq FrameSet /\ reaps \subseteq FrameSet
    /\ exiting \subseteq Pid /\ stopReq \subseteq Pid
    /\ registered \subseteq Pid /\ tgid \in [Pid -> Pid]
    /\ pending \in [Pid -> SUBSET {"term", "stop"}]
    /\ pc \in [Pid -> Labels] /\ job \in [Pid -> Job]
    /\ held \in [Pid -> SUBSET FrameSet]
    /\ nextPid \in Nat /\ nextSpace \in Nat
    /\ freed \subseteq Space \ {Kernel} /\ reaped \subseteq Pid
    /\ calls \in 0..MaxCalls

\* The pids that are running, queued, parked, or in a local variable.
Queued == Pids(ready)
ParkedPids == Pids(stopped)
HeldPids == UNION {Pids(held[p]) : p \in Pid}
Gone == Pids(reaps) \cup reaped

Unique(frames) == \A e, f \in frames : e.pid = f.pid => e = f

\* A task has one frame and it is in one place: nothing is queued or parked
\* twice, the running task and a task whose memory is pending or released are
\* neither queued nor parked (what the double-enqueue checks and the frame
\* ledger of scheduler.rs report as errors never happens).
OneFrame ==
    /\ Unique(ready) /\ Unique(stopped) /\ \A p \in Pid : Unique(held[p])
    /\ \A p, q \in Pid : p # q => Pids(held[p]) \cap Pids(held[q]) = {}
    /\ Queued \cap (ParkedPids \cup HeldPids \cup {cur} \cup Gone) = {}
    /\ ParkedPids \cap (HeldPids \cup {cur} \cup Gone) = {}
    /\ HeldPids \cap ({cur} \cup Gone) = {}
    /\ cur \notin Gone

\* What makes OneFrame inductive: a pid that has not been handed out is nowhere,
\* and a call that works on a task has one to work on.
Fresh ==
    \A q \in Queued \cup ParkedPids \cup HeldPids \cup {cur} \cup Gone : q < nextPid
JobOK ==
    \A p \in Pid :
        /\ pc[p] \in {"kill", "take_frame", "unrequest", "pend_reap", "mark_exiting"}
            => job[p].goal \in Pid
        /\ pc[p] \in {"take_frame", "unrequest", "pend_reap", "mark_exiting",
                     "cont_request", "resume"}
            => job[p].pid \in Pid
IInv == TypeOK /\ OneFrame /\ Fresh /\ JobOK

\* The address spaces of the tasks that may run again.
InUse == Spaces(ready) \cup Spaces(stopped)
         \cup (UNION {Spaces(held[p]) : p \in {q \in Pid : pc[q] \notin {"unrequest", "pend_reap"}}})
         \cup (IF cur = Idle THEN {} ELSE {cr3})

\* reap_exited_tasks and execve free an address space "only when exclusively
\* owned": no task that may run again has it, it is not loaded in CR3, and no
\* pending reap is left that could free it again.
FreedUnused == freed \cap (InUse \cup Spaces(reaps) \cup {cr3}) = {}

\* An address space is not forgotten: until it is freed, a task that may run
\* has it or a pending reap names it ("the last departing thread frees it").
SpaceAccounted ==
    \A s \in 1..(nextSpace - 1) : s \in freed \cup InUse \cup Spaces(reaps) \cup {cr3}

\* A task that has called exit is dropped by a tick and its memory released.
ExitCompletes == \A p \in Pid : (pc[p] = "halt") ~> (p \in reaped)

\* A queued task gets the CPU, whatever the other tasks do.
ReadyRuns == \A p \in Pid : (p \in Queued) ~> (cur = p \/ p \notin Queued)
----------------------------------------------------------------------------
(* What comments of the code say of it, and the code does not keep.        *)

\* request_exit: a parked task carries no exit mark, which "would linger there
\* forever while the frame stayed parked".
ParkedUnmarked == exiting \cap ParkedPids = {}
============================================================================
