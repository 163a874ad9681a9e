------------------------------ MODULE Signals ------------------------------
(***************************************************************************)
(* Signals of Linux processes: arch/x86_64/linux/signal.rs with the        *)
(* argument rules of kill.rs, the frame of signal_frame.rs, the signal     *)
(* state of task/compat.rs, and rt_sigaction, rt_sigprocmask and tgkill of *)
(* misc.rs.                                                                *)
(*                                                                         *)
(* The pending bits and the counter PENDING_APPROX change under no common  *)
(* lock: a sender sets the bit and then counts it, a receiver takes the    *)
(* bit and then discounts it, and the timer can come in between.  How a    *)
(* group is parked and resumed member by member is Scheduler's subject;    *)
(* here it is one step.                                                    *)
(***************************************************************************)
EXTENDS Integers, Sequences, FiniteSets

CONSTANTS
    Thread,         \* the pids, positive numbers
    Tgid,           \* pid -> thread group, the pid of its leader
    Uid,            \* group -> user
    Int80,          \* the threads seen to enter through int 0x80
    Sig,            \* the signal numbers in use
    Mask,           \* the sa_mask values in use
    MaxSends, MaxFrames, MaxCalls     \* bounds: kills, nested handlers, mask and action changes

VARIABLES
    alive,          \* pids with an entry in COMPAT_STATES
    parked,         \* STOPPED_TASKS
    pending, blocked,   \* sig_pending, sig_blocked
    action,         \* group -> signal -> [handler, mask]
    approx,         \* PENDING_APPROX; below 0 stands for a wrapped value
    frames,         \* rt_sigframes on the user stack: the mask to reinstate and, for
                    \* the properties, the one that was in force and the handler
    pc,             \* where in the kernel a thread is
    sends, calls

sigVars == <<alive, parked, pending, blocked, action, approx, frames, pc, sends, calls>>

SIGKILL == 9
SIGSEGV == 11
SIGCONT == 18
StopSig == {19, 20, 21, 22}
Unblockable == {9, 19}

User == [at |-> "user"]
Group(t) == {u \in alive : Tgid[u] = Tgid[t]}

default_action(s) ==
    CASE s \in {17, 23, 28} -> "Ignore"
      [] s = SIGCONT -> "Cont"
      [] s \in StopSig -> "Stop"
      [] OTHER -> "Term"

Init ==
    /\ alive = Thread /\ parked = {} /\ approx = 0 /\ sends = 0 /\ calls = 0
    /\ pending = [t \in Thread |-> {}] /\ blocked = [t \in Thread |-> {}]
    /\ action = [g \in {Tgid[t] : t \in Thread} |-> [s \in Sig |-> [handler |-> "DFL", mask |-> {}]]]
    /\ frames = [t \in Thread |-> <<>>]
    /\ pc = [t \in Thread |-> User]

Runs(t) == t \in alive /\ t \notin parked
Enter(t, where) == pc' = [pc EXCEPT ![t] = where]

\* The group of t leaves the registry with all that is pending for it.
Terminate(t) ==
    /\ alive' = alive \ Group(t)
    /\ parked' = parked \ Group(t)
    /\ pending' = [u \in Thread |-> IF u \in Group(t) THEN {} ELSE pending[u]]
----------------------------------------------------------------------------
\* pick_group_target: the leader, or the lowest thread that is left.
pick_group_target(g) ==
    LET members == {u \in alive : Tgid[u] = g}
    IN  IF g \in members THEN {g} ELSE {u \in members : \A v \in members : u <= v}

resolve_kill_targets(t, target) ==
    CASE target.kind = "Pid" -> {target.pid}
      [] target.kind = "OwnGroup" -> pick_group_target(Tgid[t])
      [] target.kind = "Group" -> pick_group_target(target.pid)
      [] target.kind = "All" ->
            UNION {pick_group_target(Tgid[u]) : u \in {v \in alive : Tgid[v] # Tgid[t] /\ v # 1}}

kill_permits(t, u) == u \in alive => Uid[Tgid[t]] \in {0, Uid[Tgid[u]]}

\* sys_kill up to the first delivery; with nobody to signal it returns at once.
sys_kill(t, target, s) ==
    /\ Runs(t) /\ pc[t] = User /\ sends < MaxSends
    /\ LET permitted == {u \in resolve_kill_targets(t, target) : kill_permits(t, u)}
       IN  permitted # {} /\ Enter(t, [at |-> "kill", targets |-> permitted, sig |-> s])
    /\ sends' = sends + 1
    /\ UNCHANGED <<alive, parked, pending, blocked, action, approx, frames, calls>>

\* sys_tgkill: a handled signal is queued, a fatal one acts here, others are dropped.
sys_tgkill(t, u, s) ==
    /\ Runs(t) /\ pc[t] = User /\ sends < MaxSends /\ u \in alive /\ kill_permits(t, u)
    /\ sends' = sends + 1
    /\ IF action[Tgid[u]][s].handler = "user"
       THEN /\ Enter(t, [at |-> "kill", targets |-> {u}, sig |-> s])
            /\ UNCHANGED <<alive, parked, pending>>
       ELSE /\ default_action(s) = "Term" /\ Terminate(u) /\ UNCHANGED pc
    /\ UNCHANGED <<blocked, action, approx, frames, calls>>

\* What the generation of s does to the group: SIGCONT resumes it and discards stops,
\* a stop discards SIGCONT.
Generated(u, s) ==
    [v \in Thread |->
        IF v \notin Group(u) THEN pending[v]
        ELSE IF s = SIGCONT THEN pending[v] \ StopSig
        ELSE IF s \in StopSig THEN pending[v] \ {SIGCONT}
        ELSE pending[v]]

\* send_signal to the next target, up to the pending bit.
send_signal(t) ==
    /\ Runs(t) /\ pc[t].at = "kill"
    /\ \E u \in pc[t].targets :
        LET s == pc[t].sig
            rest == pc[t].targets \ {u}
            done == IF rest = {} THEN User ELSE [pc[t] EXCEPT !.targets = rest]
        IN  /\ \A v \in pc[t].targets : u <= v
            /\ \/ /\ u \notin alive
                  /\ Enter(t, done) /\ UNCHANGED <<alive, parked, pending>>
               \/ /\ u \in alive /\ s = SIGKILL
                  /\ Terminate(u) /\ Enter(t, done)
               \/ /\ u \in alive /\ s \in StopSig /\ Group(u) \cap parked # {}
                  /\ pending' = Generated(u, s)
                  /\ Enter(t, done) /\ UNCHANGED <<alive, parked>>
               \/ /\ u \in alive /\ s # SIGKILL /\ (s \in StopSig => Group(u) \cap parked = {})
                  /\ pending' = [Generated(u, s) EXCEPT ![u] = @ \cup {s}]
                  /\ parked' = IF s = SIGCONT THEN parked \ Group(u) ELSE parked
                  /\ Enter(t, [at |-> "adding", bit |-> <<u, s>>, then |-> done])
                  /\ UNCHANGED alive
    /\ UNCHANGED <<blocked, action, approx, frames, sends, calls>>

\* Mutant: the counter is a flag.
CountFlag(t) ==
    /\ Runs(t) /\ pc[t].at = "adding"
    /\ approx' = 1
    /\ Enter(t, pc[t].then)
    /\ UNCHANGED <<alive, parked, pending, blocked, action, frames, sends, calls>>
\* PENDING_APPROX.fetch_add
Count(t) ==
    /\ Runs(t) /\ pc[t].at = "adding"
    /\ approx' = approx + 1
    /\ Enter(t, pc[t].then)
    /\ UNCHANGED <<alive, parked, pending, blocked, action, frames, sends, calls>>
----------------------------------------------------------------------------
deliverable(t) == pending[t] \ blocked[t]
First(t, s) == s \in deliverable(t) /\ \A r \in deliverable(t) : s <= r

\* The return of a system call looks at the counter first.
deliver_one_pending_syscall(t) ==
    /\ Runs(t) /\ pc[t] = User /\ approx # 0
    /\ Enter(t, [at |-> "pick"])
    /\ UNCHANGED <<alive, parked, pending, blocked, action, approx, frames, sends, calls>>

pick_pending_signal(t) ==
    /\ Runs(t) /\ pc[t].at = "pick"
    /\ \/ /\ deliverable(t) = {}
          /\ Enter(t, User) /\ UNCHANGED pending
       \/ \E s \in Sig :
          /\ First(t, s)
          /\ pending' = [pending EXCEPT ![t] = @ \ {s}]
          /\ Enter(t, [at |-> "sub", sig |-> s, act |-> action[Tgid[t]][s], old |-> blocked[t]])
    /\ UNCHANGED <<alive, parked, blocked, action, approx, frames, sends, calls>>

\* The mask in the frame is the one in force joined with sa_mask.
FrameMask(old, act) == (old \cup act.mask) \ Unblockable

\* A handler is entered through a frame; where none can be written the group dies.
EnterHandler(t, act, old) ==
    \/ /\ Len(frames[t]) < MaxFrames
       /\ frames' = [frames EXCEPT ![t] = Append(@,
                        [mask |-> FrameMask(old, act), before |-> old, handler |-> act.handler])]
       /\ blocked' = [blocked EXCEPT ![t] = @ \cup (act.mask \ Unblockable)]
       /\ UNCHANGED <<alive, parked>>
    \/ /\ alive' = alive \ Group(t) /\ parked' = parked \ Group(t)
       /\ UNCHANGED <<frames, blocked>>

\* What the default disposition does, from a system call and from the tick alike.
DefaultEffect(t, s) ==
    /\ alive' = IF default_action(s) = "Term" THEN alive \ Group(t) ELSE alive
    /\ parked' = CASE default_action(s) = "Term" -> parked \ Group(t)
                   [] default_action(s) = "Stop" -> parked \cup Group(t)
                   [] OTHER -> parked
    /\ UNCHANGED <<frames, blocked>>

Cleared(bits) == [u \in Thread |-> IF u \in alive' THEN bits[u] ELSE {}]

\* PENDING_APPROX.fetch_sub and the rest of deliver_one_pending_syscall.
Deliver(t) ==
    /\ Runs(t) /\ pc[t].at = "sub"
    /\ approx' = approx - 1 /\ Enter(t, User)
    /\ LET act == pc[t].act
       IN  \/ act.handler = "DFL" /\ ~(t \in Int80 /\ default_action(pc[t].sig) = "Stop")
              /\ DefaultEffect(t, pc[t].sig)
           \/ /\ \/ act.handler = "IGN"
                 \/ t \in Int80 /\ (act.handler = "user" \/ default_action(pc[t].sig) = "Stop")
              /\ UNCHANGED <<alive, parked, frames, blocked>>
           \/ act.handler = "user" /\ t \notin Int80 /\ EnterHandler(t, act, pc[t].old)
    /\ pending' = Cleared(pending)
    /\ UNCHANGED <<action, sends, calls>>

\* tick_action: the timer interrupts t, in user mode or in the kernel.
tick_action(t) ==
    /\ Runs(t) /\ approx # 0
    /\ \E s \in Sig :
        LET act == action[Tgid[t]][s]
        IN  /\ First(t, s)
            /\ \/ act.handler = "DFL" /\ default_action(s) \in {"Term", "Stop"} /\ DefaultEffect(t, s)
               \/ pc[t] = User /\ act.handler = "IGN" /\ UNCHANGED <<alive, parked, frames, blocked>>
               \/ /\ pc[t] = User
                  /\ act.handler = "DFL" => default_action(s) \notin {"Term", "Stop"}
                  /\ act.handler # "IGN" /\ EnterHandler(t, act, blocked[t])
            /\ pending' = Cleared([pending EXCEPT ![t] = @ \ {s}])
    /\ approx' = approx - 1
    /\ UNCHANGED <<action, pc, sends, calls>>

sys_rt_sigreturn(t) ==
    /\ Runs(t) /\ pc[t] = User /\ frames[t] # <<>>
    /\ blocked' = [blocked EXCEPT ![t] = frames[t][Len(frames[t])].mask \ Unblockable]
    /\ frames' = [frames EXCEPT ![t] = SubSeq(@, 1, Len(@) - 1)]
    /\ UNCHANGED <<alive, parked, pending, action, approx, pc, sends, calls>>

apply_mask_op(how, old, set) ==
    (CASE how = "BLOCK" -> old \cup set [] how = "UNBLOCK" -> old \ set [] how = "SETMASK" -> set)
        \ Unblockable

sys_rt_sigprocmask(t, how, set) ==
    /\ Runs(t) /\ pc[t] = User /\ calls < MaxCalls
    /\ blocked' = [blocked EXCEPT ![t] = apply_mask_op(how, @, set)]
    /\ calls' = calls + 1
    /\ UNCHANGED <<alive, parked, pending, action, approx, frames, pc, sends>>

sys_rt_sigaction(t, s, act) ==
    /\ Runs(t) /\ pc[t] = User /\ calls < MaxCalls /\ s \notin Unblockable
    /\ action' = [action EXCEPT ![Tgid[t]][s] = act]
    /\ calls' = calls + 1
    /\ UNCHANGED <<alive, parked, pending, blocked, approx, frames, pc, sends>>

Target ==
    [kind : {"Pid", "Group"}, pid : Thread] \cup {[kind |-> "OwnGroup"], [kind |-> "All"]}

Next ==
    \E t \in Thread :
        \/ \E s \in Sig : (\E target \in Target : sys_kill(t, target, s)) \/ (\E u \in Thread : sys_tgkill(t, u, s))
        \/ send_signal(t) \/ Count(t)
        \/ deliver_one_pending_syscall(t) \/ pick_pending_signal(t) \/ Deliver(t)
        \/ tick_action(t) \/ sys_rt_sigreturn(t)
        \/ \E how \in {"BLOCK", "UNBLOCK", "SETMASK"}, set \in Mask : sys_rt_sigprocmask(t, how, set)
        \/ \E s \in Sig, h \in {"DFL", "IGN", "user"}, m \in Mask :
                sys_rt_sigaction(t, s, [handler |-> h, mask |-> m])

Spec == Init /\ [][Next]_sigVars
----------------------------------------------------------------------------
Bits == {b \in Thread \X Sig : b[2] \in pending[b[1]]}
At(where) == {t \in Thread : pc[t].at = where}

\* PENDING_APPROX lags behind the pending bits by at most the number of senders that are
\* between the bit and the count (send_signal), those killed there included.  So once no
\* sender is there, a counter of zero means that nothing is pending.  It is a balance: a
\* receiver that takes a bit not yet counted discounts the signal of another sender.
CounterLag == Cardinality(Bits) + Cardinality(At("sub")) <= approx + Cardinality(At("adding"))

\* What signal.rs:84-87 says of PENDING_APPROX: it never undercounts a deliverable signal,
\* so that the skip on a zero counter is always safe.  Here it need not cover a signal
\* whose own sender has still to count it.
NeverUndercounts ==
    approx = 0 => \A t \in alive : \A s \in deliverable(t) : \E u \in At("adding") : pc[u].bit = <<t, s>>

\* rt_sigreturn reinstates the mask that was in force when the signal was delivered
\* (signal_frame.rs, RestoredFrame::mask).
MaskRestored == \A t \in Thread : \A i \in DOMAIN frames[t] : frames[t][i].mask = frames[t][i].before

\* Only a handler that the program installed is entered: a default disposition that
\* ignores the signal has no effect on the program (signal_frame.rs, DefaultAction).
HandlerInstalled == \A t \in Thread : \A i \in DOMAIN frames[t] : frames[t][i].handler = "user"
============================================================================
