------------------------------ MODULE Children ------------------------------
(***************************************************************************)
(* Process creation, exit and wait4: the registries COMPAT_STATES,         *)
(* EXITED_CHILDREN, STOPPED_CHILDREN and CONTINUED_CHILDREN of             *)
(* task/compat.rs, and the calls of process_sys.rs, misc.rs, process.rs    *)
(* and signal.rs that change them.                                         *)
(*                                                                         *)
(* Each registry has a lock of its own and a call takes several in turn;   *)
(* between two of them the timer may run any other task.  A call is the    *)
(* list of locked steps it still has to take (todo).  A task that is       *)
(* killed goes on until a tick finds it running and drops it, wherever it  *)
(* is; exit_group takes its siblings off the ready queue, wherever they    *)
(* are.  A dropped task keeps its list: nobody takes those steps any more. *)
(***************************************************************************)
EXTENDS Integers, Sequences, FiniteSets

CONSTANTS
    LastPid,        \* bound: pids 1..LastPid are handed out
    Code,           \* the exit codes programs use
    Wanted,         \* the pid arguments of wait4: a pid, or -1 for any child
    Option,         \* its option sets, among WNOHANG, WUNTRACED and WCONTINUED
    MaxChildCalls   \* bound: calls made, the forks apart

ASSUME ChildAssumption == LastPid \in Nat /\ LastPid >= 2

VARIABLES
    states,         \* COMPAT_STATES
    zombies,        \* EXITED_CHILDREN: [parent, child, code]
    stopped, continued,     \* STOPPED_CHILDREN and CONTINUED_CHILDREN: [parent, child]
    parkedTasks,    \* tasks taken off the processor by a stop
    marked,         \* EXITING_PIDS: a tick drops the task when it finds it running
    gone,           \* tasks that never run again
    todo,           \* pid -> steps left of the call it is in
    nextPid,
    made,           \* calls made
    due,            \* pid -> [parent, code] when its exit has to be reported
    told            \* pid -> the exits reported to a waiting parent

childVars == <<states, zombies, stopped, continued, parkedTasks, marked, gone, todo, nextPid, made, due, told>>

Pid == 1 .. LastPid
NoCode == 0
Present == DOMAIN states
ThreadGroup(g) == {p \in Present : states[p].tgid = g}

\* Pid 1 stands for the shell, which is no Linux process and is the parent of those it starts.
ChildInit ==
    /\ states = [p \in {2} |-> [ppid |-> 1, tgid |-> 2, waitable |-> TRUE, code |-> NoCode]]
    /\ zombies = {} /\ stopped = {} /\ continued = {}
    /\ parkedTasks = {} /\ marked = {} /\ gone = {}
    /\ todo = [p \in Pid |-> <<>>]
    /\ nextPid = 3 /\ made = 0
    /\ due = [p \in Pid |-> {}]
    /\ told = [p \in Pid |-> <<>>]

With(p, state) == [q \in Present \cup {p} |-> IF q = p THEN state ELSE states[q]]
Without(p) == [q \in Present \ {p} |-> states[q]]

Running(p) == p \notin parkedTasks /\ p \notin gone
InUser(p) == p \in Present /\ Running(p) /\ todo[p] = <<>>
ChildCall(p, steps) ==
    /\ InUser(p) /\ made < MaxChildCalls
    /\ todo' = [todo EXCEPT ![p] = steps]
    /\ made' = made + 1
----------------------------------------------------------------------------
fork_current_compat(p, child) == [ppid |-> states[p].tgid, tgid |-> child, waitable |-> TRUE, code |-> NoCode]
clone_current_compat(p, child) == [ppid |-> p, tgid |-> states[p].tgid, waitable |-> FALSE, code |-> NoCode]

\* A thread with CLONE_VM and CLONE_THREAD, a process otherwise: interrupts are off from
\* the new pid to the spawn.
sys_clone(p, thread) ==
    /\ InUser(p) /\ nextPid \in Pid
    /\ states' = With(nextPid, IF thread THEN clone_current_compat(p, nextPid) ELSE fork_current_compat(p, nextPid))
    /\ nextPid' = nextPid + 1
    /\ UNCHANGED <<zombies, stopped, continued, parkedTasks, marked, gone, todo, made, due, told>>

OthersOf(p) == {q \in ThreadGroup(states[p].tgid) : q # p}
\* group_member_pids lists the others in the order of their pids.
InOrder(S) == CHOOSE s \in [1 .. Cardinality(S) -> S] : \A i, j \in DOMAIN s : i < j => s[i] < s[j]
Each(S, op) == [i \in 1 .. Cardinality(S) |-> [op |-> op, pid |-> InOrder(S)[i]]]
Drops(S) == Each(S, "remove_compat") \o <<[op |-> "remove_ready_pids", pids |-> S]>>
Ends(p, code) == <<[op |-> "set_exit_code", pid |-> p, code |-> code], [op |-> "finish_compat_exit", pid |-> p]>>

sys_exit(p, code) ==
    /\ ChildCall(p, Ends(p, code))
    /\ UNCHANGED <<states, zombies, stopped, continued, parkedTasks, marked, gone, nextPid, due, told>>

sys_exit_group(p, code) ==
    /\ ChildCall(p, Drops(OthersOf(p)) \o Ends(p, code))
    /\ UNCHANGED <<states, zombies, stopped, continued, parkedTasks, marked, gone, nextPid, due, told>>

\* A fatal signal of p for q ends in force_terminate_group, on p's time.
force_terminate_group(p, q) ==
    /\ q \in Present
    /\ ChildCall(p, Each(OthersOf(q), "request_exit") \o Ends(q, 137) \o <<[op |-> "request_exit", pid |-> q]>>)
    /\ UNCHANGED <<states, zombies, stopped, continued, parkedTasks, marked, gone, nextPid, due, told>>

\* p takes a stop signal; its siblings, off the one processor, are parked at once.
begin_group_stop(p) ==
    /\ InUser(p)
    /\ parkedTasks' = parkedTasks \cup OthersOf(p)
    /\ ChildCall(p, <<[op |-> "note_child_stopped", pid |-> p], [op |-> "park", pid |-> p]>>)
    /\ UNCHANGED <<states, zombies, stopped, continued, marked, gone, nextPid, due, told>>

\* SIGCONT of p for the group of q.
resume_group(p, q) ==
    /\ q \in Present
    /\ LET members == ThreadGroup(states[q].tgid) \cap parkedTasks
       IN  /\ members # {}
           /\ ChildCall(p, Each(members, "resume"))
    /\ UNCHANGED <<states, zombies, stopped, continued, parkedTasks, marked, gone, nextPid, due, told>>

sys_wait4(p, wanted, options) ==
    /\ ChildCall(p, <<[op |-> "reap_child", wanted |-> wanted, options |-> options]>>)
    /\ UNCHANGED <<states, zombies, stopped, continued, parkedTasks, marked, gone, nextPid, due, told>>
----------------------------------------------------------------------------
Doing(p, op) == Running(p) /\ todo[p] # <<>> /\ Head(todo[p]).op = op
Then(p, steps) == todo' = [todo EXCEPT ![p] = steps \o Tail(@)]
Return(p) == todo' = [todo EXCEPT ![p] = <<>>]
Counts == <<nextPid, made>>
Dropping == <<marked, gone>>

remove_compat(p) ==
    /\ Doing(p, "remove_compat")
    /\ states' = Without(Head(todo[p]).pid)
    /\ Then(p, <<>>)
    /\ UNCHANGED <<zombies, stopped, continued, parkedTasks, due, told, Counts, Dropping>>

\* exit_group takes the others it listed off the ready queue, in the middle of whatever they do.
remove_ready_pids(p) ==
    /\ Doing(p, "remove_ready_pids")
    /\ gone' = gone \cup (Head(todo[p]).pids \ parkedTasks)
    /\ Then(p, <<>>)
    /\ UNCHANGED <<states, zombies, stopped, continued, parkedTasks, marked, due, told, Counts>>

\* A parked task is reaped from where it is parked, any other one is marked.
request_exit(p) ==
    /\ Doing(p, "request_exit")
    /\ LET q == Head(todo[p]).pid
       IN  /\ states' = Without(q)
           /\ parkedTasks' = parkedTasks \ {q}
           /\ IF q \in parkedTasks THEN gone' = gone \cup {q} /\ UNCHANGED marked
              ELSE marked' = marked \cup {q} /\ UNCHANGED gone
    /\ Then(p, <<>>)
    /\ UNCHANGED <<zombies, stopped, continued, due, told, Counts>>

\* The tick finds a marked task running and does not queue it again.
scheduler_tick_irq(q) ==
    /\ q \in marked /\ Running(q)
    /\ marked' = marked \ {q} /\ gone' = gone \cup {q}
    /\ UNCHANGED <<states, zombies, stopped, continued, parkedTasks, todo, due, told, Counts>>

set_exit_code_of(p) ==
    /\ Doing(p, "set_exit_code")
    /\ LET q == Head(todo[p]).pid
       IN  states' = IF q \in Present THEN [states EXCEPT ![q].code = Head(todo[p]).code] ELSE states
    /\ Then(p, <<>>)
    /\ UNCHANGED <<zombies, stopped, continued, parkedTasks, due, told, Counts, Dropping>>

\* What finish_compat_exit does once it has the state of q in hand.
Record(q, s) ==
    (IF s.waitable /\ s.ppid # 0
     THEN <<[op |-> "exited", key |-> [parent |-> s.ppid, child |-> q, code |-> s.code]]>> ELSE <<>>)
    \o <<[op |-> "clear_stopped", key |-> [parent |-> s.ppid, child |-> q]],
         [op |-> "clear_continued", key |-> [parent |-> s.ppid, child |-> q]]>>

\* Mutant: the state is looked up, and removed only after the exit is recorded.
FinishUnclaimed(p) ==
    /\ Doing(p, "finish_compat_exit")
    /\ LET q == Head(todo[p]).pid
       IN  IF q \in Present
           THEN /\ Then(p, Record(q, states[q]) \o <<[op |-> "remove_compat", pid |-> q]>>)
                /\ due' = [due EXCEPT ![q] = IF states[q].waitable THEN {[parent |-> states[q].ppid, code |-> states[q].code]} ELSE @]
           ELSE Then(p, <<>>) /\ UNCHANGED due
    /\ UNCHANGED <<states, zombies, stopped, continued, parkedTasks, told, Counts, Dropping>>
\* Whoever removes the state of q reports its exit.
finish_compat_exit(p) ==
    /\ Doing(p, "finish_compat_exit")
    /\ LET q == Head(todo[p]).pid
       IN  IF q \in Present
           THEN /\ states' = Without(q)
                /\ Then(p, Record(q, states[q]))
                /\ due' = [due EXCEPT ![q] = IF states[q].waitable THEN {[parent |-> states[q].ppid, code |-> states[q].code]} ELSE @]
           ELSE Then(p, <<>>) /\ UNCHANGED <<states, due>>
    /\ UNCHANGED <<zombies, stopped, continued, parkedTasks, told, Counts, Dropping>>

\* The table has one entry for a parent and a child.
Recorded(key) == {z \in zombies : z.parent # key.parent \/ z.child # key.child} \cup {key}

\* The single-lock updates of the three tables of events.
Update(p) ==
    /\ \/ Doing(p, "exited") /\ zombies' = Recorded(Head(todo[p]).key) /\ UNCHANGED <<stopped, continued>>
       \/ Doing(p, "clear_stopped") /\ stopped' = stopped \ {Head(todo[p]).key} /\ UNCHANGED <<zombies, continued>>
       \/ Doing(p, "clear_continued") /\ continued' = continued \ {Head(todo[p]).key} /\ UNCHANGED <<zombies, stopped>>
       \/ Doing(p, "stopped") /\ stopped' = stopped \cup {Head(todo[p]).key} /\ UNCHANGED <<zombies, continued>>
       \/ Doing(p, "continued") /\ continued' = continued \cup {Head(todo[p]).key} /\ UNCHANGED <<zombies, stopped>>
    /\ Then(p, <<>>)
    /\ UNCHANGED <<states, parkedTasks, due, told, Counts, Dropping>>

reporting_parent(q) == IF q \in Present /\ states[q].waitable /\ states[q].ppid # 0 THEN {states[q].ppid} ELSE {}
Steps(q, first, second) ==
    IF reporting_parent(q) = {} THEN <<>>
    ELSE LET key == [parent |-> states[q].ppid, child |-> q]
         IN  <<[op |-> first, key |-> key], [op |-> second, key |-> key]>>

note_child_stopped(p) ==
    /\ Doing(p, "note_child_stopped")
    /\ Then(p, Steps(Head(todo[p]).pid, "stopped", "clear_continued"))
    /\ UNCHANGED <<states, zombies, stopped, continued, parkedTasks, due, told, Counts, Dropping>>

park(p) ==
    /\ Doing(p, "park")
    /\ parkedTasks' = parkedTasks \cup {p}
    /\ Return(p)
    /\ UNCHANGED <<states, zombies, stopped, continued, due, told, Counts, Dropping>>

\* resume_stopped(member), and for a member that was parked note_child_continued.
note_child_continued(p) ==
    /\ Doing(p, "resume")
    /\ LET q == Head(todo[p]).pid
       IN  /\ parkedTasks' = parkedTasks \ {q}
           /\ Then(p, IF q \in parkedTasks THEN Steps(q, "clear_stopped", "continued") ELSE <<>>)
    /\ UNCHANGED <<states, zombies, stopped, continued, due, told, Counts, Dropping>>
----------------------------------------------------------------------------
child_matches(wanted, child) == wanted = -1 \/ child = wanted
Matching(table, p, wanted) == {k \in table : k.parent = p /\ child_matches(wanted, k.child)}
FirstKey(table, p, wanted) ==
    {k \in Matching(table, p, wanted) : \A l \in Matching(table, p, wanted) : k.child <= l.child}

Proceed(p, op) == todo' = [todo EXCEPT ![p] = <<[Head(@) EXCEPT !.op = op]>>]

reap_child(p) ==
    /\ Doing(p, "reap_child")
    /\ \/ \E k \in FirstKey(zombies, p, Head(todo[p]).wanted) :
            /\ zombies' = zombies \ {k}
            /\ told' = [told EXCEPT ![k.child] = Append(@, [parent |-> p, code |-> k.code])]
            /\ Return(p)
       \/ /\ Matching(zombies, p, Head(todo[p]).wanted) = {}
          /\ Proceed(p, "reap_child_stop") /\ UNCHANGED <<zombies, told>>
    /\ UNCHANGED <<states, stopped, continued, parkedTasks, due, Counts, Dropping>>

reap_child_stop(p) ==
    /\ Doing(p, "reap_child_stop")
    /\ LET keys == IF "WUNTRACED" \in Head(todo[p]).options THEN FirstKey(stopped, p, Head(todo[p]).wanted) ELSE {}
       IN  /\ stopped' = stopped \ keys
           /\ IF keys # {} THEN Return(p) ELSE Proceed(p, "reap_child_continued")
    /\ UNCHANGED <<states, zombies, continued, parkedTasks, due, told, Counts, Dropping>>

reap_child_continued(p) ==
    /\ Doing(p, "reap_child_continued")
    /\ LET keys == IF "WCONTINUED" \in Head(todo[p]).options THEN FirstKey(continued, p, Head(todo[p]).wanted) ELSE {}
       IN  /\ continued' = continued \ keys
           /\ IF keys # {} THEN Return(p) ELSE Proceed(p, "has_live_child")
    /\ UNCHANGED <<states, zombies, stopped, parkedTasks, due, told, Counts, Dropping>>

\* has_child looks in COMPAT_STATES, then in EXITED_CHILDREN; ECHILD if in neither.  With
\* a child and without WNOHANG the task yields and looks again, unless a signal ends the wait.
has_child(p) ==
    /\ \/ /\ Doing(p, "has_live_child")
          /\ IF \E q \in Present : states[q].ppid = p /\ child_matches(Head(todo[p]).wanted, q)
             THEN IF "WNOHANG" \in Head(todo[p]).options THEN Return(p) ELSE Proceed(p, "reap_child") \/ Return(p)
             ELSE Proceed(p, "has_zombie")
       \/ /\ Doing(p, "has_zombie")
          /\ IF Matching(zombies, p, Head(todo[p]).wanted) # {} /\ "WNOHANG" \notin Head(todo[p]).options
             THEN Proceed(p, "reap_child") \/ Return(p) ELSE Return(p)
    /\ UNCHANGED <<states, zombies, stopped, continued, parkedTasks, due, told, Counts, Dropping>>

ChildNext ==
    \E p \in Pid :
        \/ \E thread \in BOOLEAN : sys_clone(p, thread)
        \/ begin_group_stop(p)
        \/ \E code \in Code : sys_exit(p, code) \/ sys_exit_group(p, code)
        \/ \E q \in Pid : force_terminate_group(p, q) \/ resume_group(p, q)
        \/ \E wanted \in Wanted, options \in Option : sys_wait4(p, wanted, options)
        \/ remove_compat(p) \/ remove_ready_pids(p) \/ request_exit(p) \/ scheduler_tick_irq(p)
        \/ set_exit_code_of(p) \/ finish_compat_exit(p) \/ Update(p)
        \/ note_child_stopped(p) \/ park(p) \/ note_child_continued(p)
        \/ reap_child(p) \/ reap_child_stop(p) \/ reap_child_continued(p) \/ has_child(p)

ChildSpec == ChildInit /\ [][ChildNext]_childVars
----------------------------------------------------------------------------
\* The exit of c is between the registry and EXITED_CHILDREN, in the hands of a task that
\* still runs or that was dropped there.
InTransit(c) == \E p \in Pid : \E i \in DOMAIN todo[p] : todo[p][i].op = "exited" /\ todo[p][i].key.child = c

\* However many tasks end a process at once, its exit is claimed by one of them
\* (finish_compat_exit), and its parent learns of it through wait4 at most once, from the
\* right parent's entry and with the code it was claimed with.  A claimed exit that is
\* neither in the table nor reported is in the hands of the task that claimed it; only
\* together with that task, dropped between the two locks, can it be lost.
ExitReportedOnce ==
    \A c \in Pid :
        LET waiting == {[parent |-> z.parent, code |-> z.code] : z \in {y \in zombies : y.child = c}}
        IN  /\ Len(told[c]) <= 1
            /\ waiting \cup {told[c][i] : i \in DOMAIN told[c]} = IF InTransit(c) THEN {} ELSE due[c]
            /\ waiting = {} \/ told[c] = <<>>
=============================================================================
