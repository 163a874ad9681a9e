--------------------------- MODULE ProcessProofs ---------------------------
(***************************************************************************)
(* What holds of Children and Creds for every value of their constants.    *)
(*                                                                         *)
(* Children: the exit of a process has one of four fates, nobody claimed   *)
(* it, one task carries it, EXITED_CHILDREN keeps it, or its parent was    *)
(* told; every locked step leads from a fate to itself or to the next.     *)
(*                                                                         *)
(* Creds: the user ids of a process without a 0 among them only ever       *)
(* become fewer, so what it gave up it never gets back.                    *)
(***************************************************************************)
EXTENDS Children, Creds, FiniteSetTheorems, TLAPS

\* The codes a process can end with, the pids a step can name, and the steps.
AnyCode == Code \cup {NoCode, 137}
AnyPid == Pid \cup {InOrder(S)[i] : S \in SUBSET Pid, i \in Nat}
State == [ppid : Pid, tgid : Pid, waitable : BOOLEAN, code : AnyCode]
Zombie == [parent : Pid, child : Pid, code : AnyCode]
Key == [parent : Pid, child : Pid]
Notice == [parent : Pid, code : AnyCode]

PidStep == [op : {"remove_compat", "finish_compat_exit", "note_child_stopped", "park", "resume", "request_exit"},
            pid : AnyPid]
DrainStep == [op : {"remove_ready_pids"}, pids : SUBSET Pid]
CodeStep == [op : {"set_exit_code"}, pid : AnyPid, code : AnyCode]
ExitStep == [op : {"exited"}, key : Zombie]
KeyStep == [op : {"clear_stopped", "clear_continued", "stopped", "continued"}, key : Key]
WaitStep == [op : {"reap_child", "reap_child_stop", "reap_child_continued", "has_live_child", "has_zombie"},
             wanted : Wanted, options : Option]
\* Every step but the one that records an exit.
CleanStep == PidStep \cup DrainStep \cup CodeStep \cup KeyStep \cup WaitStep
ChildStep == CleanStep \cup ExitStep

\* The exit of c, once somebody has claimed it: who carries it, and where it is kept.
Carriers(c) == {p \in Pid : todo[p] \notin Seq(CleanStep) /\ Head(todo[p]).key.child = c}
Kept(c) == {z \in zombies : z.child = c}
Of(z) == [parent |-> z.parent, code |-> z.code]

ChildTyped ==
    /\ Present \subseteq Pid /\ states \in [Present -> State] /\ \A q \in Present : q < nextPid
    /\ nextPid \in Nat \ {0}
    /\ zombies \subseteq Zombie
    /\ due \in [Pid -> SUBSET Notice] /\ told \in [Pid -> Seq(Notice)]
    /\ todo \in [Pid -> Seq(ChildStep)]
    /\ \A p \in Pid : \/ todo[p] \in Seq(CleanStep)
                      \/ Head(todo[p]) \in ExitStep /\ Tail(todo[p]) \in Seq(CleanStep)

\* nobody has claimed the exit of c
Young(c) == due[c] = {} /\ Len(told[c]) = 0 /\ Kept(c) = {} /\ Carriers(c) = {}
Flying(c) == \E p \in Pid : /\ Carriers(c) = {p} /\ due[c] = {Of(Head(todo[p]).key)}
                            /\ Len(told[c]) = 0 /\ Kept(c) = {}
Dead(c) == \E z \in zombies : /\ Kept(c) = {z} /\ due[c] = {Of(z)}
                              /\ Len(told[c]) = 0 /\ Carriers(c) = {}
Reaped(c) == Len(told[c]) = 1 /\ due[c] = {told[c][1]} /\ Kept(c) = {} /\ Carriers(c) = {}
Fate(c) == Young(c) \/ Flying(c) \/ Dead(c) \/ Reaped(c)

ChildInv ==
    /\ ChildTyped
    /\ \A c \in Pid : Fate(c) /\ (c \in Present \/ c >= nextPid => Young(c))

\* Only the step that records an exit in EXITED_CHILDREN is called "exited".
LEMMA Ops ==
    /\ \A x \in CleanStep : x.op # "exited"
    /\ \A x \in ExitStep : x.op = "exited" /\ x.key \in Zombie
<1>1. (\A x \in PidStep : x.op # "exited") /\ (\A x \in DrainStep : x.op # "exited")
  BY DEF PidStep, DrainStep
<1>2. \A x \in CodeStep : x.op # "exited"
  BY DEF CodeStep
<1>3. \A x \in KeyStep : x.op # "exited"
  BY DEF KeyStep
<1>4. \A x \in WaitStep : x.op # "exited"
  BY DEF WaitStep
<1>5. \A x \in ExitStep : x.op = "exited" /\ x.key \in Zombie
  BY DEF ExitStep
<1> QED BY <1>1, <1>2, <1>3, <1>4, <1>5, Zenon DEF CleanStep

\* Two lists of steps make a list of steps.
LEMMA Joined ==
    ASSUME NEW S, NEW a \in Seq(S), NEW b \in Seq(S)
    PROVE  a \o b \in Seq(S)
  OBVIOUS

\* A step that changes one list of steps without an exit, and at most removes states, keeps the invariant.
LEMMA ChildQuiet ==
    ASSUME ChildInv, NEW p \in Pid, NEW new \in Seq(CleanStep), todo[p] \in Seq(CleanStep),
           todo' = [todo EXCEPT ![p] = new],
           Present' \subseteq Present, states' \in [Present' -> State],
           UNCHANGED <<zombies, due, told, nextPid>>
    PROVE  ChildInv'
<1>1. ChildTyped
  BY DEF ChildInv
<1>2. new \in Seq(ChildStep)
  <2>1. CleanStep \subseteq ChildStep
    BY Zenon DEF ChildStep
  <2> QED BY <2>1
<1>3. todo' \in [Pid -> Seq(ChildStep)] /\ todo'[p] = new /\ \A r \in Pid : r # p => todo'[r] = todo[r]
  BY <1>1, <1>2 DEF ChildTyped
<1>4. ChildTyped'
  <2>1. \A q \in Present' : q < nextPid'
    BY <1>1 DEF ChildTyped
  <2>2. \A r \in Pid : todo'[r] \in Seq(CleanStep) \/ (Head(todo'[r]) \in ExitStep /\ Tail(todo'[r]) \in Seq(CleanStep))
    BY <1>1, <1>3, Zenon DEF ChildTyped
  <2>3. Present' \subseteq Pid /\ nextPid' \in Nat \ {0} /\ zombies' \subseteq Zombie
        /\ due' \in [Pid -> SUBSET Notice] /\ told' \in [Pid -> Seq(Notice)]
    BY <1>1 DEF ChildTyped
  <2> QED BY <1>3, <2>1, <2>2, <2>3, Zenon DEF ChildTyped
<1>5. \A c \in Pid : Carriers(c)' = Carriers(c)
  BY <1>3, Zenon DEF Carriers
<1>6. \A c \in Pid : Kept(c)' = Kept(c)
  BY DEF Kept
<1>7. ASSUME NEW c \in Pid PROVE (Young(c) => Young(c)') /\ (Fate(c) => Fate(c)')
  <2>1. Young(c) => Young(c)'
    BY <1>5, <1>6 DEF Young
  <2>2. Reaped(c) => Reaped(c)'
    BY <1>5, <1>6 DEF Reaped
  <2>3. Dead(c) => Dead(c)'
    BY <1>5, <1>6 DEF Dead
  <2>4. ASSUME Flying(c) PROVE Flying(c)'
    <3>1. PICK r \in Pid : /\ Carriers(c) = {r} /\ due[c] = {Of(Head(todo[r]).key)}
                           /\ Len(told[c]) = 0 /\ Kept(c) = {}
      BY <2>4, Zenon DEF Flying
    <3>2. r # p
      BY <3>1 DEF Carriers
    <3>3. todo'[r] = todo[r]
      BY <1>3, <3>2
    <3> QED BY <1>5, <1>6, <3>1, <3>3 DEF Flying
  <2> QED BY <2>1, <2>2, <2>3, <2>4 DEF Fate
<1> QED BY <1>4, <1>7 DEF ChildInv

\* A task in any step but the recording of an exit has no exit to carry.
LEMMA Underway ==
    ASSUME ChildInv, NEW p \in Pid, NEW op, Doing(p, op), op # "exited"
    PROVE  /\ todo[p] \in Seq(CleanStep) /\ Head(todo[p]) \in CleanStep /\ Head(todo[p]).op = op
           /\ Tail(todo[p]) \in Seq(CleanStep)
<1>1. todo[p] # <<>> /\ Head(todo[p]).op = op
  BY DEF Doing
<1>2. todo[p] \in Seq(CleanStep)
  BY <1>1, Ops DEF ChildInv, ChildTyped
<1> QED BY <1>1, <1>2

\* A call that starts without an exit to record keeps the invariant.
LEMMA Called ==
    ASSUME ChildInv, NEW p \in Pid, NEW steps \in Seq(CleanStep), ChildCall(p, steps),
           UNCHANGED <<states, zombies, due, told, nextPid>>
    PROVE  ChildInv'
<1>1. todo[p] = <<>> /\ todo' = [todo EXCEPT ![p] = steps]
  BY Zenon DEF ChildCall, InUser
<1>2. todo[p] \in Seq(CleanStep)
  BY <1>1
<1>3. Present' = Present /\ states' \in [Present' -> State]
  BY DEF Present, ChildInv, ChildTyped
<1> QED BY <1>1, <1>2, <1>3, ChildQuiet, Zenon

\* The list of locked steps in which others of a group are looked at, in the order of their pids.
LEMMA Listed ==
    ASSUME NEW S \in SUBSET Pid, NEW op \in {"remove_compat", "resume", "request_exit"}
    PROVE  Each(S, op) \in Seq(CleanStep)
<1>1. Cardinality(S) \in Nat
  <2>1. IsFiniteSet(Pid)
    BY ChildAssumption, FS_Interval DEF Pid
  <2> QED BY <2>1, FS_Subset, FS_CardinalityType
<1>2. ASSUME NEW i \in 1 .. Cardinality(S) PROVE [op |-> op, pid |-> InOrder(S)[i]] \in CleanStep
  <2>1. InOrder(S)[i] \in AnyPid
    BY <1>1 DEF AnyPid
  <2>2. [op |-> op, pid |-> InOrder(S)[i]] \in PidStep
    BY <2>1 DEF PidStep
  <2> QED BY <2>2, Zenon DEF CleanStep
<1> QED BY <1>1, <1>2 DEF Each

\* exit and exit_group set the code and then finish the process.
LEMMA EndsClean ==
    ASSUME NEW q \in Pid, NEW code \in AnyCode
    PROVE  Ends(q, code) \in Seq(CleanStep)
<1>1. [op |-> "set_exit_code", pid |-> q, code |-> code] \in CodeStep
  BY DEF CodeStep, AnyPid
<1>2. [op |-> "finish_compat_exit", pid |-> q] \in PidStep
  BY DEF PidStep, AnyPid
<1> QED BY <1>1, <1>2 DEF Ends, CleanStep

\* exit, exit_group and force_terminate_group only list what has to be done.
LEMMA ExitsKeep ==
    ASSUME ChildInv, NEW p \in Pid, NEW q \in Present, NEW S \in SUBSET Pid, NEW code \in AnyCode,
           \/ ChildCall(p, Ends(q, code))
           \/ ChildCall(p, Drops(S) \o Ends(q, code))
           \/ ChildCall(p, Each(S, "request_exit") \o Ends(q, code) \o <<[op |-> "request_exit", pid |-> q]>>),
           UNCHANGED <<states, zombies, due, told, nextPid>>
    PROVE  ChildInv'
<1>1. Ends(q, code) \in Seq(CleanStep)
  BY EndsClean DEF ChildInv, ChildTyped
<1>2. Drops(S) \in Seq(CleanStep)
  <2>1. [op |-> "remove_ready_pids", pids |-> S] \in DrainStep
    BY DEF DrainStep
  <2>2. <<[op |-> "remove_ready_pids", pids |-> S]>> \in Seq(CleanStep)
    BY <2>1 DEF CleanStep
  <2>3. Each(S, "remove_compat") \in Seq(CleanStep)
    BY Listed, Zenon
  <2> QED BY <2>2, <2>3, Joined, Zenon DEF Drops
<1>3. Drops(S) \o Ends(q, code) \in Seq(CleanStep)
  BY <1>1, <1>2, Joined, Zenon
<1>4. Each(S, "request_exit") \o Ends(q, code) \o <<[op |-> "request_exit", pid |-> q]>> \in Seq(CleanStep)
  <2>1. [op |-> "request_exit", pid |-> q] \in PidStep
    BY DEF PidStep, AnyPid, ChildInv, ChildTyped
  <2>2. <<[op |-> "request_exit", pid |-> q]>> \in Seq(CleanStep)
    BY <2>1 DEF CleanStep
  <2>3. Each(S, "request_exit") \in Seq(CleanStep)
    BY Listed, Zenon
  <2>4. Each(S, "request_exit") \o Ends(q, code) \in Seq(CleanStep)
    BY <1>1, <2>3, Joined, Zenon
  <2> QED BY <2>2, <2>4, Joined, Zenon
<1> QED BY <1>1, <1>3, <1>4, Called, Zenon

\* The calls of a task, and the stop and continue signals it takes or sends, keep the invariant.
LEMMA CallsKeep ==
    ASSUME ChildInv, NEW p \in Pid,
           \/ begin_group_stop(p)
           \/ \E code \in Code : sys_exit(p, code) \/ sys_exit_group(p, code)
           \/ \E q \in Pid : force_terminate_group(p, q) \/ resume_group(p, q)
           \/ \E wanted \in Wanted, options \in Option : sys_wait4(p, wanted, options)
    PROVE  ChildInv'
<1>1. Present \subseteq Pid
  BY DEF ChildInv, ChildTyped
<1>2. \A q \in Present : OthersOf(q) \in SUBSET Pid
  BY <1>1 DEF OthersOf, ThreadGroup
<1>3. ASSUME begin_group_stop(p) PROVE ChildInv'
  <2>1. /\ ChildCall(p, <<[op |-> "note_child_stopped", pid |-> p], [op |-> "park", pid |-> p]>>)
        /\ UNCHANGED <<states, zombies, due, told, nextPid>>
    BY <1>3, Zenon DEF begin_group_stop
  <2>2. [op |-> "note_child_stopped", pid |-> p] \in PidStep /\ [op |-> "park", pid |-> p] \in PidStep
    BY DEF PidStep, AnyPid
  <2>3. <<[op |-> "note_child_stopped", pid |-> p], [op |-> "park", pid |-> p]>> \in Seq(CleanStep)
    BY <2>2 DEF CleanStep
  <2> QED BY <2>1, <2>3, Called, Zenon
<1>4. ASSUME NEW code \in Code, sys_exit(p, code) \/ sys_exit_group(p, code) PROVE ChildInv'
  <2>1. /\ ChildCall(p, Ends(p, code)) \/ ChildCall(p, Drops(OthersOf(p)) \o Ends(p, code))
        /\ UNCHANGED <<states, zombies, due, told, nextPid>>
    BY <1>4, Zenon DEF sys_exit, sys_exit_group
  <2>2. p \in Present
    BY <2>1, Zenon DEF ChildCall, InUser
  <2>3. code \in AnyCode
    BY Zenon DEF AnyCode
  <2> QED BY <1>2, <2>1, <2>2, <2>3, ExitsKeep, Zenon
<1>5. ASSUME NEW q \in Pid, force_terminate_group(p, q) PROVE ChildInv'
  <2>1. /\ q \in Present
        /\ ChildCall(p, Each(OthersOf(q), "request_exit") \o Ends(q, 137) \o <<[op |-> "request_exit", pid |-> q]>>)
        /\ UNCHANGED <<states, zombies, due, told, nextPid>>
    BY <1>5, Zenon DEF force_terminate_group
  <2>2. 137 \in AnyCode
    BY Zenon DEF AnyCode
  <2> QED BY <1>2, <2>1, <2>2, ExitsKeep, Zenon
<1>6. ASSUME NEW q \in Pid, resume_group(p, q) PROVE ChildInv'
  <2> DEFINE members == ThreadGroup(states[q].tgid) \cap parkedTasks
  <2>1. /\ ChildCall(p, Each(members, "resume"))
        /\ UNCHANGED <<states, zombies, due, told, nextPid>>
    BY <1>6, Zenon DEF resume_group
  <2>2. members \in SUBSET Pid
    BY <1>1 DEF ThreadGroup
  <2> HIDE DEF members
  <2>3. Each(members, "resume") \in Seq(CleanStep)
    BY <2>2, Listed, Zenon
  <2> QED BY <2>1, <2>3, Called, Zenon
<1>7. ASSUME NEW wanted \in Wanted, NEW options \in Option, sys_wait4(p, wanted, options) PROVE ChildInv'
  <2>1. /\ ChildCall(p, <<[op |-> "reap_child", wanted |-> wanted, options |-> options]>>)
        /\ UNCHANGED <<states, zombies, due, told, nextPid>>
    BY <1>7, Zenon DEF sys_wait4
  <2>2. [op |-> "reap_child", wanted |-> wanted, options |-> options] \in WaitStep
    BY DEF WaitStep
  <2>3. <<[op |-> "reap_child", wanted |-> wanted, options |-> options]>> \in Seq(CleanStep)
    BY <2>2 DEF CleanStep
  <2> QED BY <2>1, <2>3, Called, Zenon
<1> QED BY <1>3, <1>4, <1>5, <1>6, <1>7

\* A step that is followed by steps without an exit, by the return or by the next step of wait4 keeps the invariant.
LEMMA Followed ==
    ASSUME ChildInv, NEW p \in Pid, NEW op, Doing(p, op), op # "exited", NEW steps \in Seq(CleanStep),
           Then(p, steps) \/ Return(p) \/ (Head(todo[p]) \in WaitStep /\ \E o : /\ Proceed(p, o)
              /\ o \in {"reap_child", "reap_child_stop", "reap_child_continued", "has_live_child", "has_zombie"}),
           Present' \subseteq Present, states' \in [Present' -> State],
           UNCHANGED <<zombies, due, told, nextPid>>
    PROVE  ChildInv'
<1>1. /\ todo[p] \in Seq(CleanStep) /\ Tail(todo[p]) \in Seq(CleanStep) /\ todo \in [Pid -> Seq(ChildStep)]
  BY Underway DEF ChildInv, ChildTyped
<1>2. CASE Then(p, steps)
  <2>1. todo' = [todo EXCEPT ![p] = steps \o Tail(todo[p])]
    BY <1>1, <1>2 DEF Then
  <2>2. steps \o Tail(todo[p]) \in Seq(CleanStep)
    BY <1>1, Joined, Zenon
  <2> QED BY <1>1, <2>1, <2>2, ChildQuiet, Zenon
<1>3. CASE Return(p)
  <2>1. todo' = [todo EXCEPT ![p] = <<>>] /\ <<>> \in Seq(CleanStep)
    BY <1>3 DEF Return
  <2> QED BY <1>1, <2>1, ChildQuiet, Zenon
<1>4. ASSUME Head(todo[p]) \in WaitStep,
             NEW o \in {"reap_child", "reap_child_stop", "reap_child_continued", "has_live_child", "has_zombie"},
             Proceed(p, o)
      PROVE  ChildInv'
  <2>1. todo' = [todo EXCEPT ![p] = <<[Head(todo[p]) EXCEPT !.op = o]>>]
    BY <1>1, <1>4 DEF Proceed
  <2>2. [Head(todo[p]) EXCEPT !.op = o] \in WaitStep
    BY <1>4 DEF WaitStep
  <2>3. <<[Head(todo[p]) EXCEPT !.op = o]>> \in Seq(CleanStep)
    BY <2>2 DEF CleanStep
  <2> QED BY <1>1, <2>1, <2>3, ChildQuiet, Zenon
<1> QED BY <1>2, <1>3, <1>4, Zenon

\* The registry stays typed when it is left alone.
LEMMA SameStates ==
    ASSUME ChildInv, UNCHANGED states PROVE Present' \subseteq Present /\ states' \in [Present' -> State]
  BY DEF ChildInv, ChildTyped, Present

\* remove_compat leaves the other states as they were.
LEMMA FewerStates ==
    ASSUME ChildInv, NEW q, states' = Without(q)
    PROVE  Present' = Present \ {q} /\ states' \in [Present' -> State]
  BY DEF ChildInv, ChildTyped, Present, Without

\* remove_compat, which drops a thread without a word to the parent, keeps the invariant.
LEMMA RemoveKeeps ==
    ASSUME ChildInv, NEW p \in Pid, remove_compat(p) PROVE ChildInv'
<1>1. /\ Doing(p, "remove_compat") /\ states' = Without(Head(todo[p]).pid) /\ Then(p, <<>>)
      /\ UNCHANGED <<zombies, due, told, nextPid>>
  BY Zenon DEF remove_compat, Counts
<1>2. Present' \subseteq Present /\ states' \in [Present' -> State]
  BY <1>1, FewerStates
<1>3. <<>> \in Seq(CleanStep)
  OBVIOUS
<1> QED BY <1>1, <1>2, <1>3, Followed, "remove_compat" # "exited", Zenon

\* What became of an exit is settled by who carries it, where it is kept and what was told.
LEMMA SameFate ==
    ASSUME NEW c \in Pid, due'[c] = due[c], told'[c] = told[c], Kept(c)' = Kept(c), Carriers(c)' = Carriers(c),
           \A r \in Carriers(c) : todo'[r] = todo[r]
    PROVE  (Young(c) => Young(c)') /\ (Fate(c) => Fate(c)')
<1>1. Young(c) => Young(c)'
  BY DEF Young
<1>2. Reaped(c) => Reaped(c)'
  BY DEF Reaped
<1>3. Dead(c) => Dead(c)'
  BY DEF Dead, Kept
<1>4. Flying(c) => Flying(c)'
  BY DEF Flying
<1> QED BY <1>1, <1>2, <1>3, <1>4, Zenon DEF Fate

\* The invariant is about the registries, the lists of steps and the pids handed out, and about nothing else.
LEMMA StillInv ==
    ASSUME ChildInv, UNCHANGED <<states, zombies, due, told, nextPid, todo>> PROVE ChildInv'
<1>1. Present' = Present /\ \A c \in Pid : Kept(c)' = Kept(c) /\ Carriers(c)' = Carriers(c)
  BY DEF Present, Kept, Carriers
<1>2. ChildTyped'
  BY <1>1 DEF ChildInv, ChildTyped
<1>3. \A c \in Pid : (Young(c) => Young(c)') /\ (Fate(c) => Fate(c)')
  BY <1>1, SameFate, Zenon
<1> QED BY <1>1, <1>2, <1>3, Zenon DEF ChildInv

\* Being dropped, marked or found marked by the tick takes no exit from the task that carries it:
\* remove_ready_pids, request_exit and scheduler_tick_irq keep the invariant.
LEMMA DropsKeep ==
    ASSUME ChildInv, NEW p \in Pid, remove_ready_pids(p) \/ request_exit(p) \/ scheduler_tick_irq(p)
    PROVE  ChildInv'
<1>0. <<>> \in Seq(CleanStep)
  OBVIOUS
<1>1. CASE remove_ready_pids(p)
  <2>1. /\ Doing(p, "remove_ready_pids") /\ Then(p, <<>>)
        /\ UNCHANGED <<states, zombies, due, told, nextPid>>
    BY <1>1, Zenon DEF remove_ready_pids, Counts
  <2>2. "remove_ready_pids" # "exited"
    OBVIOUS
  <2> QED BY <1>0, <2>1, <2>2, SameStates, Followed, Zenon
<1>2. CASE request_exit(p)
  <2>1. /\ Doing(p, "request_exit") /\ states' = Without(Head(todo[p]).pid) /\ Then(p, <<>>)
        /\ UNCHANGED <<zombies, due, told, nextPid>>
    BY <1>2, Zenon DEF request_exit, Counts
  <2>2. Present' \subseteq Present /\ states' \in [Present' -> State]
    BY <2>1, FewerStates
  <2>3. "request_exit" # "exited"
    OBVIOUS
  <2> QED BY <1>0, <2>1, <2>2, <2>3, Followed, Zenon
<1>3. CASE scheduler_tick_irq(p)
  <2>1. UNCHANGED <<states, zombies, due, told, nextPid, todo>>
    BY <1>3, Zenon DEF scheduler_tick_irq, Counts
  <2> QED BY <2>1, StillInv, Zenon
<1> QED BY <1>1, <1>2, <1>3, Zenon

\* set_exit_code keeps the invariant.
LEMMA CodeKeeps ==
    ASSUME ChildInv, NEW p \in Pid, set_exit_code_of(p) PROVE ChildInv'
<1> DEFINE q == Head(todo[p]).pid
<1>1. /\ Doing(p, "set_exit_code") /\ Then(p, <<>>) /\ UNCHANGED <<zombies, due, told, nextPid>>
      /\ states' = IF q \in Present THEN [states EXCEPT ![q].code = Head(todo[p]).code] ELSE states
  BY Zenon DEF set_exit_code_of, Counts
<1>2. Head(todo[p]).code \in AnyCode
  <2>1. Head(todo[p]) \in CleanStep /\ Head(todo[p]).op = "set_exit_code"
    BY <1>1, Underway, "set_exit_code" # "exited"
  <2>2. Head(todo[p]) \in CodeStep
    BY <2>1 DEF CleanStep, PidStep, DrainStep, KeyStep, WaitStep
  <2> QED BY <2>2 DEF CodeStep
<1>3. Present' \subseteq Present /\ states' \in [Present' -> State]
  <2>1. states \in [Present -> State]
    BY DEF ChildInv, ChildTyped
  <2>2. states' \in [Present -> State]
    BY <1>1, <1>2, <2>1 DEF State
  <2>3. Present' = Present
    BY <2>2 DEF Present
  <2> QED BY <2>2, <2>3
<1>4. <<>> \in Seq(CleanStep)
  OBVIOUS
<1> QED BY <1>1, <1>3, <1>4, Followed, "set_exit_code" # "exited", Zenon

\* The notes of a stop and of a continue record no exit.
LEMMA StepsClean ==
    ASSUME ChildInv, NEW q, NEW first \in {"stopped", "clear_stopped"}, NEW second \in {"clear_continued", "continued"}
    PROVE  Steps(q, first, second) \in Seq(CleanStep)
<1>1. CASE reporting_parent(q) = {}
  BY <1>1 DEF Steps
<1>2. CASE reporting_parent(q) # {}
  <2> DEFINE key == [parent |-> states[q].ppid, child |-> q]
  <2>1. q \in Present
    BY <1>2 DEF reporting_parent
  <2>2. q \in Pid /\ states[q].ppid \in Pid
    BY <2>1 DEF ChildInv, ChildTyped, State
  <2>3. key \in Key
    BY <2>2 DEF Key
  <2>4. Steps(q, first, second) = <<[op |-> first, key |-> key], [op |-> second, key |-> key]>>
    BY <1>2, Zenon DEF Steps
  <2> HIDE DEF key
  <2>5. [op |-> first, key |-> key] \in KeyStep /\ [op |-> second, key |-> key] \in KeyStep
    BY <2>3 DEF KeyStep
  <2>6. <<[op |-> first, key |-> key], [op |-> second, key |-> key]>> \in Seq(CleanStep)
    BY <2>5 DEF CleanStep
  <2> QED BY <2>4, <2>6
<1> QED BY <1>1, <1>2

\* A task in a step of wait4 has its arguments at hand.
LEMMA WaitUnderway ==
    ASSUME ChildInv, NEW p \in Pid, NEW op, Doing(p, op),
           op \in {"reap_child", "reap_child_stop", "reap_child_continued", "has_live_child", "has_zombie"}
    PROVE  Head(todo[p]) \in WaitStep
<1>1. op # "exited"
  OBVIOUS
<1>2. Head(todo[p]) \in CleanStep /\ Head(todo[p]).op = op
  BY <1>1, Underway, Zenon
<1> QED BY <1>2 DEF CleanStep, PidStep, DrainStep, CodeStep, KeyStep

\* The tables of stopped and continued children say nothing about exits.
LEMMA EventsKeep ==
    ASSUME ChildInv, NEW p \in Pid,
           \/ Update(p) /\ ~Doing(p, "exited")
           \/ note_child_stopped(p) \/ park(p) \/ note_child_continued(p)
    PROVE  ChildInv'
<1>0. <<>> \in Seq(CleanStep)
  OBVIOUS
<1>1. CASE Update(p) /\ ~Doing(p, "exited")
  <2>1. /\ UNCHANGED <<states, zombies, due, told, nextPid>> /\ Then(p, <<>>)
        /\ \E op : Doing(p, op) /\ op # "exited"
    BY <1>1 DEF Update, Counts
  <2> QED BY <1>0, <2>1, SameStates, Followed, Zenon
<1>2. CASE note_child_stopped(p)
  <2>1. /\ Doing(p, "note_child_stopped") /\ UNCHANGED <<states, zombies, due, told, nextPid>>
        /\ Then(p, Steps(Head(todo[p]).pid, "stopped", "clear_continued"))
    BY <1>2, Zenon DEF note_child_stopped, Counts
  <2>2. Steps(Head(todo[p]).pid, "stopped", "clear_continued") \in Seq(CleanStep)
    BY StepsClean
  <2>3. "note_child_stopped" # "exited"
    OBVIOUS
  <2> QED BY <2>1, <2>2, <2>3, SameStates, Followed, Zenon
<1>3. CASE park(p)
  <2>1. Doing(p, "park") /\ UNCHANGED <<states, zombies, due, told, nextPid>> /\ Return(p)
    BY <1>3, Zenon DEF park, Counts
  <2>2. "park" # "exited"
    OBVIOUS
  <2> QED BY <1>0, <2>1, <2>2, SameStates, Followed, Zenon
<1>4. CASE note_child_continued(p)
  <2> DEFINE steps == IF Head(todo[p]).pid \in parkedTasks
                      THEN Steps(Head(todo[p]).pid, "clear_stopped", "continued") ELSE <<>>
  <2>1. Doing(p, "resume") /\ UNCHANGED <<states, zombies, due, told, nextPid>> /\ Then(p, steps)
    BY <1>4, Zenon DEF note_child_continued, Counts
  <2>2. Steps(Head(todo[p]).pid, "clear_stopped", "continued") \in Seq(CleanStep)
    BY StepsClean
  <2>3. steps \in Seq(CleanStep)
    BY <1>0, <2>2, Zenon
  <2> HIDE DEF steps
  <2>4. "resume" # "exited"
    OBVIOUS
  <2> QED BY <2>1, <2>3, <2>4, SameStates, Followed, Zenon
<1> QED BY <1>1, <1>2, <1>3, <1>4

\* wait4 without an exit to report keeps the invariant.
LEMMA WaitsKeep ==
    ASSUME ChildInv, NEW p \in Pid,
           \/ reap_child(p) /\ UNCHANGED <<zombies, told>> /\ Proceed(p, "reap_child_stop")
           \/ reap_child_stop(p) \/ reap_child_continued(p) \/ has_child(p)
    PROVE  ChildInv'
<1>0. <<>> \in Seq(CleanStep)
  OBVIOUS
<1> DEFINE WaitOps == {"reap_child", "reap_child_stop", "reap_child_continued", "has_live_child", "has_zombie"}
<1>1. ASSUME NEW op \in WaitOps, Doing(p, op), UNCHANGED <<states, zombies, due, told, nextPid>>,
             Return(p) \/ \E o \in WaitOps : Proceed(p, o)
      PROVE  ChildInv'
  <2>1. op # "exited" /\ Head(todo[p]) \in WaitStep
    BY <1>1, WaitUnderway
  <2> QED BY <1>0, <1>1, <2>1, SameStates, Followed, Zenon
<1>2. CASE reap_child(p) /\ UNCHANGED <<zombies, told>> /\ Proceed(p, "reap_child_stop")
  BY <1>1, <1>2, Zenon DEF reap_child, Counts
<1>3. CASE reap_child_stop(p)
  BY <1>1, <1>3, Zenon DEF reap_child_stop, Counts
<1>4. CASE reap_child_continued(p)
  BY <1>1, <1>4, Zenon DEF reap_child_continued, Counts
<1>5. CASE has_child(p)
  BY <1>1, <1>5, Zenon DEF has_child, Counts
<1> QED BY <1>2, <1>3, <1>4, <1>5

\* clone hands out a pid that nobody was told about.
LEMMA CloneKeeps ==
    ASSUME ChildInv, NEW p \in Pid, NEW thread \in BOOLEAN, sys_clone(p, thread) PROVE ChildInv'
<1> DEFINE st == IF thread THEN clone_current_compat(p, nextPid) ELSE fork_current_compat(p, nextPid)
<1>1. /\ p \in Present /\ nextPid \in Pid /\ states' = With(nextPid, st) /\ nextPid' = nextPid + 1
      /\ UNCHANGED <<zombies, todo, due, told>>
  BY Zenon DEF sys_clone, InUser
<1>2. ChildTyped /\ nextPid \in Nat /\ Present \subseteq Pid /\ Pid \subseteq Nat
  BY DEF ChildInv, ChildTyped, Pid
<1>3. st \in State
  <2>1. states[p].tgid \in Pid
    BY <1>1, <1>2 DEF ChildTyped, State
  <2> QED BY <1>1, <2>1 DEF clone_current_compat, fork_current_compat, State, AnyCode
<1> HIDE DEF st
<1>4. Present' = Present \cup {nextPid} /\ states' \in [Present' -> State]
  BY <1>1, <1>2, <1>3 DEF Present, With, ChildTyped
<1>5. ChildTyped'
  <2>1. Present' \subseteq Pid /\ nextPid' \in Nat \ {0} /\ \A q \in Present' : q < nextPid'
    BY <1>1, <1>2, <1>4 DEF ChildTyped
  <2>2. /\ zombies' \subseteq Zombie
        /\ due' \in [Pid -> SUBSET Notice] /\ told' \in [Pid -> Seq(Notice)]
        /\ todo' \in [Pid -> Seq(ChildStep)]
        /\ \A r \in Pid : \/ todo'[r] \in Seq(CleanStep)
                          \/ Head(todo'[r]) \in ExitStep /\ Tail(todo'[r]) \in Seq(CleanStep)
    BY <1>1, <1>2, Zenon DEF ChildTyped
  <2> QED BY <1>4, <2>1, <2>2, Zenon DEF ChildTyped
<1>6. ASSUME NEW c \in Pid PROVE Fate(c)' /\ (c \in Present' \/ c >= nextPid' => Young(c)')
  <2>1. Carriers(c)' = Carriers(c) /\ Kept(c)' = Kept(c)
    BY <1>1 DEF Carriers, Kept
  <2>2. (Young(c) => Young(c)') /\ (Fate(c) => Fate(c)')
    BY <1>1, <2>1, SameFate
  <2>3. c \in Present' \/ c >= nextPid' => c \in Present \/ c >= nextPid
    BY <1>1, <1>2, <1>4
  <2> QED BY <2>2, <2>3 DEF ChildInv
<1> QED BY <1>5, <1>6, Zenon DEF ChildInv

\* The exit that is recorded in EXITED_CHILDREN was carried by one task and is the only one of its process there.
LEMMA ExitedKeeps ==
    ASSUME ChildInv, NEW p \in Pid, Update(p), Doing(p, "exited") PROVE ChildInv'
<1>0. PICK key, d : key = Head(todo[p]).key /\ d = key.child
  OBVIOUS
<1>1. /\ zombies' = Recorded(key) /\ Then(p, <<>>) /\ UNCHANGED <<states, due, told, nextPid>>
  BY <1>0 DEF Update, Doing, Counts
<1>2. ChildTyped
  BY DEF ChildInv
<1>3. /\ Head(todo[p]) \in ExitStep /\ Tail(todo[p]) \in Seq(CleanStep) /\ todo[p] \notin Seq(CleanStep)
  <2>1. todo[p] # <<>> /\ Head(todo[p]).op = "exited"
    BY Zenon DEF Doing
  <2>2. todo[p] \notin Seq(CleanStep)
    BY <2>1, Ops
  <2> QED BY <1>2, <2>2 DEF ChildTyped
<1>4. key \in Zombie /\ d \in Pid /\ p \in Carriers(d)
  <2>1. key \in Zombie
    BY <1>0, <1>3, Ops, ZenonT(30)
  <2> QED BY <1>0, <1>3, <2>1 DEF Zombie, Carriers
<1>5. /\ Carriers(d) = {p} /\ due[d] = {Of(key)} /\ Len(told[d]) = 0 /\ Kept(d) = {}
      /\ d \notin Present /\ ~(d >= nextPid)
  <2>1. Flying(d) /\ ~Young(d)
    BY <1>4 DEF ChildInv, Fate, Young, Dead, Reaped
  <2> QED BY <1>0, <1>4, <2>1, Zenon DEF Flying, ChildInv
<1>6. /\ todo'[p] \in Seq(CleanStep) /\ \A r \in Pid : r # p => todo'[r] = todo[r]
      /\ todo' \in [Pid -> Seq(ChildStep)]
  <2>1. todo' = [todo EXCEPT ![p] = <<>> \o Tail(todo[p])] /\ todo \in [Pid -> Seq(ChildStep)]
    BY <1>1, <1>2 DEF Then, ChildTyped
  <2>2. <<>> \o Tail(todo[p]) \in Seq(CleanStep)
    BY <1>3
  <2>3. CleanStep \subseteq ChildStep
    BY Zenon DEF ChildStep
  <2>4. <<>> \o Tail(todo[p]) \in Seq(ChildStep)
    BY <2>2, <2>3
  <2> QED BY <2>1, <2>2, <2>4, Zenon
<1>7. ChildTyped'
  <2>1. zombies' \subseteq Zombie
    BY <1>1, <1>2, <1>4 DEF Recorded, ChildTyped
  <2>2. Present' \subseteq Pid /\ states' \in [Present' -> State] /\ \A q \in Present' : q < nextPid'
    BY <1>1, <1>2 DEF Present, ChildTyped
  <2>3. \A r \in Pid : \/ todo'[r] \in Seq(CleanStep)
                       \/ Head(todo'[r]) \in ExitStep /\ Tail(todo'[r]) \in Seq(CleanStep)
    BY <1>2, <1>6, Zenon DEF ChildTyped
  <2> QED BY <1>1, <1>2, <1>6, <2>1, <2>2, <2>3, Zenon DEF ChildTyped
<1>8. Carriers(d)' = {} /\ Kept(d)' = {key} /\ key \in zombies'
  <2>1. Carriers(d)' = {}
    BY <1>5, <1>6 DEF Carriers
  <2>2. Kept(d)' = {key} /\ key \in zombies'
    BY <1>0, <1>1, <1>5 DEF Kept, Recorded
  <2> QED BY <2>1, <2>2
<1>9. Dead(d)'
  BY <1>1, <1>4, <1>5, <1>8 DEF Dead
<1>10. ASSUME NEW c \in Pid, c # d PROVE (Young(c) => Young(c)') /\ (Fate(c) => Fate(c)')
  <2>1. p \notin Carriers(c)
    BY <1>0, <1>10 DEF Carriers
  <2>2. Carriers(c)' = Carriers(c) /\ \A r \in Carriers(c) : todo'[r] = todo[r]
    BY <1>6, <2>1, Zenon DEF Carriers
  <2>3. Kept(c)' = Kept(c)
    BY <1>0, <1>1, <1>10 DEF Kept, Recorded
  <2> QED BY <1>1, <2>2, <2>3, SameFate
<1>11. Present' = Present /\ nextPid' = nextPid
  BY <1>1, Zenon DEF Present
<1> QED BY <1>4, <1>5, <1>7, <1>9, <1>10, <1>11 DEF ChildInv, Fate

\* wait4 takes the exit of k.child from the table and reports it; there is no second one.
LEMMA ReapedKeeps ==
    ASSUME ChildInv, NEW p \in Pid, Doing(p, "reap_child"), NEW k \in zombies, k.parent = p,
           zombies' = zombies \ {k}, Return(p),
           told' = [told EXCEPT ![k.child] = Append(@, [parent |-> p, code |-> k.code])],
           UNCHANGED <<states, due, nextPid>>
    PROVE  ChildInv'
<1> DEFINE d == k.child
<1>1. ChildTyped /\ k \in Zombie /\ d \in Pid
  BY Zenon DEF ChildInv, ChildTyped, Zombie
<1>2. todo[p] \in Seq(CleanStep)
  BY Underway, "reap_child" # "exited"
<1>3. /\ todo'[p] \in Seq(CleanStep) /\ \A r \in Pid : r # p => todo'[r] = todo[r]
      /\ todo' \in [Pid -> Seq(ChildStep)]
  <2>1. todo' = [todo EXCEPT ![p] = <<>>] /\ todo \in [Pid -> Seq(ChildStep)]
    BY <1>1 DEF Return, ChildTyped
  <2>2. <<>> \in Seq(CleanStep) /\ <<>> \in Seq(ChildStep)
    OBVIOUS
  <2> QED BY <2>1, <2>2, Zenon
<1>4. Kept(d) = {k} /\ due[d] = {Of(k)} /\ Len(told[d]) = 0 /\ Carriers(d) = {} /\ ~Young(d)
  <2>1. k \in Kept(d)
    BY Zenon DEF Kept
  <2>2. Dead(d) /\ ~Young(d)
    BY <1>1, <2>1 DEF ChildInv, Fate, Young, Flying, Reaped
  <2> QED BY <2>1, <2>2 DEF Dead
<1>5. Of(k) \in Notice /\ Of(k) = [parent |-> p, code |-> k.code]
  BY <1>1 DEF Of, Zombie, Notice
<1>6. /\ told'[d] = Append(told[d], Of(k)) /\ \A c \in Pid : c # d => told'[c] = told[c]
      /\ told' \in [Pid -> Seq(Notice)] /\ told[d] \in Seq(Notice)
  <2>1. told' = [told EXCEPT ![d] = Append(told[d], Of(k))] /\ told \in [Pid -> Seq(Notice)]
    BY <1>1, <1>5, Zenon DEF ChildTyped
  <2>2. Append(told[d], Of(k)) \in Seq(Notice)
    BY <1>1, <1>5, <2>1
  <2> QED BY <1>1, <2>1, <2>2, Zenon
<1>7. Len(told'[d]) = 1 /\ told'[d][1] = Of(k)
  BY <1>4, <1>5, <1>6
<1>8. ChildTyped'
  <2>1. zombies' \subseteq Zombie
    BY <1>1 DEF ChildTyped
  <2>2. Present' \subseteq Pid /\ states' \in [Present' -> State] /\ \A q \in Present' : q < nextPid'
    BY <1>1 DEF Present, ChildTyped
  <2>3. \A r \in Pid : \/ todo'[r] \in Seq(CleanStep)
                       \/ Head(todo'[r]) \in ExitStep /\ Tail(todo'[r]) \in Seq(CleanStep)
    BY <1>1, <1>3, Zenon DEF ChildTyped
  <2> QED BY <1>1, <1>3, <1>6, <2>1, <2>2, <2>3, Zenon DEF ChildTyped
<1>9. \A c \in Pid : Carriers(c)' = Carriers(c) /\ \A r \in Carriers(c) : todo'[r] = todo[r]
  BY <1>2, <1>3, Zenon DEF Carriers
<1>10. Reaped(d)'
  <2>1. Kept(d)' = {}
    BY <1>4, Zenon DEF Kept
  <2> QED BY <1>1, <1>4, <1>7, <1>9, <2>1, Zenon DEF Reaped
<1>11. ASSUME NEW c \in Pid, c # d PROVE (Young(c) => Young(c)') /\ (Fate(c) => Fate(c)')
  <2>1. Kept(c)' = Kept(c)
    BY <1>11 DEF Kept
  <2> QED BY <1>6, <1>9, <1>11, <2>1, SameFate, Zenon
<1>12. Present' = Present /\ nextPid' = nextPid
  BY DEF Present
<1> QED BY <1>1, <1>4, <1>8, <1>10, <1>11, <1>12 DEF ChildInv, Fate

\* The lists that finish_compat_exit leaves to be done.
LEMMA RecordIs ==
    ASSUME NEW q \in Pid, NEW s \in State, NEW rest \in Seq(CleanStep)
    PROVE  LET new == Record(q, s) \o rest
           IN  /\ new \in Seq(ChildStep)
               /\ ~s.waitable => new \in Seq(CleanStep)
               /\ s.waitable => /\ Head(new) \in ExitStep /\ Tail(new) \in Seq(CleanStep)
                                /\ new \notin Seq(CleanStep)
                                /\ Head(new).key = [parent |-> s.ppid, child |-> q, code |-> s.code]
<1> DEFINE key == [parent |-> s.ppid, child |-> q]
           exit == [op |-> "exited", key |-> [parent |-> s.ppid, child |-> q, code |-> s.code]]
           one == [op |-> "clear_stopped", key |-> key]
           two == [op |-> "clear_continued", key |-> key]
<1>1. s.ppid \in Pid /\ s.ppid # 0 /\ s.code \in AnyCode /\ s.waitable \in BOOLEAN
  BY DEF State, Pid
<1>2. one \in CleanStep /\ two \in CleanStep
  <2>1. key \in Key
    BY <1>1 DEF Key
  <2>2. one \in KeyStep /\ two \in KeyStep
    BY <2>1 DEF KeyStep
  <2> QED BY <2>2, Zenon DEF CleanStep
<1>3. exit \in ExitStep /\ exit.key = [parent |-> s.ppid, child |-> q, code |-> s.code]
  BY <1>1 DEF ExitStep, Zombie
<1>4. CASE ~s.waitable
  <2>1. Record(q, s) = <<>> \o <<one, two>>
    BY <1>4, Zenon DEF Record
  <2> HIDE DEF one, two, exit
  <2>2. <<>> \o <<one, two>> \in Seq(CleanStep)
    BY <1>2
  <2>3. Record(q, s) \o rest \in Seq(CleanStep)
    BY <2>1, <2>2, Joined, Zenon
  <2>4. CleanStep \subseteq ChildStep
    BY Zenon DEF ChildStep
  <2> QED BY <1>4, <2>3, <2>4
<1>5. CASE s.waitable
  <2>1. Record(q, s) = <<exit>> \o <<one, two>>
    BY <1>1, <1>5, Zenon DEF Record
  <2> HIDE DEF one, two, exit
  <2> DEFINE new == Record(q, s) \o rest
  <2>2. CleanStep \subseteq ChildStep /\ ExitStep \subseteq ChildStep
    BY Zenon DEF ChildStep
  <2>3. new \in Seq(ChildStep) /\ Len(new) >= 1 /\ Head(new) = exit /\ Tail(new) = <<one, two>> \o rest
    BY <1>2, <1>3, <2>1, <2>2
  <2>4. Tail(new) \in Seq(CleanStep)
    <3>1. <<one, two>> \in Seq(CleanStep)
      BY <1>2
    <3>2. <<one, two>> \o rest \in Seq(CleanStep)
      BY <3>1, Joined, Zenon
    <3> QED BY <2>3, <3>2, Zenon
  <2>5. new \notin Seq(CleanStep)
    BY <1>3, <2>3, Ops
  <2> QED BY <1>3, <1>5, <2>3, <2>4, <2>5
<1> QED BY <1>4, <1>5

\* finish_compat_exit of a process its parent waits for: from here the caller, and nobody
\* else, carries the exit to EXITED_CHILDREN.
LEMMA ClaimKeeps ==
    ASSUME ChildInv, NEW p \in Pid, NEW q \in Present, Doing(p, "finish_compat_exit"),
           states[q].waitable, states' = Without(q), Then(p, Record(q, states[q])),
           due' = [due EXCEPT ![q] = {[parent |-> states[q].ppid, code |-> states[q].code]}],
           UNCHANGED <<zombies, told, nextPid>>
    PROVE  ChildInv'
<1>1. ChildTyped /\ q \in Pid /\ states[q] \in State /\ Young(q)
  BY DEF ChildInv, ChildTyped
<1>2. todo[p] \in Seq(CleanStep) /\ Tail(todo[p]) \in Seq(CleanStep)
  BY Underway, "finish_compat_exit" # "exited"
<1>3. PICK new, key : /\ new = Record(q, states[q]) \o Tail(todo[p])
                      /\ key = [parent |-> states[q].ppid, child |-> q, code |-> states[q].code]
  BY Zenon
<1>4. /\ new \in Seq(ChildStep) /\ Head(new) \in ExitStep /\ Tail(new) \in Seq(CleanStep)
      /\ new \notin Seq(CleanStep) /\ Head(new).key = key
  BY <1>1, <1>2, <1>3, RecordIs, Zenon
<1>5. key \in Zombie /\ key.child = q /\ Of(key) = [parent |-> states[q].ppid, code |-> states[q].code]
      /\ Of(key) \in Notice
  BY <1>1, <1>3 DEF State, Zombie, Of, Notice
<1>6. /\ todo'[p] = new /\ \A r \in Pid : r # p => todo'[r] = todo[r]
      /\ todo' \in [Pid -> Seq(ChildStep)]
  <2>1. todo' = [todo EXCEPT ![p] = new] /\ todo \in [Pid -> Seq(ChildStep)]
    BY <1>1, <1>3, Zenon DEF Then, ChildTyped
  <2> QED BY <1>4, <2>1, Zenon
<1>7. /\ due'[q] = {Of(key)} /\ \A c \in Pid : c # q => due'[c] = due[c]
      /\ due' \in [Pid -> SUBSET Notice]
  <2>1. due' = [due EXCEPT ![q] = {Of(key)}] /\ due \in [Pid -> SUBSET Notice] /\ {Of(key)} \in SUBSET Notice
    BY <1>1, <1>5 DEF ChildTyped
  <2> QED BY <1>1, <2>1, Zenon
<1>8. Present' = Present \ {q} /\ states' \in [Present' -> State]
  BY FewerStates
<1>9. ChildTyped'
  <2>1. Present' \subseteq Pid /\ \A r \in Present' : r < nextPid'
    BY <1>1, <1>8 DEF ChildTyped
  <2>2. \A r \in Pid : \/ todo'[r] \in Seq(CleanStep)
                       \/ Head(todo'[r]) \in ExitStep /\ Tail(todo'[r]) \in Seq(CleanStep)
    BY <1>1, <1>4, <1>6, Zenon DEF ChildTyped
  <2> QED BY <1>1, <1>6, <1>7, <1>8, <2>1, <2>2, Zenon DEF ChildTyped
<1>10. Carriers(q)' = {p}
  <2>1. Carriers(q) = {}
    BY <1>1 DEF Young
  <2>2. \A r \in Pid : r # p => r \notin Carriers(q)'
    BY <1>6, <2>1, Zenon DEF Carriers
  <2>3. p \in Carriers(q)'
    BY <1>4, <1>5, <1>6, ZenonT(30) DEF Carriers
  <2>4. Carriers(q)' \subseteq Pid
    BY ZenonT(30) DEF Carriers
  <2> QED BY <2>2, <2>3, <2>4
<1>11. Flying(q)'
  <2>1. Kept(q)' = {} /\ Len(told'[q]) = 0
    BY <1>1, Zenon DEF Young, Kept
  <2>2. due'[q] = {Of(Head(todo'[p]).key)}
    BY <1>4, <1>6, <1>7, ZenonT(30)
  <2> QED BY <1>10, <2>1, <2>2 DEF Flying, Of
<1>12. ASSUME NEW c \in Pid, c # q PROVE (Young(c) => Young(c)') /\ (Fate(c) => Fate(c)')
  <2>1. p \notin Carriers(c)
    BY <1>2, Zenon DEF Carriers
  <2>2. p \notin Carriers(c)'
    BY <1>4, <1>5, <1>6, <1>12, Zenon DEF Carriers
  <2>3. Carriers(c)' = Carriers(c) /\ \A r \in Carriers(c) : todo'[r] = todo[r]
    BY <1>6, <2>1, <2>2, Zenon DEF Carriers
  <2>4. Kept(c)' = Kept(c)
    BY DEF Kept
  <2> QED BY <1>7, <1>12, <2>3, <2>4, SameFate, Zenon
<1>13. ~(q >= nextPid)
  BY <1>1 DEF ChildTyped, Pid
<1> QED BY <1>1, <1>8, <1>9, <1>11, <1>12, <1>13 DEF ChildInv, Fate

\* finish_compat_exit: whoever finds the state of the process in the registry removes it
\* and, when a parent waits, is the only one to carry the exit.
LEMMA FinishKeeps ==
    ASSUME ChildInv, NEW p \in Pid, finish_compat_exit(p) PROVE ChildInv'
<1>0. PICK q : q = Head(todo[p]).pid
  OBVIOUS
<1>1. Doing(p, "finish_compat_exit") /\ UNCHANGED <<zombies, told, nextPid>>
  BY Zenon DEF finish_compat_exit, Counts
<1>2. CASE q \notin Present
  <2>1. Then(p, <<>>) /\ UNCHANGED <<states, due>>
    BY <1>0, <1>2, Zenon DEF finish_compat_exit
  <2>2. <<>> \in Seq(CleanStep)
    OBVIOUS
  <2> QED BY <1>1, <2>1, <2>2, SameStates, Followed, "finish_compat_exit" # "exited", Zenon
<1>3. CASE q \in Present
  <2>1. /\ states' = Without(q) /\ Then(p, Record(q, states[q]))
        /\ due' = [due EXCEPT ![q] = IF states[q].waitable THEN {[parent |-> states[q].ppid, code |-> states[q].code]} ELSE @]
    BY <1>0, <1>3, Zenon DEF finish_compat_exit
  <2>2. CASE states[q].waitable
    <3>1. due' = [due EXCEPT ![q] = {[parent |-> states[q].ppid, code |-> states[q].code]}]
      BY <2>1, <2>2
    <3> QED BY <1>1, <1>3, <2>1, <2>2, <3>1, ClaimKeeps, Zenon
  <2>3. CASE ~states[q].waitable
    <3>1. due \in [Pid -> SUBSET Notice] /\ q \in Pid /\ states[q] \in State
      BY <1>3 DEF ChildInv, ChildTyped
    <3>2. due' = due
      BY <2>1, <2>3, <3>1
    <3>3. todo[p] \in Seq(CleanStep) /\ Tail(todo[p]) \in Seq(CleanStep)
      BY <1>1, Underway, "finish_compat_exit" # "exited"
    <3>4. Record(q, states[q]) \o Tail(todo[p]) \in Seq(CleanStep)
      BY <2>3, <3>1, <3>3, RecordIs, Zenon
    <3>5. todo' = [todo EXCEPT ![p] = Record(q, states[q]) \o Tail(todo[p])]
      BY <2>1, Zenon DEF Then
    <3>6. Present' \subseteq Present /\ states' \in [Present' -> State]
      BY <2>1, FewerStates
    <3> QED BY <1>1, <3>2, <3>3, <3>4, <3>5, <3>6, ChildQuiet, Zenon
  <2> QED BY <2>2, <2>3
<1> QED BY <1>2, <1>3

\* At the start nobody has ended.
LEMMA ChildInvInit == ChildInit => ChildInv
<1> SUFFICES ASSUME ChildInit PROVE ChildInv
  OBVIOUS
<1>1. Present = {2} /\ {2} \subseteq Pid /\ states[2] = [ppid |-> 1, tgid |-> 2, waitable |-> TRUE, code |-> NoCode]
  BY ChildAssumption DEF ChildInit, Present, Pid
<1>2. states \in [Present -> State]
  <2>1. [ppid |-> 1, tgid |-> 2, waitable |-> TRUE, code |-> NoCode] \in State
    BY ChildAssumption DEF State, Pid, AnyCode
  <2> QED BY <1>1, <2>1 DEF ChildInit
<1>3. \A p \in Pid : todo[p] = <<>> /\ told[p] = <<>> /\ due[p] = {}
  BY DEF ChildInit
<1>4. <<>> \in Seq(CleanStep) /\ <<>> \in Seq(ChildStep) /\ <<>> \in Seq(Notice)
  OBVIOUS
<1>5. todo \in [Pid -> Seq(ChildStep)] /\ told \in [Pid -> Seq(Notice)] /\ due \in [Pid -> SUBSET Notice]
  BY <1>4 DEF ChildInit
<1>6. zombies = {} /\ nextPid = 3
  BY DEF ChildInit
<1>7. ChildTyped
  BY <1>1, <1>2, <1>3, <1>4, <1>5, <1>6 DEF ChildTyped
<1>8. ASSUME NEW c \in Pid PROVE Young(c)
  <2>1. Carriers(c) = {}
    BY <1>3, <1>4, Zenon DEF Carriers
  <2>2. Kept(c) = {}
    BY <1>6 DEF Kept
  <2>3. Len(told[c]) = 0
    BY <1>3
  <2> QED BY <1>3, <2>1, <2>2, <2>3, Zenon DEF Young
<1> QED BY <1>7, <1>8, Zenon DEF ChildInv, Fate

\* Every step of the calls that create, end and await processes keeps the invariant.
LEMMA ChildNextKeeps == ChildInv /\ [ChildNext]_childVars => ChildInv'
<1> SUFFICES ASSUME ChildInv, [ChildNext]_childVars PROVE ChildInv'
  OBVIOUS
<1>1. CASE UNCHANGED childVars
  BY <1>1, StillInv, Zenon DEF childVars
<1>2. CASE ChildNext
  <2> PICK p \in Pid :
        \/ \E thread \in BOOLEAN : sys_clone(p, thread)
        \/ begin_group_stop(p)
        \/ \E code \in Code : sys_exit(p, code) \/ sys_exit_group(p, code)
        \/ \E q \in Pid : force_terminate_group(p, q) \/ resume_group(p, q)
        \/ \E wanted \in Wanted, options \in Option : sys_wait4(p, wanted, options)
        \/ remove_compat(p) \/ remove_ready_pids(p) \/ request_exit(p) \/ scheduler_tick_irq(p)
        \/ set_exit_code_of(p) \/ finish_compat_exit(p) \/ Update(p)
        \/ note_child_stopped(p) \/ park(p) \/ note_child_continued(p)
        \/ reap_child(p) \/ reap_child_stop(p) \/ reap_child_continued(p) \/ has_child(p)
    BY <1>2, Zenon DEF ChildNext
  <2>1. CASE \E thread \in BOOLEAN : sys_clone(p, thread)
    BY <2>1, CloneKeeps, Zenon
  <2>2. CASE remove_compat(p) \/ set_exit_code_of(p) \/ finish_compat_exit(p)
    BY <2>2, RemoveKeeps, CodeKeeps, FinishKeeps, Zenon
  <2>0. CASE remove_ready_pids(p) \/ request_exit(p) \/ scheduler_tick_irq(p)
    BY <2>0, DropsKeep, Zenon
  <2>3. CASE Update(p)
    BY <2>3, ExitedKeeps, EventsKeep, Zenon
  <2>4. CASE note_child_stopped(p) \/ park(p) \/ note_child_continued(p)
    BY <2>4, EventsKeep, Zenon
  <2>5. CASE reap_child_stop(p) \/ reap_child_continued(p) \/ has_child(p)
    BY <2>5, WaitsKeep, Zenon
  <2>6. CASE reap_child(p)
    <3>1. Doing(p, "reap_child") /\ UNCHANGED <<states, due, nextPid>>
      BY <2>6, Zenon DEF reap_child, Counts
    <3>2. CASE UNCHANGED <<zombies, told>> /\ Proceed(p, "reap_child_stop")
      BY <2>6, <3>2, WaitsKeep, Zenon
    <3>3. CASE ~(UNCHANGED <<zombies, told>> /\ Proceed(p, "reap_child_stop"))
      <4>1. PICK k \in FirstKey(zombies, p, Head(todo[p]).wanted) :
              /\ zombies' = zombies \ {k}
              /\ told' = [told EXCEPT ![k.child] = Append(@, [parent |-> p, code |-> k.code])]
              /\ Return(p)
        BY <2>6, <3>3, Zenon DEF reap_child
      <4>2. k \in zombies /\ k.parent = p
        BY Zenon DEF FirstKey, Matching
      <4> QED BY <3>1, <4>1, <4>2, ReapedKeeps, Zenon
    <3> QED BY <3>2, <3>3
  <2> QED BY <2>0, <2>1, <2>2, <2>3, <2>4, <2>5, <2>6, CallsKeep, Zenon
<1> QED BY <1>1, <1>2

\* An exit is on its way exactly while a task carries it.
LEMMA TransitIs ==
    ASSUME ChildInv, NEW c \in Pid PROVE InTransit(c) <=> Carriers(c) # {}
<1>1. ASSUME NEW p \in Pid
      PROVE  p \in Carriers(c) <=> \E i \in DOMAIN todo[p] : todo[p][i].op = "exited" /\ todo[p][i].key.child = c
  <2>1. CASE todo[p] \in Seq(CleanStep)
    <3>1. \A i \in DOMAIN todo[p] : todo[p][i].op # "exited"
      BY <2>1, Ops
    <3> QED BY <2>1, <3>1, Zenon DEF Carriers
  <2>2. CASE todo[p] \notin Seq(CleanStep)
    <3>1. /\ todo[p] \in Seq(ChildStep) /\ Head(todo[p]) \in ExitStep /\ Tail(todo[p]) \in Seq(CleanStep)
          /\ todo[p] # <<>>
      <4>1. /\ todo[p] \in Seq(ChildStep) /\ Head(todo[p]) \in ExitStep /\ Tail(todo[p]) \in Seq(CleanStep)
        BY <2>2, Zenon DEF ChildInv, ChildTyped
      <4>2. <<>> \in Seq(CleanStep)
        OBVIOUS
      <4> QED BY <2>2, <4>1, <4>2, Zenon
    <3>2. 1 \in DOMAIN todo[p] /\ todo[p][1] = Head(todo[p])
      BY <3>1
    <3>3. \A i \in DOMAIN todo[p] : i = 1 \/ todo[p][i] \in CleanStep
      <4> TAKE i \in DOMAIN todo[p]
      <4>1. i # 1 => i - 1 \in 1 .. Len(Tail(todo[p])) /\ todo[p][i] = Tail(todo[p])[i - 1]
        BY <3>1
      <4> QED BY <3>1, <4>1
    <3>4. Head(todo[p]).op = "exited"
      BY <3>1, Ops
    <3>5. \A i \in DOMAIN todo[p] : todo[p][i].op = "exited" => i = 1
      BY <3>3, Ops, Zenon
    <3> QED BY <2>2, <3>2, <3>4, <3>5, Zenon DEF Carriers
  <2> QED BY <2>1, <2>2
<1>2. Carriers(c) \subseteq Pid
  BY ZenonT(30) DEF Carriers
<1> QED BY <1>1, <1>2, Zenon DEF InTransit

\* The four fates leave an exit in one place at a time, with the code it was claimed with.
LEMMA ReportedOnce == ChildInv => ExitReportedOnce
<1> SUFFICES ASSUME ChildInv, NEW c \in Pid
    PROVE  LET waiting == {[parent |-> z.parent, code |-> z.code] : z \in {y \in zombies : y.child = c}}
           IN  /\ Len(told[c]) <= 1
               /\ waiting \cup {told[c][i] : i \in DOMAIN told[c]} = IF InTransit(c) THEN {} ELSE due[c]
               /\ waiting = {} \/ told[c] = <<>>
  BY Zenon DEF ExitReportedOnce
<1> DEFINE waiting == {[parent |-> z.parent, code |-> z.code] : z \in {y \in zombies : y.child = c}}
           heard == {told[c][i] : i \in DOMAIN told[c]}
<1>1. waiting = {Of(z) : z \in Kept(c)}
  BY DEF Of, Kept
<1>2. told[c] \in Seq(Notice)
  BY DEF ChildInv, ChildTyped
<1>3. Len(told[c]) = 0 => heard = {} /\ told[c] = <<>>
  BY <1>2
<1>4. Len(told[c]) = 1 => heard = {told[c][1]}
  BY <1>2
<1>5. InTransit(c) <=> Carriers(c) # {}
  BY TransitIs
<1> HIDE DEF waiting, heard
<1>6. CASE Young(c)
  <2>1. waiting = {} /\ Len(told[c]) = 0 /\ due[c] = {}
    BY <1>1, <1>6, Zenon DEF Young
  <2> QED BY <1>3, <2>1 DEF waiting, heard
<1>7. CASE Flying(c)
  <2>1. waiting = {} /\ Len(told[c]) = 0 /\ Carriers(c) # {}
    BY <1>1, <1>7, Zenon DEF Flying
  <2> QED BY <1>3, <1>5, <2>1 DEF waiting, heard
<1>8. CASE Dead(c)
  <2>1. waiting = due[c] /\ Len(told[c]) = 0 /\ Carriers(c) = {}
    BY <1>1, <1>8, Zenon DEF Dead
  <2> QED BY <1>3, <1>5, <2>1 DEF waiting, heard
<1>9. CASE Reaped(c)
  <2>1. waiting = {} /\ Len(told[c]) = 1 /\ Carriers(c) = {} /\ due[c] = {told[c][1]}
    BY <1>1, <1>9 DEF Reaped
  <2> QED BY <1>4, <1>5, <2>1 DEF waiting, heard
<1> QED BY <1>6, <1>7, <1>8, <1>9, Zenon DEF ChildInv, Fate

\* For any number of pids, any exit codes and any arguments of wait4: however many tasks end a
\* process at once, one of them claims the exit, and wait4 reports it at most once and with the
\* code it was claimed with.  Until then it is in EXITED_CHILDREN or with the task that claimed
\* it; the theorem does not say that this task lives to record it, for a tick may drop it first.
THEOREM ExitReportedOnceHolds == ChildSpec => []ExitReportedOnce
<1>1. ChildSpec => []ChildInv
  BY ChildInvInit, ChildNextKeeps, PTL DEF ChildSpec
<1> QED BY <1>1, ReportedOnce, PTL
----------------------------------------------------------------------------
\* The ids of a process: 0, or one that a call named.
UserId == CredUid \cup {0}
Cred == [uid : UserId, euid : UserId, suid : UserId, gid : CredGid \cup {0}, egid : CredGid \cup {0}, sgid : CredGid \cup {0}]

\* What is settled about a process was settled without a 0, and its ids are among it.
CredInv ==
    /\ creds \in [CredProc -> Cred \cup {Absent}]
    /\ owned \in [CredProc -> SUBSET UserId]
    /\ \A p \in CredProc : owned[p] # {} => 0 \notin owned[p] /\ Uids(creds[p]) \subseteq owned[p]

\* What the rules allow: the result of a set*id call of a process none of whose
\* user ids is 0 has no user id that the process did not have.
Within(c, d) == d \in Cred /\ (0 \notin Uids(c) => Uids(d) \subseteq Uids(c))

\* setuid gives no process without the user id 0 an id it did not have.
LEMMA SetuidWithin ==
    ASSUME NEW c \in Cred, NEW id \in CredUid, NEW d \in setuid(c, id) PROVE Within(c, d)
  BY Zenon DEF setuid, Within, Uids, Cred, UserId

\* setgid changes no user id.
LEMMA SetgidWithin ==
    ASSUME NEW c \in Cred, NEW id \in CredGid, NEW d \in setgid(c, id) PROVE Within(c, d)
  BY Zenon DEF setgid, Within, Uids, Cred, UserId

\* Nor does setreuid, which takes ids from the real, effective and saved one.
LEMMA SetreuidWithin ==
    ASSUME NEW c \in Cred, NEW u \in CredUid \cup {None}, NEW e \in CredUid \cup {None},
           NEW d \in setreuid(c, u, e)
    PROVE  Within(c, d)
  BY ZenonT(30) DEF setreuid, Within, Uids, Cred, UserId, Or

\* setregid changes no user id.
LEMMA SetregidWithin ==
    ASSUME NEW c \in Cred, NEW g \in CredGid \cup {None}, NEW e \in CredGid \cup {None},
           NEW d \in setregid(c, g, e)
    PROVE  Within(c, d)
  BY ZenonT(30) DEF setregid, Within, Uids, Cred, UserId, Or

\* Nor does setresuid give one, each of the three ids having to be one of the three.
LEMMA SetresuidWithin ==
    ASSUME NEW c \in Cred, NEW u \in CredUid \cup {None}, NEW e \in CredUid \cup {None},
           NEW s \in CredUid \cup {None}, NEW d \in setresuid(c, u, e, s)
    PROVE  Within(c, d)
  BY ZenonT(30) DEF setresuid, Within, Uids, Cred, UserId, Or

\* setresgid changes no user id.
LEMMA SetresgidWithin ==
    ASSUME NEW c \in Cred, NEW g \in CredGid \cup {None}, NEW e \in CredGid \cup {None},
           NEW s \in CredGid \cup {None}, NEW d \in setresgid(c, g, e, s)
    PROVE  Within(c, d)
  BY ZenonT(30) DEF setresgid, Within, Uids, Cred, UserId, Or

\* commit_creds with a result the rules allow keeps what is settled about the process.
LEMMA CommitKeeps ==
    ASSUME CredInv, NEW p \in CredProc, NEW allowed, commit_creds(p, allowed),
           \A d \in allowed : creds[p] \in Cred => Within(creds[p], d)
    PROVE  CredInv'
<1>1. PICK c \in allowed : /\ creds' = [creds EXCEPT ![p] = c]
                           /\ owned' = [owned EXCEPT ![p] = Settled(p, c)]
  BY Zenon DEF commit_creds
<1>2. creds[p] \in Cred
  BY DEF commit_creds, CredCall, Alive, CredInv
<1>3. c \in Cred /\ (0 \notin Uids(creds[p]) => Uids(c) \subseteq Uids(creds[p]))
  BY <1>1, <1>2 DEF Within
<1>4. Uids(c) \subseteq UserId /\ Uids(c) # {}
  BY <1>3 DEF Uids, Cred
<1>5. /\ Settled(p, c) \in SUBSET UserId
      /\ Settled(p, c) # {} => 0 \notin Settled(p, c) /\ Uids(c) \subseteq Settled(p, c)
  BY <1>3, <1>4, Zenon DEF CredInv, Settled
<1>6. creds' \in [CredProc -> Cred \cup {Absent}] /\ owned' \in [CredProc -> SUBSET UserId]
  BY <1>1, <1>3, <1>5, Zenon DEF CredInv
<1>7. ASSUME NEW q \in CredProc, owned'[q] # {}
      PROVE  0 \notin owned'[q] /\ Uids(creds'[q]) \subseteq owned'[q]
  <2>1. CASE q = p
    <3>1. creds'[q] = c /\ owned'[q] = Settled(p, c)
      BY <1>1, <2>1 DEF CredInv
    <3> QED BY <1>5, <1>7, <3>1
  <2>2. CASE q # p
    <3>1. creds'[q] = creds[q] /\ owned'[q] = owned[q]
      BY <1>1, <2>2 DEF CredInv
    <3> QED BY <1>7, <3>1 DEF CredInv
  <2> QED BY <2>1, <2>2
<1> QED
  <2>1. \A q \in CredProc : owned'[q] # {} => 0 \notin owned'[q] /\ Uids(creds'[q]) \subseteq owned'[q]
    BY <1>7
  <2> QED BY <1>6, <2>1 DEF CredInv, Uids

\* fork hands the credentials on, and with them what is settled.
LEMMA ForkKeeps ==
    ASSUME CredInv, NEW p \in CredProc, NEW q \in CredProc, fork(p, q)
    PROVE  CredInv'
<1>1. creds' = [creds EXCEPT ![q] = creds[p]] /\ owned' = [owned EXCEPT ![q] = owned[p]]
  BY DEF fork
<1>2. creds' \in [CredProc -> Cred \cup {Absent}] /\ owned' \in [CredProc -> SUBSET UserId]
  BY <1>1 DEF CredInv
<1>3. \A r \in CredProc : owned'[r] # {} => 0 \notin owned'[r] /\ Uids(creds'[r]) \subseteq owned'[r]
  BY <1>1 DEF CredInv, Uids
<1> QED BY <1>2, <1>3 DEF CredInv, Uids

\* Every call of cred.rs and of the file mode calls keeps the invariant.
LEMMA CredNextKeeps == CredInv /\ [CredNext]_credVars => CredInv'
<1> SUFFICES ASSUME CredInv, [CredNext]_credVars PROVE CredInv'
  OBVIOUS
<1>1. CASE creds' = creds /\ owned' = owned
  BY <1>1 DEF CredInv, Uids
<1>2. ASSUME NEW p \in CredProc, sys_setuid(p) PROVE CredInv'
  BY <1>2, SetuidWithin, CommitKeeps, Zenon DEF sys_setuid
<1>3. ASSUME NEW p \in CredProc, sys_setgid(p) PROVE CredInv'
  BY <1>3, SetgidWithin, CommitKeeps, Zenon DEF sys_setgid
<1>4. ASSUME NEW p \in CredProc, sys_setreuid(p) PROVE CredInv'
  <2>1. PICK u, e \in CredUid \cup {None} : commit_creds(p, setreuid(creds[p], u, e))
    BY <1>4, Zenon DEF sys_setreuid
  <2> QED BY <2>1, SetreuidWithin, CommitKeeps, Zenon
<1>5. ASSUME NEW p \in CredProc, sys_setregid(p) PROVE CredInv'
  <2>1. PICK g, e \in CredGid \cup {None} : commit_creds(p, setregid(creds[p], g, e))
    BY <1>5, Zenon DEF sys_setregid
  <2> QED BY <2>1, SetregidWithin, CommitKeeps, Zenon
<1>6. ASSUME NEW p \in CredProc, sys_setresuid(p) PROVE CredInv'
  <2>1. PICK u, e, s \in CredUid \cup {None} : commit_creds(p, setresuid(creds[p], u, e, s))
    BY <1>6, Zenon DEF sys_setresuid
  <2>2. \A d \in setresuid(creds[p], u, e, s) : creds[p] \in Cred => Within(creds[p], d)
    BY SetresuidWithin
  <2> QED BY <2>1, <2>2, CommitKeeps, Zenon
<1>7. ASSUME NEW p \in CredProc, sys_setresgid(p) PROVE CredInv'
  <2>1. PICK g, e, s \in CredGid \cup {None} : commit_creds(p, setresgid(creds[p], g, e, s))
    BY <1>7, Zenon DEF sys_setresgid
  <2>2. \A d \in setresgid(creds[p], g, e, s) : creds[p] \in Cred => Within(creds[p], d)
    BY SetresgidWithin
  <2> QED BY <2>1, <2>2, CommitKeeps, Zenon
<1>8. ASSUME NEW p \in CredProc, NEW q \in CredProc, fork(p, q) PROVE CredInv'
  BY <1>8, ForkKeeps
<1>9. ASSUME NEW p \in CredProc,
             \/ \E m \in Mode : sys_chmod(p, m) \/ create_file(p, m)
             \/ \E u \in CredUid \cup {None}, g \in CredGid \cup {None} : sys_chown(p, u, g)
             \/ sys_unlink(p)
      PROVE  CredInv'
  BY <1>1, <1>9 DEF sys_chmod, create_file, sys_chown, sys_unlink
<1>10. CASE UNCHANGED credVars
  BY <1>1, <1>10 DEF credVars
<1> QED
  BY <1>2, <1>3, <1>4, <1>5, <1>6, <1>7, <1>8, <1>9, <1>10 DEF CredNext

\* For any processes, users and groups: a process that has got rid of the user id 0 in all
\* three ids of its credentials, and every process it forks, never gets another user id than those it kept.
THEOREM GivenUpForGoodHolds == CredSpec => []GivenUpForGood
<1>1. CredInit => CredInv
  BY DEF CredInit, CredInv, ROOT, Cred, UserId
<1>2. CredInv => GivenUpForGood
  BY DEF CredInv, GivenUpForGood
<1> QED BY <1>1, <1>2, CredNextKeeps, PTL DEF CredSpec
=============================================================================
