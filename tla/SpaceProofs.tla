---------------------------- MODULE SpaceProofs ----------------------------
(***************************************************************************)
(* Proofs, for every value of the constants, of what the scheduler does    *)
(* with address spaces: none is freed in use or twice (FreedUnused), and   *)
(* none is forgotten (SpaceAccounted).                                     *)
(***************************************************************************)
EXTENDS SchedulerProofs

StopLabels == {"stop", "group_stop", "stop_ready", "park", "park_frame",
               "stop_yield", "unrequest", "pend_reap", "requeue"}

\* Without stop signals nothing is parked or about to be.
Calm ==
    /\ stopped = {} /\ stopReq = {}
    /\ \A p \in Pid : /\ held[p] = {} /\ "stop" \notin pending[p]
                      /\ pc[p] \notin StopLabels

\* A space has been built before anything has it, and a freed one has no user
\* and no pending reap.
Built == \A s \in freed \cup Spaces(ready) \cup Spaces(reaps) \cup {cr3} : s < nextSpace
Dropped == freed \cap (Spaces(ready) \cup Spaces(reaps) \cup {cr3}) = {}
Use == Built /\ Dropped /\ Unique(reaps)
UseInv == IInv /\ Calm /\ Use
----------------------------------------------------------------------------
(* The operators on queues, by the address spaces in them.                 *)

\* Renumbering keeps the address spaces.
LEMMA RenumberSpaces ==
    ASSUME NEW q, QueueOK(q)
    PROVE  Spaces(Renumber(q)) = Spaces(q)
<1> DEFINE F(e) == [e EXCEPT !.slot = 1 + Cardinality({g \in q : g.slot < e.slot})]
<1>1. Renumber(q) = {F(e) : e \in q}
  BY DEF Renumber
<1>2. \A e \in q : F(e).cr3 = e.cr3
  BY DEF QueueOK, Entry
<1> HIDE DEF F
<1> QED
  BY <1>1, <1>2 DEF Spaces

\* A push adds the frame's address space, unless the task was queued.
LEMMA EnqueueSpaces ==
    ASSUME NEW q, NEW f
    PROVE  /\ Spaces(Enqueue(q, f)) \subseteq Spaces(q) \cup {f.cr3}
           /\ Spaces(q) \subseteq Spaces(Enqueue(q, f))
           /\ f.pid \notin Pids(q) => f.cr3 \in Spaces(Enqueue(q, f))
<1> DEFINE e == [pid |-> f.pid, cr3 |-> f.cr3, slot |-> Cardinality(q) + 1]
<1>1. e.cr3 = f.cr3
  OBVIOUS
<1>2. Enqueue(q, f) = IF f.pid \in Pids(q) THEN q ELSE q \cup {e}
  BY DEF Enqueue
<1> HIDE DEF e
<1> QED
  BY <1>1, <1>2 DEF Spaces

\* A pop takes out one of the address spaces at most.
LEMMA PopSpaces ==
    ASSUME NEW q, QueueOK(q), NEW e \in Front(q)
    PROVE  /\ e.cr3 \in Spaces(q)
           /\ Spaces(Renumber(q \ {e})) \subseteq Spaces(q)
           /\ Spaces(q) \subseteq Spaces(Renumber(q \ {e})) \cup {e.cr3}
<1>1. e \in q /\ QueueOK(q \ {e})
  BY DEF Front, QueueOK, Unique
<1>2. Spaces(Renumber(q \ {e})) = Spaces(q \ {e})
  BY <1>1, RenumberSpaces
<1> QED
  BY <1>1, <1>2, Zenon DEF Spaces

\* A drain adds no address space.
LEMMA DrainSpaces ==
    ASSUME NEW q, QueueOK(q), NEW pids
    PROVE  Spaces(Drained(q, pids)) = Spaces({e \in q : e.pid \notin pids})
<1>1. QueueOK({e \in q : e.pid \notin pids})
  BY DEF QueueOK, Unique
<1> QED
  BY <1>1, RenumberSpaces DEF Drained
----------------------------------------------------------------------------
(* Nothing is freed in use.                                                *)

\* The switch loads an address space of the queue or keeps the loaded one.
LEMMA DispatchSpaces ==
    ASSUME NEW q, QueueOK(q), Dispatch(q)
    PROVE  /\ Spaces(ready') \subseteq Spaces(q)
           /\ cr3' \in Spaces(q) \cup {cr3}
           /\ Spaces(q) \subseteq Spaces(ready') \cup {cr3'}
           /\ q # {} => cur' # Idle
<1>1. CASE q = {} /\ cur' = Idle /\ ready' = {} /\ UNCHANGED cr3
  BY <1>1 DEF Spaces
<1>2. ASSUME NEW e \in Front(q),
             cur' = e.pid, cr3' = e.cr3, ready' = Renumber(q \ {e})
      PROVE  /\ Spaces(ready') \subseteq Spaces(q)
             /\ cr3' \in Spaces(q)
             /\ Spaces(q) \subseteq Spaces(ready') \cup {cr3'}
             /\ cur' # Idle
  <2>1. e.pid \in Pid
    BY PopTakes, Zenon
  <2>2. e.pid # Idle
    BY <2>1 DEF Pid, Idle
  <2> QED
    BY <1>2, <2>2, PopSpaces
<1> QED
  BY <1>1, <1>2, Zenon DEF Dispatch

\* The tail of a tick over a queue and pending reaps that have no other spaces
\* than the interrupted state had frees only what nothing has any more.
LEMMA TickUse ==
    ASSUME IInv, Use, NEW q, QueueOK(q), NEW rs \in SUBSET FrameSet, Unique(rs),
           TickTail(q, rs),
           Spaces(q) \subseteq Spaces(ready) \cup {cr3},
           Spaces(rs) \subseteq Spaces(reaps) \cup {cr3}
    PROVE  Use'
<1>1. /\ Spaces(ready') \subseteq Spaces(q) /\ cr3' \in Spaces(q) \cup {cr3}
      /\ nextSpace' = nextSpace
  BY DispatchSpaces DEF TickTail
<1> DEFINE late == {f \in rs : f.pid # cur}
<1>2. CASE late = {}
  <2>1. reaps' = rs /\ freed' = freed
    BY <1>2 DEF TickTail, ReapOne
  <2> QED
    BY <1>1, <2>1 DEF Use, Built, Dropped
<1>3. CASE late # {}
  <2>1. PICK f \in late :
            /\ reaps' = rs \ {f}
            /\ freed' = IF Exclusive(f, q, rs) THEN freed \cup {f.cr3} ELSE freed
    BY <1>3 DEF TickTail, ReapOne
  <2>2. f \in rs /\ f.cr3 \in Spaces(rs) /\ Spaces(rs \ {f}) \subseteq Spaces(rs)
    BY DEF Spaces
  <2>3. Unique(reaps')
    BY <2>1 DEF Unique
  <2>4. Exclusive(f, q, rs) =>
            f.cr3 # cr3 /\ f.cr3 \notin Spaces(q) /\ f.cr3 \notin Spaces(rs \ {f})
    BY <2>2 DEF Exclusive, Unique, Spaces
  <2>5. Built'
    BY <1>1, <2>1, <2>2 DEF Use, Built
  <2>6. Dropped'
    BY <1>1, <2>1, <2>2, <2>4, Zenon DEF Use, Dropped
  <2> QED
    BY <2>3, <2>5, <2>6 DEF Use
<1> QED
  BY <1>2, <1>3

\* The timer tick frees only what nothing has any more.
LEMMA TickKeepsUse ==
    ASSUME UseInv, Tick
    PROVE  Use'
<1>0. /\ QueueOK(ready) /\ reaps \in SUBSET FrameSet /\ Unique(reaps)
      /\ IInv /\ Use /\ stopped = {} /\ stopReq = {}
      /\ cur # Idle => Self \in FrameSet /\ Self.pid = cur /\ Self.cr3 = cr3
      /\ cur \notin Pids(reaps)
  <2>1. QueueOK(ready) /\ (cur # Idle => Self \in FrameSet)
    BY Places DEF UseInv
  <2>2. reaps \in SUBSET FrameSet /\ cur \notin Pids(reaps)
    BY Zenon DEF UseInv, IInv, TypeOK, OneFrame, Gone
  <2> QED
    BY <2>1, <2>2, Zenon DEF UseInv, Use, Calm, Self, Frame
<1>1. CASE TickIdle
  BY <1>0, <1>1, TickUse DEF TickIdle
<1>2. CASE TickExiting
  <2> DEFINE rs == Without(reaps, cur) \cup {Self}
  <2>1. /\ rs \in SUBSET FrameSet /\ Unique(rs)
        /\ Spaces(rs) \subseteq Spaces(reaps) \cup {cr3}
    BY <1>0, <1>2 DEF TickExiting, Without, Unique, Spaces
  <2>2. TickTail(ready, rs)
    BY <1>2 DEF TickExiting
  <2> HIDE DEF rs
  <2> QED
    BY <1>0, <2>1, <2>2, TickUse
<1>3. CASE TickKill
  <2> DEFINE rs == {f \in reaps : f.pid # cur} \cup {Self}
  <2>1. TickTail(ready, rs) /\ cur # Idle
    <3> DEFINE group == GroupPids(tgid[cur])
               parked == {f \in stopped : f.pid \in group \ {cur}}
               old == {f \in reaps : f.pid \notin Pids(parked) \cup {cur}}
                          \cup parked \cup {Self}
    <3>1. TickTail(ready, old) /\ cur # Idle
      BY <1>3 DEF TickKill, Undisturbed
    <3>2. parked = {}
      BY <1>0
    <3>3. old = rs
      BY <3>2 DEF Pids
    <3> QED
      BY <3>1, <3>3, Zenon
  <2>2. /\ rs \in SUBSET FrameSet /\ Unique(rs)
        /\ Spaces(rs) \subseteq Spaces(reaps) \cup {cr3}
    BY <1>0, <2>1 DEF Unique, Spaces
  <2> HIDE DEF rs
  <2> QED
    BY <1>0, <2>1, <2>2, TickUse
<1>4. CASE TickStop
  BY <1>4 DEF TickStop, Signalled, UseInv, Calm, IInv, TypeOK
<1>5. CASE TickPark
  BY <1>0, <1>5 DEF TickPark
<1>6. CASE TickRequeue
  <2> DEFINE q == Enqueue(ready, Self)
  <2>1. TickTail(q, reaps) /\ cur # Idle
    BY <1>6 DEF TickRequeue, Undisturbed
  <2>2. QueueOK(q) /\ Spaces(q) \subseteq Spaces(ready) \cup {cr3}
    BY <1>0, <2>1, EnqueueAdds, EnqueueSpaces
  <2> HIDE DEF q
  <2> QED
    BY <1>0, <2>1, <2>2, TickUse
<1> QED
  BY <1>1, <1>2, <1>3, <1>4, <1>5, <1>6 DEF Tick

\* A step that touches neither queue, pending reaps nor address spaces.
LEMMA SameUse ==
    ASSUME Use, UNCHANGED <<cr3, ready, reaps, freed, nextSpace>>
    PROVE  Use'
  BY DEF Use, Built, Dropped

\* scheduler_yield_switch exchanges the loaded space with one of the queue's.
LEMMA YieldKeepsUse ==
    ASSUME UseInv, Yield
    PROVE  Use'
<1>0. QueueOK(ready) /\ Use /\ stopReq = {} /\ Self.cr3 = cr3 /\ Self \in FrameSet
  BY Places DEF UseInv, Calm, Yield, Self, Frame
<1>1. UNCHANGED <<reaps, freed, nextSpace>>
  BY DEF Yield, memory
<1>2. CASE YieldRequeue
  <2>1. PICK e \in Front(ready) :
            cr3' = e.cr3 /\ ready' = Enqueue(Renumber(ready \ {e}), Self)
    BY <1>2, Zenon DEF YieldRequeue, SwitchTo
  <2> DEFINE q == Renumber(ready \ {e})
  <2>2. e.cr3 \in Spaces(ready) /\ Spaces(q) \subseteq Spaces(ready)
    BY <1>0, PopSpaces
  <2> HIDE DEF q
  <2>3. Spaces(ready') \subseteq Spaces(q) \cup {cr3}
    BY <1>0, <2>1, EnqueueSpaces DEF q
  <2> QED
    BY <1>0, <1>1, <2>1, <2>2, <2>3 DEF Use, Built, Dropped
<1>3. CASE YieldPark
  BY <1>0, <1>3 DEF YieldPark
<1>4. CASE YieldAlone
  BY <1>0, <1>1, <1>4, SameUse DEF YieldAlone
<1> QED
  BY <1>2, <1>3, <1>4 DEF Yield

\* A new task brings the space it was made with; the counter only grows.
LEMMA NewTaskUse ==
    ASSUME Use, IInv, NEW group, NEW space, NewTask(group, space), UNCHANGED cr3,
           nextSpace' >= nextSpace, nextSpace' \in Nat, space < nextSpace',
           space \notin freed
    PROVE  Use'
<1>1. UNCHANGED <<reaps, freed>> /\ ready' = Enqueue(ready, Frame(nextPid, space))
  BY DEF NewTask
<1>2. Spaces(ready') \subseteq Spaces(ready) \cup {space}
  BY <1>1, EnqueueSpaces DEF Frame
<1>3. \A s \in freed \cup Spaces(ready) \cup Spaces(reaps) \cup {cr3} : s \in Nat
  <2>1. ready \subseteq Entry /\ reaps \subseteq FrameSet /\ cr3 \in Space
        /\ freed \subseteq Space
    BY DEF IInv, TypeOK
  <2>2. Spaces(ready) \subseteq Space /\ Spaces(reaps) \subseteq Space
    BY <2>1 DEF Spaces, Entry, FrameSet
  <2> QED
    BY <2>1, <2>2 DEF Space
<1>4. nextSpace \in Nat
  BY DEF IInv, TypeOK
<1>5. \A s \in freed' \cup Spaces(ready') \cup Spaces(reaps') \cup {cr3'} : s < nextSpace'
  BY <1>1, <1>2, <1>3, <1>4 DEF Use, Built
<1> QED
  BY <1>1, <1>2, <1>5 DEF Use, Built, Dropped

\* clone, fork and the shell's launch.
LEMMA SpawnUse ==
    ASSUME UseInv, Launch \/ \E p \in Pid : CloneThread(p) \/ Fork(p)
    PROVE  Use'
<1>0. /\ IInv /\ Use /\ nextSpace \in Nat /\ nextSpace + 1 > nextSpace
      /\ cr3 < nextSpace /\ cr3 \notin freed /\ nextSpace \notin freed
  <2>1. IInv /\ Use /\ nextSpace \in Nat /\ cr3 \in Space
    BY DEF UseInv, IInv, TypeOK
  <2>2. cr3 < nextSpace /\ cr3 \notin freed
    BY <2>1 DEF Use, Built, Dropped
  <2>3. nextSpace \notin freed
    BY <2>1 DEF Use, Built
  <2> QED
    BY <2>1, <2>2, <2>3
<1>1. ASSUME NewTask(nextPid, nextSpace), NewSpace, UNCHANGED cr3
      PROVE  Use'
  BY <1>0, <1>1, NewTaskUse DEF NewSpace
<1>2. ASSUME NEW p \in Pid, CloneThread(p)
      PROVE  Use'
  <2>1. NewTask(tgid[p], cr3) /\ UNCHANGED <<cr3, nextSpace>>
    BY <1>2 DEF CloneThread
  <2> QED
    BY <1>0, <2>1, NewTaskUse
<1> QED
  BY <1>1, <1>2 DEF Launch, Fork

\* execve loads a space built for it and frees the old one unless another has it.
LEMMA ExecveUse ==
    ASSUME UseInv, NEW p \in Pid, Execve(p)
    PROVE  Use'
<1>1. /\ cr3' = nextSpace /\ nextSpace' = nextSpace + 1 /\ UNCHANGED <<ready, reaps>>
      /\ freed' = IF cr3 = Kernel \/ cr3 \in Spaces(ready) \cup Spaces(reaps)
                  THEN freed ELSE freed \cup {cr3}
  BY DEF Execve, NewSpace
<1>2. Use /\ nextSpace \in Nat
  BY DEF UseInv, IInv, TypeOK
<1>3. \A s \in freed \cup Spaces(ready) \cup Spaces(reaps) \cup {cr3} :
          s \in Nat /\ s < nextSpace
  <2>1. ready \subseteq Entry /\ reaps \subseteq FrameSet /\ cr3 \in Space
        /\ freed \subseteq Space
    BY DEF UseInv, IInv, TypeOK
  <2>2. Spaces(ready) \subseteq Space /\ Spaces(reaps) \subseteq Space
    BY <2>1 DEF Spaces, Entry, FrameSet
  <2>3. \A s \in freed \cup Spaces(ready) \cup Spaces(reaps) \cup {cr3} : s \in Nat
    BY <2>1, <2>2 DEF Space
  <2> QED
    BY <1>2, <2>3 DEF Use, Built
<1>4. /\ freed' \subseteq freed \cup {cr3}
      /\ cr3 \in freed' => cr3 \notin Spaces(ready) \cup Spaces(reaps)
  BY <1>1, <1>2 DEF Use, Dropped
<1>5. Built'
  BY <1>1, <1>2, <1>3, <1>4 DEF Built
<1>6. Dropped'
  BY <1>1, <1>2, <1>3, <1>4 DEF Use, Dropped
<1> QED
  BY <1>1, <1>2, <1>5, <1>6 DEF Use

\* exit_group takes its siblings out of the queue.
LEMMA ExitGroupReadyUse ==
    ASSUME UseInv, NEW p \in Pid, ExitGroupReady(p)
    PROVE  Use'
<1>1. Spaces(ready') \subseteq Spaces(ready)
  <2>1. QueueOK(ready) /\ ready' = Drained(ready, job[p].others)
    BY Places DEF UseInv, ExitGroupReady
  <2>2. Spaces(ready') = Spaces({e \in ready : e.pid \notin job[p].others})
    BY <2>1, DrainSpaces
  <2> QED
    BY <2>2 DEF Spaces
<1>2. UNCHANGED <<cr3, reaps, freed, nextSpace>>
  BY DEF ExitGroupReady, memory
<1>3. Built' /\ Dropped'
  BY <1>1, <1>2 DEF UseInv, Use, Built, Dropped
<1> QED
  BY <1>2, <1>3 DEF UseInv, Use
----------------------------------------------------------------------------
(* Nothing is parked.                                                      *)

\* What the steps of a call may change and still park nothing.
LEMMA CalmFrom ==
    ASSUME Calm, TypeOK, UNCHANGED <<stopped, held>>, stopReq' \subseteq stopReq,
           \A p \in Pid : pending'[p] \subseteq pending[p] \cup {"term"},
           \A p \in Pid : pc'[p] = pc[p] \/ pc'[p] \notin StopLabels
    PROVE  Calm'
  BY DEF Calm

\* Without stop signals no section of a stop is reached.
LEMMA NoStops ==
    ASSUME "stop" \notin Calls, IInv, Calm, NEW p \in Pid
    PROVE  ~StopStep(p) /\ ~KillReap(p) /\ ~KillUnrequest(p) /\ ~ContRequeue(p)
<1>1. cur = p => "stop" \notin pending[cur]
  BY DEF Calm
<1>2. pc[p] \notin StopLabels
  BY DEF Calm
<1> QED
  BY <1>1, <1>2, Zenon DEF StopStep, Stop, StopCheck, StopQueue, StopDeliver, StopSiblings,
     StopDrain, StopUnrequest, StopPark, StopRequest, KillReap, KillUnrequest, ContRequeue,
     MayCall, At, InUser, Signalled, StopLabels

\* Without stop signals no step parks a task or begins to.
LEMMA CalmKeeps ==
    ASSUME "stop" \notin Calls, IInv, Calm, [Next]_vars
    PROVE  Calm'
<1> USE DEF rotation, registry, locals, memory
<1>0. /\ TypeOK /\ JobOK /\ stopped = {} /\ stopReq = {} /\ pc \in [Pid -> Labels]
      /\ pending \in [Pid -> SUBSET {"term", "stop"}] /\ held \in [Pid -> SUBSET FrameSet]
      /\ cur \in Pid \cup {Idle}
      /\ \A p \in Pid : /\ held[p] = {} /\ "stop" \notin pending[p]
                        /\ pc[p] \notin StopLabels
  BY DEF IInv, Calm, TypeOK
<1>1. CASE Tick
  <2>1. UNCHANGED <<pc, held>>
    BY <1>1, Zenon DEF Tick, TickIdle, TickExiting, TickKill, TickStop, TickPark, TickRequeue, TickTail
  <2>2. ~TickStop /\ ~TickPark
    BY <1>0 DEF TickStop, TickPark, Signalled, Undisturbed
  <2>3. stopped' = stopped /\ stopReq' \subseteq stopReq
    BY <1>0, <1>1, <2>2, ZenonT(30) DEF Tick, TickIdle, TickExiting, TickKill, TickRequeue
  <2>4. \A p \in Pid : pending'[p] \subseteq pending[p] \cup {"term"}
    BY <1>0, <1>1, <2>2 DEF Tick, TickIdle, TickExiting, TickKill, TickRequeue, Unregister
  <2> QED
    BY <1>0, <2>1, <2>3, <2>4, CalmFrom
<1>2. CASE Yield
  <2>1. stopped' = stopped /\ stopReq' = stopReq
    BY <1>0, <1>2 DEF Yield, YieldRequeue, YieldPark, YieldAlone
  <2>2. UNCHANGED <<pending, held>> /\ cur # Idle /\ pc' = [pc EXCEPT ![cur] = "run"]
    BY <1>2 DEF Yield
  <2> QED
    BY <1>0, <2>1, <2>2, CalmFrom, Zenon DEF StopLabels
<1>3. CASE Launch
  BY <1>0, <1>3, CalmFrom DEF Launch, NewTask
<1>4. ASSUME NEW p \in Pid, OneSection(p) PROVE Calm'
  <2>1. UNCHANGED <<stopped, held, stopReq>>
    BY <1>4, Zenon DEF OneSection, CloneThread, Fork, Execve, KernelThreadFinished, SendFatal, NewTask
  <2>2. \A x \in Pid : pending'[x] \subseteq pending[x] \cup {"term"}
    BY <1>0, <1>4, ZenonT(30) DEF OneSection, CloneThread, Fork, Execve, KernelThreadFinished, SendFatal, NewTask
  <2>3. \A x \in Pid : pc'[x] = pc[x] \/ pc'[x] \notin StopLabels
    BY <1>0, <1>4, Zenon DEF OneSection, CloneThread, Fork, Execve, KernelThreadFinished, SendFatal,
       NewTask, StopLabels
  <2> QED
    BY <1>0, <2>1, <2>2, <2>3, CalmFrom, ZenonT(30)
<1>5. ASSUME NEW p \in Pid, ExitStep(p) PROVE Calm'
  <2> USE DEF ExitStep, Exit, ExitGroup, FatalDeliver, ExitGroupOthers, ExitGroupMember,
              ExitGroupReady, ExitCompat, ExitMark
  <2>1. UNCHANGED <<stopped, held, stopReq>>
    BY <1>5 DEF Enter
  <2>2. \A x \in Pid : pending'[x] \subseteq pending[x] \cup {"term"}
    <3>1. CASE UNCHANGED pending
      BY <3>1
    <3>2. CASE FatalDeliver(p)
      BY <1>0, <3>2
    <3>3. ASSUME NEW S, Unregister(S)
          PROVE  \A x \in Pid : pending'[x] \subseteq pending[x] \cup {"term"}
      BY <1>0, <3>3, Zenon DEF Unregister
    <3> QED
      BY <1>5, <3>1, <3>2, <3>3, Zenon
  <2>3. \A x \in Pid : pc'[x] = pc[x] \/ pc'[x] \notin StopLabels
    BY <1>0, <1>5, ZenonT(30) DEF StopLabels, Enter, GoTo
  <2> QED
    BY <1>0, <2>1, <2>2, <2>3, CalmFrom, Zenon
<1>6. ASSUME NEW p \in Pid, KillStep(p) PROVE Calm'
  <2>1. ~KillUnrequest(p) /\ ~KillReap(p)
    BY <1>0 DEF KillUnrequest, KillReap, At, StopLabels
  <2>2. UNCHANGED <<stopped, stopReq>>
    BY <1>0, <1>6, <2>1, Zenon DEF KillStep, Kill, KillMember, KillTake, KillMark
  <2>3. held' = held
    BY <1>0, <1>6, <2>1, ZenonT(30) DEF KillStep, Kill, KillMember, KillTake, KillMark, Enter
  <2>4. \A x \in Pid : pending'[x] \subseteq pending[x] \cup {"term"}
    BY <1>0, <1>6, <2>1, Zenon DEF KillStep, Kill, KillMember, KillTake, KillMark, Unregister
  <2>5. \A x \in Pid : pc'[x] = pc[x] \/ pc'[x] \notin StopLabels
    BY <1>0, <1>6, <2>1, ZenonT(30) DEF KillStep, Kill, KillMember, KillTake, KillMark, Enter, GoTo,
       KillGoOn, StopLabels
  <2> QED
    BY <1>0, <2>2, <2>3, <2>4, <2>5, CalmFrom
<1>7. ASSUME NEW p \in Pid, StopStep(p) PROVE FALSE
  BY <1>7, NoStops
<1>8. ASSUME NEW p \in Pid, ContStep(p) PROVE Calm'
  <2>1. ~ContRequeue(p)
    BY <1>0 DEF ContRequeue, At, StopLabels
  <2>2. UNCHANGED stopped /\ stopReq' \subseteq stopReq
    BY <1>0, <1>8, <2>1, Zenon DEF ContStep, Cont, ContMember, ContUnrequest, ContResume, ContDone
  <2>3. held' = held
    BY <1>0, <1>8, <2>1, ZenonT(30) DEF ContStep, Cont, ContMember, ContUnrequest, ContResume, ContDone, Enter
  <2>4. \A x \in Pid : pending'[x] \subseteq pending[x] \cup {"term"}
    BY <1>0, <1>8, <2>1, Zenon DEF ContStep, Cont, ContMember, ContUnrequest, ContResume, ContDone
  <2>5. \A x \in Pid : pc'[x] = pc[x] \/ pc'[x] \notin StopLabels
    BY <1>0, <1>8, <2>1 DEF ContStep, Cont, ContMember, ContUnrequest, ContResume, ContDone,
       Enter, GoTo, StopLabels
  <2> QED
    BY <1>0, <2>2, <2>3, <2>4, <2>5, CalmFrom, Zenon
<1>9. CASE UNCHANGED vars
  BY <1>9 DEF vars, Calm
<1> QED
  BY <1>1, <1>2, <1>3, <1>4, <1>5, <1>6, <1>7, <1>8, <1>9, ZenonT(30) DEF Next

\* Every step keeps UseInv; most sections touch neither the queue nor a space.
LEMMA UseKeeps ==
    ASSUME "stop" \notin Calls, UseInv, [Next]_vars
    PROVE  UseInv'
<1>0. IInv /\ Calm /\ Use /\ IInv' /\ Calm'
  BY StepKeeps, CalmKeeps DEF UseInv
<1>1. ASSUME NEW p \in Pid, KillStep(p) \/ StopStep(p) \/ ContStep(p)
      PROVE  UNCHANGED <<cr3, ready, reaps, freed, nextSpace>>
  <2>1. /\ ~KillReap(p) /\ ~StopDrain(p) /\ ~ContRequeue(p)
    BY <1>0 DEF Calm, KillReap, StopDrain, ContRequeue, At, StopLabels
  <2> QED
    BY <1>1, <2>1, ZenonT(30) DEF KillStep, Kill, KillMember, KillTake, KillUnrequest, KillMark, StopStep,
       Stop, StopCheck, StopQueue, StopDeliver, StopSiblings, StopUnrequest, StopPark, StopRequest,
       ContStep, Cont, ContMember, ContUnrequest, ContResume, ContDone, rotation, memory
<1>2. ASSUME NEW p \in Pid, ExitStep(p), ~ExitGroupReady(p)
      PROVE  UNCHANGED <<cr3, ready, reaps, freed, nextSpace>>
  BY <1>2 DEF ExitStep, Exit, ExitGroup, FatalDeliver, ExitGroupOthers, ExitGroupMember,
     ExitCompat, ExitMark, rotation, memory
<1>3. ASSUME NEW p \in Pid, KernelThreadFinished(p) \/ SendFatal(p)
      PROVE  UNCHANGED <<cr3, ready, reaps, freed, nextSpace>>
  BY <1>3 DEF KernelThreadFinished, SendFatal, rotation, memory
<1>4. ASSUME UNCHANGED vars
      PROVE  UNCHANGED <<cr3, ready, reaps, freed, nextSpace>>
  BY <1>4 DEF vars, rotation, memory
<1>5. Use'
  BY <1>0, <1>1, <1>2, <1>3, <1>4, SameUse, TickKeepsUse, YieldKeepsUse, SpawnUse, ExecveUse,
     ExitGroupReadyUse, Zenon DEF Next, OneSection
<1> QED
  BY <1>0, <1>5 DEF UseInv

\* kernel_main leaves only the kernel space behind.
LEMMA UseInit == Init => UseInv
<1> SUFFICES ASSUME Init PROVE UseInv
  OBVIOUS
<1>1. IInv
  BY InitEstablishes
<1>2. Calm
  BY DEF Init, Calm, StopLabels
<1>3. Spaces(ready) \subseteq {Kernel} /\ reaps = {} /\ Spaces(reaps) = {} /\ freed = {}
      /\ cr3 = Kernel /\ nextSpace = 1
  BY DEF Init, Spaces
<1>4. Use
  BY <1>3 DEF Use, Built, Dropped, Unique, Kernel
<1> QED
  BY <1>1, <1>2, <1>4 DEF UseInv

\* With nothing parked, a space in use is queued or loaded.
LEMMA InUseCalm ==
    ASSUME Calm
    PROVE  InUse \subseteq Spaces(ready) \cup {cr3} /\ Spaces(ready) \subseteq InUse
<1> DEFINE H == {q \in Pid : pc[q] \notin {"unrequest", "pend_reap"}}
           U == UNION {Spaces(held[p]) : p \in H}
           C == IF cur = Idle THEN {} ELSE {cr3}
<1>1. Spaces(stopped) = {} /\ \A p \in Pid : Spaces(held[p]) = {}
  BY DEF Calm, Spaces
<1>2. U = {} /\ C \subseteq {cr3}
  BY <1>1, Zenon
<1>3. InUse = Spaces(ready) \cup Spaces(stopped) \cup U \cup C
  BY DEF InUse
<1> HIDE DEF U, C
<1> QED
  BY <1>1, <1>2, <1>3, Zenon

\* reap_exited_tasks and execve free an address space only when nothing has it
\* any more, for any number of tasks, spaces and calls and any interleaving of
\* the ticks with the sections of a call, in a workload without stop signals
\* (with them a parked task's space is not looked for, and the claim fails).
THEOREM FreedUnusedHolds ==
    ASSUME "stop" \notin Calls
    PROVE  Spec => []FreedUnused
<1>1. UseInv => FreedUnused
  <2> SUFFICES ASSUME UseInv PROVE FreedUnused
    OBVIOUS
  <2> QED
    BY InUseCalm DEF UseInv, Use, Dropped, FreedUnused
<1>2. UseInv /\ [Next]_vars => UseInv'
  BY UseKeeps
<1> QED
  BY <1>1, <1>2, UseInit, PTL DEF Spec
----------------------------------------------------------------------------
(* No space is forgotten.                                                  *)

\* The frames of the tasks in rotation, the running one included.
FramesOf(q) == {Frame(e.pid, e.cr3) : e \in q}
Live == FramesOf(ready) \cup (IF cur = Idle THEN {} ELSE {Self})

\* A thread group is named for a task that was handed out and leads it.
Groups ==
    /\ \A p \in Pid : p < nextPid => tgid[p] < nextPid /\ tgid[tgid[p]] = tgid[p]
    /\ \A p \in registered : p < nextPid
    /\ \A p \in Pid : pc[p] = "exit_others" =>
           p < nextPid /\ \A m \in job[p].others : m < nextPid /\ tgid[m] = tgid[p]

\* The threads of a process share their address space.
Sharing == \A e, f \in Live : tgid[e.pid] = tgid[f.pid] => e.cr3 = f.cr3

\* The shell is always in rotation and no call is about it, so the idle task only
\* runs before the first tick and never on a space that somebody left behind.
ShellStays ==
    /\ Shell \in Queued \cup {cur} /\ Shell \notin registered \cup exiting
    /\ pc[Shell] = "run"
    /\ \A p \in Pid : Shell \notin job[p].rest \cup job[p].others \cup {job[p].pid, job[p].goal}
    /\ cur = Idle => cr3 = Kernel
    /\ nextPid > BootThreads

Accounted ==
    \A s \in 1..(nextSpace - 1) : s \in freed \cup Spaces(ready) \cup Spaces(reaps) \cup {cr3}

AInv == UseInv /\ Groups /\ Sharing /\ ShellStays /\ Accounted

\* A pending reap that is not freed leaves its space to another owner.
LEMMA TickAccounts ==
    ASSUME IInv, Use, Accounted, NEW q, QueueOK(q), NEW rs \in SUBSET FrameSet, Unique(rs),
           TickTail(q, rs),
           Spaces(ready) \subseteq Spaces(q), Spaces(reaps) \subseteq Spaces(rs),
           cr3 = Kernel \/ cr3 \in Spaces(q) \cup Spaces({f \in rs : f.pid = cur})
    PROVE  Accounted'
<1>1. Spaces(q) \subseteq Spaces(ready') \cup {cr3'} /\ nextSpace' = nextSpace
  BY DispatchSpaces DEF TickTail
<1>2. ReapOne(q, rs)
  BY DEF TickTail
<1>3. freed \subseteq freed'
  BY <1>2 DEF ReapOne
<1>4. Spaces({f \in rs : f.pid = cur}) \subseteq Spaces(reaps')
  BY <1>2 DEF ReapOne, Spaces
<1>5. Spaces(rs) \subseteq freed' \cup Spaces(reaps') \cup Spaces(q) \cup {cr3, Kernel}
  <2>1. CASE reaps' = rs
    BY <2>1
  <2>2. ASSUME NEW f \in rs, reaps' = rs \ {f},
               freed' = IF Exclusive(f, q, rs) THEN freed \cup {f.cr3} ELSE freed
        PROVE  Spaces(rs) \subseteq freed' \cup Spaces(reaps') \cup Spaces(q) \cup {cr3, Kernel}
    <3>1. f.cr3 \in freed' \cup Spaces(reaps') \cup Spaces(q) \cup {cr3, Kernel}
      BY <2>2 DEF Exclusive, Spaces
    <3> QED
      BY <2>2, <3>1, ZenonT(30) DEF Spaces
  <2> QED
    BY <1>2, <2>1, <2>2 DEF ReapOne
<1>6. \A s \in 1..(nextSpace - 1) : s # Kernel
  BY DEF Kernel
<1> QED
  BY <1>1, <1>3, <1>4, <1>5, <1>6 DEF Accounted

\* What a tick does with the interrupted task keeps its space accounted for.
LEMMA TickKeepsAccount ==
    ASSUME AInv, Tick
    PROVE  Accounted'
<1>0. /\ QueueOK(ready) /\ reaps \in SUBSET FrameSet /\ Unique(reaps) /\ cur \notin Pids(reaps)
      /\ IInv /\ Use /\ Accounted /\ stopped = {} /\ stopReq = {}
      /\ cur = Idle => cr3 = Kernel
      /\ \A p \in Pid : "stop" \notin pending[p]
  <2>1. QueueOK(ready)
    BY Places DEF AInv, UseInv
  <2>2. reaps \in SUBSET FrameSet /\ cur \notin Pids(reaps)
    BY ZenonT(30) DEF AInv, UseInv, IInv, TypeOK, OneFrame, Gone
  <2> QED
    BY <2>1, <2>2, Zenon DEF AInv, UseInv, Use, Calm, ShellStays
<1>1. CASE TickIdle
  BY <1>0, <1>1, TickAccounts DEF TickIdle
<1>2. ASSUME cur # Idle
      PROVE  /\ Self \in FrameSet /\ Self.cr3 = cr3 /\ Self.pid = cur
             /\ reaps \cup {Self} \in SUBSET FrameSet /\ Unique(reaps \cup {Self})
             /\ Spaces(reaps) \subseteq Spaces(reaps \cup {Self})
             /\ cr3 \in Spaces({f \in reaps \cup {Self} : f.pid = cur})
  <2>1. Self \in FrameSet /\ Self.cr3 = cr3 /\ Self.pid = cur
    BY <1>0, <1>2, Places DEF Self, Frame
  <2>2. Unique(reaps \cup {Self})
    BY <1>0, <2>1 DEF Unique, Pids
  <2> QED
    BY <1>0, <2>1, <2>2, Zenon DEF Spaces
<1>3. ASSUME cur # Idle, TickTail(ready, reaps \cup {Self})
      PROVE  Accounted'
  BY <1>0, <1>2, <1>3, TickAccounts, ZenonT(30)
<1>4. CASE TickExiting
  <2>1. Without(reaps, cur) = reaps
    BY <1>0 DEF Without, Pids
  <2> QED
    BY <1>3, <1>4, <2>1 DEF TickExiting
<1>5. CASE TickKill
  <2> DEFINE parked == {f \in stopped : f.pid \in GroupPids(tgid[cur]) \ {cur}}
  <2>1. parked = {} /\ Pids(parked) = {}
    BY <1>0 DEF Pids
  <2>2. {f \in reaps : f.pid \notin Pids(parked) \cup {cur}} \cup parked \cup {Self}
        = reaps \cup {Self}
    BY <1>0, <2>1 DEF Pids
  <2> QED
    BY <1>3, <1>5, <2>2, ZenonT(30) DEF TickKill, Undisturbed
<1>6. CASE TickRequeue
  <2> DEFINE q == Enqueue(ready, Self)
  <2>1. cur # Idle /\ TickTail(q, reaps)
    BY <1>6 DEF TickRequeue, Undisturbed
  <2>2. Self.pid \notin Pids(ready)
    BY <1>0, <1>2, <2>1, Zenon DEF IInv, OneFrame, Queued
  <2>3. QueueOK(q)
    BY <1>0, <1>2, <2>1, EnqueueAdds
  <2>4. Spaces(ready) \subseteq Spaces(q) /\ cr3 \in Spaces(q)
    BY <1>2, <2>1, <2>2, EnqueueSpaces, ZenonT(30)
  <2> HIDE DEF q
  <2> QED
    BY <1>0, <2>1, <2>3, <2>4, TickAccounts, Zenon
<1>7. ~TickStop /\ ~TickPark
  BY <1>0 DEF TickStop, TickPark, Undisturbed, Signalled, IInv, TypeOK
<1> QED
  BY <1>1, <1>4, <1>5, <1>6, <1>7 DEF Tick

\* The operators on queues, by the frames in them.
LEMMA QueueFrames ==
    ASSUME NEW q, QueueOK(q)
    PROVE  /\ FramesOf(Renumber(q)) = FramesOf(q)
           /\ \A e \in Front(q) : FramesOf(Renumber(q \ {e})) \subseteq FramesOf(q)
           /\ \A pids : FramesOf(Drained(q, pids)) \subseteq FramesOf(q)
           /\ \A f \in FrameSet : FramesOf(Enqueue(q, f)) \subseteq FramesOf(q) \cup {f}
<1>1. ASSUME NEW r, QueueOK(r) PROVE FramesOf(Renumber(r)) = FramesOf(r)
  <2> DEFINE F(e) == [e EXCEPT !.slot = 1 + Cardinality({g \in r : g.slot < e.slot})]
  <2>1. Renumber(r) = {F(e) : e \in r}
    BY DEF Renumber
  <2>2. \A e \in r : F(e).cr3 = e.cr3 /\ F(e).pid = e.pid
    BY <1>1 DEF QueueOK, Entry
  <2> HIDE DEF F
  <2> QED
    BY <2>1, <2>2 DEF FramesOf
<1>2. ASSUME NEW r \in SUBSET q PROVE QueueOK(r) /\ FramesOf(r) \subseteq FramesOf(q)
  BY DEF QueueOK, Unique, FramesOf
<1>3. \A e \in Front(q) : FramesOf(Renumber(q \ {e})) \subseteq FramesOf(q)
  BY <1>1, <1>2
<1>4. \A pids : FramesOf(Drained(q, pids)) \subseteq FramesOf(q)
  BY <1>1, <1>2 DEF Drained
<1>5. ASSUME NEW f \in FrameSet
      PROVE  FramesOf(Enqueue(q, f)) \subseteq FramesOf(q) \cup {f}
  <2> DEFINE e == [pid |-> f.pid, cr3 |-> f.cr3, slot |-> Cardinality(q) + 1]
  <2>1. Frame(e.pid, e.cr3) = f
    BY DEF Frame, FrameSet
  <2>2. Enqueue(q, f) \subseteq q \cup {e}
    BY DEF Enqueue
  <2> HIDE DEF e
  <2> QED
    BY <2>1, <2>2 DEF FramesOf
<1> QED
  BY <1>1, <1>3, <1>4, <1>5

\* A step that brings no new frame into rotation and keeps the groups.
LEMMA SharingFrom ==
    ASSUME Sharing, Live' \subseteq Live, tgid' = tgid
    PROVE  Sharing'
  BY DEF Sharing

\* The switch to a queued task brings in nothing new.
LEMMA SwitchLive ==
    ASSUME NEW q, QueueOK(q), NEW e \in Front(q), NEW r, cur' = e.pid, cr3' = e.cr3,
           FramesOf(ready') \subseteq FramesOf(r)
    PROVE  Live' \subseteq FramesOf(q) \cup FramesOf(r)
<1>1. Self' = Frame(e.pid, e.cr3) /\ e \in q
  BY DEF Self, Front
<1>2. Self' \in FramesOf(q)
  BY <1>1 DEF FramesOf
<1> QED
  BY <1>2 DEF Live, FramesOf

\* schedule and the switch of a tick.
LEMMA DispatchLive ==
    ASSUME NEW q, QueueOK(q), Dispatch(q)
    PROVE  Live' \subseteq FramesOf(q)
<1>1. CASE q = {} /\ cur' = Idle /\ ready' = {}
  BY <1>1 DEF Live, FramesOf
<1>2. ASSUME NEW e \in Front(q), cur' = e.pid, cr3' = e.cr3, ready' = Renumber(q \ {e})
      PROVE  Live' \subseteq FramesOf(q)
  BY <1>2, QueueFrames, SwitchLive
<1> QED
  BY <1>1, <1>2, Zenon DEF Dispatch

\* The timer tick and yield_switch.
LEMMA SwitchKeepsSharing ==
    ASSUME AInv, Tick \/ Yield
    PROVE  Sharing'
<1>0. /\ QueueOK(ready) /\ Sharing /\ (cur # Idle => Self \in FrameSet /\ Self \in Live)
      /\ FramesOf(ready) \subseteq Live /\ stopReq = {}
      /\ \A p \in Pid : "stop" \notin pending[p]
  BY Places DEF AInv, UseInv, Calm, Live
<1>1. CASE Tick
  <2>1. ~TickStop /\ ~TickPark
    BY <1>0 DEF TickStop, TickPark, Undisturbed, Signalled, AInv, UseInv, IInv, TypeOK
  <2>2. tgid' = tgid /\ (Dispatch(ready) \/ (cur # Idle /\ Dispatch(Enqueue(ready, Self))))
    <3>1. CASE TickIdle \/ TickExiting \/ TickRequeue
      BY <3>1, ZenonT(30) DEF TickIdle, TickExiting, TickRequeue, TickTail, registry, Undisturbed
    <3>2. CASE TickKill
      BY <3>2 DEF TickKill, TickTail, Unregister
    <3> QED
      BY <1>1, <2>1, <3>1, <3>2 DEF Tick
  <2>3. CASE Dispatch(ready)
    BY <1>0, <2>2, <2>3, DispatchLive, SharingFrom, Zenon
  <2>4. CASE cur # Idle /\ Dispatch(Enqueue(ready, Self))
    <3>1. QueueOK(Enqueue(ready, Self)) /\ FramesOf(Enqueue(ready, Self)) \subseteq Live
      BY <1>0, <2>4, EnqueueAdds, QueueFrames
    <3> QED
      BY <1>0, <2>2, <2>4, <3>1, DispatchLive, SharingFrom, ZenonT(30)
  <2> QED
    BY <2>2, <2>3, <2>4, ZenonT(30)
<1>2. CASE Yield
  <2>1. tgid' = tgid /\ cur # Idle /\ (YieldRequeue \/ YieldAlone)
    BY <1>0, <1>2, Zenon DEF Yield, YieldPark, registry
  <2>2. CASE YieldAlone
    BY <1>0, <2>1, <2>2, SharingFrom, Zenon DEF YieldAlone, Live, Self
  <2>3. CASE YieldRequeue
    <3>1. PICK e \in Front(ready) : SwitchTo(e, Enqueue(Renumber(ready \ {e}), Self))
      BY <2>3 DEF YieldRequeue
    <3> DEFINE r == Enqueue(Renumber(ready \ {e}), Self)
    <3>2. QueueOK(Renumber(ready \ {e})) /\ FramesOf(Renumber(ready \ {e})) \subseteq Live
      BY <1>0, PopTakes, QueueFrames, ZenonT(30)
    <3>3. FramesOf(r) \subseteq Live
      BY <1>0, <2>1, <3>2, QueueFrames
    <3>4. cur' = e.pid /\ cr3' = e.cr3 /\ FramesOf(ready') \subseteq FramesOf(r)
      BY <3>1 DEF SwitchTo
    <3> HIDE DEF r
    <3>5. Live' \subseteq Live
      BY <1>0, <3>3, <3>4, SwitchLive
    <3> QED
      BY <1>0, <2>1, <3>5, SharingFrom
  <2> QED
    BY <2>1, <2>2, <2>3
<1> QED
  BY <1>1, <1>2

\* A new task: a thread with the space of its maker, or a group of its own.
LEMMA NewTaskSharing ==
    ASSUME AInv, NEW g \in Pid, NEW s \in Space, NewTask(g, s), UNCHANGED cr3,
           \/ g = nextPid
           \/ cur # Idle /\ g = tgid[cur] /\ s = cr3
    PROVE  Sharing'
<1> DEFINE new == Frame(nextPid, s)
<1>0. /\ TypeOK /\ QueueOK(ready) /\ nextPid \in Pid
      /\ \A f \in Live : f.pid \in Pid /\ f.pid < nextPid
  <2>1. TypeOK /\ QueueOK(ready) /\ Fresh /\ nextPid \in Nat /\ nextPid <= MaxPid
    BY Places DEF AInv, UseInv, IInv, TypeOK, NewTask
  <2>2. \A f \in Live : f.pid \in Queued \cup {cur} /\ f.pid \in Pid
    <3>1. \A e \in ready : Frame(e.pid, e.cr3).pid \in Queued /\ Frame(e.pid, e.cr3).pid \in Pid
      BY <2>1 DEF Frame, Queued, Pids, QueueOK, Entry
    <3>2. Self.pid = cur /\ (cur # Idle => cur \in Pid)
      BY <2>1, Zenon DEF Self, Frame, TypeOK
    <3> QED
      BY <3>1, <3>2, Zenon DEF Live, FramesOf
  <2>3. nextPid \in Pid
    BY <2>1, SchedulerAssumption DEF AInv, ShellStays, Pid
  <2> QED
    BY <2>1, <2>2, <2>3, ZenonT(30) DEF Fresh
<1>1. tgid' = [tgid EXCEPT ![nextPid] = g] /\ ready' = Enqueue(ready, new) /\ cur' = cur
  BY DEF NewTask
<1>2. new \in FrameSet /\ new.pid = nextPid /\ new.cr3 = s
  BY <1>0 DEF Frame, FrameSet
<1> HIDE DEF new
<1>3. Live' \subseteq Live \cup {new}
  <2>1. FramesOf(ready') \subseteq FramesOf(ready) \cup {new}
    BY <1>0, <1>1, <1>2, QueueFrames
  <2>2. Self' = Self
    BY <1>1 DEF Self
  <2> QED
    BY <1>1, <2>1, <2>2 DEF Live
<1>4. tgid'[nextPid] = g /\ \A f \in Live : tgid'[f.pid] = tgid[f.pid] /\ tgid[f.pid] < nextPid
  <2>1. \A f \in Live : tgid'[f.pid] = tgid[f.pid]
    BY <1>0, <1>1 DEF TypeOK
  <2>2. \A f \in Live : tgid[f.pid] < nextPid
    BY <1>0 DEF AInv, Groups
  <2> QED
    BY <1>0, <1>1, <2>1, <2>2, ZenonT(30) DEF TypeOK
<1>5. \A f \in Live : tgid[f.pid] = g => f.cr3 = s
  <2>1. CASE g = nextPid
    <3>1. \A f \in Live : tgid[f.pid] # nextPid
      BY <1>0, <1>4 DEF TypeOK, Pid
    <3> QED
      BY <2>1, <3>1
  <2>2. CASE cur # Idle /\ g = tgid[cur] /\ s = cr3
    <3>1. Self \in Live /\ Self.pid = cur /\ Self.cr3 = cr3
      BY <2>2 DEF Live, Self, Frame
    <3> QED
      BY <2>2, <3>1 DEF AInv, Sharing
  <2> QED
    BY <2>1, <2>2
<1> QED
  <2> SUFFICES ASSUME NEW e \in Live \cup {new}, NEW f \in Live \cup {new},
                      tgid'[e.pid] = tgid'[f.pid]
               PROVE  e.cr3 = f.cr3
    BY <1>3 DEF Sharing
  <2>1. CASE e \in Live /\ f \in Live
    BY <1>4, <2>1 DEF AInv, Sharing
  <2>2. CASE e = new \/ f = new
    BY <1>2, <1>4, <1>5, <2>2
  <2> QED
    BY <2>1, <2>2

\* execve: the caller is the only thread in rotation of its process.
LEMMA ExecveSharing ==
    ASSUME "execve_threaded" \notin Calls, AInv, NEW p \in Pid, Execve(p)
    PROVE  Sharing'
<1>1. /\ ThreadsOf(p) = {p} /\ cur = p /\ p # Idle
      /\ UNCHANGED <<cur, ready, tgid>>
  BY DEF Execve, MayCall, InUser, registry
<1>2. \A e \in FramesOf(ready) : e.pid # p /\ tgid[e.pid] # tgid[p]
  <2> SUFFICES ASSUME NEW x \in ready PROVE x.pid # p /\ tgid[x.pid] # tgid[p]
    BY DEF FramesOf, Frame
  <2>1. x.pid \in Queued /\ x.pid \in Pids(ready \cup stopped \cup UNION {held[q] : q \in Pid})
    BY ZenonT(30) DEF Queued, Pids
  <2>2. x.pid # p
    BY <1>1, <2>1 DEF AInv, UseInv, IInv, OneFrame
  <2>3. x.pid \notin ThreadsOf(p)
    BY <1>1, <2>2
  <2> QED
    BY <2>1, <2>2, <2>3 DEF ThreadsOf
<1>3. Live' = FramesOf(ready) \cup {Frame(p, cr3')} /\ FramesOf(ready) \subseteq Live
  BY <1>1 DEF Live, Self, FramesOf
<1>4. Frame(p, cr3').pid = p
  BY DEF Frame
<1> QED
  BY <1>1, <1>2, <1>3, <1>4 DEF AInv, Sharing

\* What a section may put in the locals of a call: members of a registered group.
JobBound(x) ==
    /\ job'[x].rest \cup job'[x].others \subseteq job[x].rest \cup job[x].others \cup registered
    /\ {job'[x].pid, job'[x].goal} \subseteq
           job[x].rest \cup {job[x].pid, job[x].goal, Idle} \cup registered

\* The locals of a call only ever name registered tasks, or those they named.
LEMMA JobsFrom ==
    ASSUME "stop" \notin Calls, IInv, Calm, NEW p \in Pid,
           OneSection(p) \/ ExitStep(p) \/ KillStep(p) \/ StopStep(p) \/ ContStep(p)
    PROVE  /\ \A x \in Pid : JobBound(x)
           /\ \A x \in Pid : x # p => job'[x] = job[x]
           /\ pc'[p] = "exit_others" /\ pc[p] = "exit_others" => job'[p].others = job[p].others
<1> DEFINE Goal == /\ \A x \in Pid : JobBound(x)
                   /\ \A x \in Pid : x # p => job'[x] = job[x]
                   /\ pc'[p] = "exit_others" /\ pc[p] = "exit_others"
                          => job'[p].others = job[p].others
<1> SUFFICES Goal
  OBVIOUS
<1>0. job \in [Pid -> Job] /\ pc \in [Pid -> Labels]
  BY Zenon DEF IInv, TypeOK
<1>1. CASE UNCHANGED job
  BY <1>1 DEF JobBound
<1>2. ASSUME NEW m \in job[p].rest \cup {job[p].goal}, NextMember(p, m)
      PROVE  Goal
  <2> DEFINE j == [job[p] EXCEPT !.pid = m, !.rest = job[p].rest \ {m}]
  <2>1. job[p] \in Job
    BY <1>0, Zenon
  <2>2. /\ j.pid = m /\ j.rest \subseteq job[p].rest /\ j.goal = job[p].goal
        /\ j.others = job[p].others
    BY <2>1 DEF Job
  <2>3. job' = [job EXCEPT ![p] = j]
    BY <1>2, ZenonT(30) DEF NextMember
  <2> HIDE DEF j
  <2> QED
    BY <1>0, <2>2, <2>3, Zenon DEF JobBound
<1>3. ASSUME NEW j, j.rest \subseteq registered, j.others \subseteq registered, j.pid = Idle,
             j.goal \in registered \cup {Idle}, job' = [job EXCEPT ![p] = j],
             pc[p] = "exit_others" => pc'[p] # "exit_others"
      PROVE  Goal
  BY <1>0, <1>3 DEF JobBound
<1>4. /\ NoJob.rest = {} /\ NoJob.others = {} /\ NoJob.pid = Idle /\ NoJob.goal = Idle
      /\ \A g : GroupPids(g) \subseteq registered
  BY DEF NoJob, GroupPids
<1>5. ASSUME job' = [job EXCEPT ![p] = NoJob],
             pc[p] = "exit_others" => pc'[p] # "exit_others"
      PROVE  Goal
  <2> DEFINE j == NoJob
  <2>1. /\ j.rest \subseteq registered /\ j.others \subseteq registered /\ j.pid = Idle
        /\ j.goal \in registered \cup {Idle} /\ job' = [job EXCEPT ![p] = j]
    BY <1>4, <1>5, Zenon
  <2> HIDE DEF j
  <2> QED
    BY <1>3, <1>5, <2>1, ZenonT(30)
<1> HIDE DEF Goal
<1>8. CASE OneSection(p)
  BY <1>1, <1>8, Zenon DEF OneSection, CloneThread, Fork, Execve, KernelThreadFinished, SendFatal,
     NewTask, locals, Goal
<1>9. CASE ExitStep(p)
  <2>1. CASE ExitGroupMember(p)
    <3>1. PICK m \in Least(job[p].rest) : NextMember(p, m)
      BY <2>1, Zenon DEF ExitGroupMember
    <3>2. m \in job[p].rest \cup {job[p].goal}
      BY Zenon DEF Least
    <3> QED
      BY <1>2, <3>1, <3>2
  <2>2. CASE ExitGroupOthers(p)
    <3> DEFINE o == GroupPids(TgidOf(p)) \ {p}
               j == [NoJob EXCEPT !.rest = o, !.others = o]
    <3>1. job' = [job EXCEPT ![p] = j] /\ pc[p] = "exit_group"
      BY <2>2 DEF ExitGroupOthers, Enter, At
    <3>2. o \subseteq registered
      BY <1>4
    <3>3. j.rest = o /\ j.others = o /\ j.pid = Idle /\ j.goal = Idle
      BY Zenon DEF NoJob
    <3> HIDE DEF o, j
    <3> QED
      BY <1>3, <3>1, <3>2, <3>3, Zenon
  <2>3. CASE ExitGroupReady(p)
    BY <1>0, <1>5, <2>3 DEF ExitGroupReady, GoTo
  <2> QED
    BY <1>1, <1>9, <2>1, <2>2, <2>3, ZenonT(30) DEF ExitStep, Exit, ExitGroup, FatalDeliver, ExitCompat,
       ExitMark, Goal
<1>10. CASE KillStep(p)
  <2>1. ASSUME NEW q \in Pid, Kill(p, q) PROVE Goal
    <3> DEFINE o == GroupPids(tgid[q]) \ {q}
               j == [NoJob EXCEPT !.goal = q, !.rest = o]
    <3>1. job' = [job EXCEPT ![p] = j] /\ pc[p] = "run" /\ q \in registered
      BY <2>1 DEF Kill, Enter, MayCall, InUser
    <3>2. o \subseteq registered
      BY <1>4, Zenon
    <3>3. j.rest = o /\ j.others = {} /\ j.pid = Idle /\ j.goal = q
      BY ZenonT(30) DEF NoJob
    <3> HIDE DEF o, j
    <3> QED
      BY <1>3, <3>1, <3>2, <3>3, Zenon
  <2>2. CASE KillMember(p)
    <3>1. PICK m \in (IF job[p].rest = {} THEN {job[p].goal} ELSE Least(job[p].rest)) :
              NextMember(p, m)
      BY <2>2, Zenon DEF KillMember
    <3>2. m \in job[p].rest \cup {job[p].goal}
      BY ZenonT(30) DEF Least
    <3> QED
      BY <1>2, <3>1, <3>2
  <2>3. CASE KillMark(p)
    BY <1>0, <1>1, <1>5, <2>3 DEF KillMark, KillGoOn, GoTo, At, Goal
  <2> QED
    BY <1>1, <1>10, <2>1, <2>2, <2>3, NoStops, Zenon DEF KillStep, KillTake, Goal
<1>11. CASE ContStep(p)
  <2>1. ASSUME NEW q \in Pid, Cont(p, q) PROVE Goal
    <3> DEFINE o == GroupPids(tgid[q])
               j == [NoJob EXCEPT !.rest = o]
    <3>1. job' = [job EXCEPT ![p] = j] /\ pc[p] = "run"
      BY <2>1 DEF Cont, Enter, MayCall, InUser
    <3>2. o \subseteq registered
      BY <1>4, Zenon
    <3>3. j.rest = o /\ j.others = {} /\ j.pid = Idle /\ j.goal = Idle
      BY DEF NoJob
    <3> HIDE DEF o, j
    <3> QED
      BY <1>3, <3>1, <3>2, <3>3, Zenon
  <2>2. CASE ContMember(p)
    <3>1. PICK m \in Least(job[p].rest) : NextMember(p, m)
      BY <2>2, Zenon DEF ContMember
    <3>2. m \in job[p].rest \cup {job[p].goal}
      BY DEF Least
    <3> QED
      BY <1>2, <3>1, <3>2
  <2>3. CASE ContDone(p)
    BY <1>0, <1>5, <2>3, Zenon DEF ContDone, Enter, GoTo, At
  <2> QED
    BY <1>1, <1>11, <2>1, <2>2, <2>3, NoStops, Zenon DEF ContStep, ContUnrequest, ContResume, Goal
<1> QED
  BY <1>8, <1>9, <1>10, <1>11, NoStops, ZenonT(30)

\* A step that makes no task and begins no exit_group keeps the groups.
LEMMA GroupsFrom ==
    ASSUME Groups, UNCHANGED <<nextPid, tgid>>, registered' \subseteq registered,
           \A p \in Pid : pc'[p] = "exit_others" =>
               pc[p] = "exit_others" /\ job'[p].others = job[p].others
    PROVE  Groups'
  BY Zenon DEF Groups

\* clone and fork: the new task joins a group that is led, or leads its own.
LEMMA NewTaskGroups ==
    ASSUME AInv, NEW g, NEW s, NewTask(g, s),
           \/ g = nextPid
           \/ cur # Idle /\ g = tgid[cur]
    PROVE  Groups'
<1>0. /\ TypeOK /\ Groups /\ nextPid \in Nat /\ nextPid \in Pid /\ tgid \in [Pid -> Pid]
      /\ cur # Idle => cur \in Pid /\ cur < nextPid
  <2>1. TypeOK /\ Groups /\ Fresh /\ ShellStays /\ nextPid <= MaxPid
    BY DEF AInv, UseInv, IInv, NewTask
  <2>2. cur < nextPid
    BY <2>1 DEF Fresh
  <2>3. /\ nextPid \in Nat /\ tgid \in [Pid -> Pid] /\ cur \in Pid \cup {Idle}
        /\ nextPid > BootThreads
    BY <2>1, Zenon DEF TypeOK, ShellStays
  <2>4. nextPid \in Pid
    BY <2>1, <2>3, SchedulerAssumption DEF Pid
  <2> QED
    BY <2>1, <2>2, <2>3, <2>4
<1>1. /\ tgid' = [tgid EXCEPT ![nextPid] = g] /\ nextPid' = nextPid + 1
      /\ registered' = registered \cup {nextPid} /\ UNCHANGED <<pc, job>>
  BY Zenon DEF NewTask, locals
<1>2. \A p \in Pid : p < nextPid => tgid'[p] = tgid[p] /\ tgid[p] \in Pid /\ tgid[p] < nextPid
                                    /\ tgid[tgid[p]] = tgid[p]
  BY <1>0, <1>1 DEF Groups, Pid
<1>3. \A p \in Pid : p < nextPid => tgid'[p] < nextPid' /\ tgid'[tgid'[p]] = tgid'[p]
  BY <1>0, <1>1, <1>2 DEF Pid
<1>4. g \in Pid /\ tgid'[nextPid] = g /\ g < nextPid' /\ tgid'[g] = g
  <2>1. CASE g = nextPid
    BY <1>0, <1>1, <2>1
  <2>2. CASE cur # Idle /\ g = tgid[cur]
    <3>1. g \in Pid /\ g < nextPid /\ tgid[g] = g
      BY <1>0, <1>2, <2>2, Zenon
    <3> QED
      BY <1>0, <1>1, <1>2, <3>1 DEF Pid
  <2> QED
    BY <2>1, <2>2
<1>5. \A p \in Pid : p < nextPid' => tgid'[p] < nextPid' /\ tgid'[tgid'[p]] = tgid'[p]
  <2>1. \A p \in Pid : p < nextPid' => p < nextPid \/ p = nextPid
    BY <1>0, <1>1 DEF Pid
  <2> QED
    BY <1>3, <1>4, <2>1, Zenon
<1>6. \A p \in registered' : p < nextPid'
  BY <1>0, <1>1 DEF Groups, TypeOK, Pid
<1>7. \A p \in Pid : pc'[p] = "exit_others" =>
          p < nextPid' /\ \A m \in job'[p].others : m < nextPid' /\ tgid'[m] = tgid'[p]
  <2> SUFFICES ASSUME NEW p \in Pid, pc[p] = "exit_others", NEW m \in job[p].others
               PROVE  p < nextPid' /\ m < nextPid' /\ tgid'[m] = tgid'[p]
    <3>1. \A p \in Pid : pc[p] = "exit_others" => p < nextPid + 1
      BY <1>0 DEF Groups, Pid
    <3> QED
      BY <1>1, <3>1
  <2>1. p < nextPid /\ m < nextPid /\ tgid[m] = tgid[p]
    BY <1>0, Zenon DEF Groups
  <2>2. m \in Pid
    BY <1>0 DEF TypeOK, Job
  <2>3. tgid'[m] = tgid'[p]
    BY <1>2, <2>1, <2>2, ZenonT(30)
  <2>4. p \in Nat /\ m \in Nat /\ nextPid \in Nat /\ nextPid' = nextPid + 1
    BY <1>0, <1>1, <2>2 DEF Pid
  <2> QED
    BY ONLY <2>1, <2>3, <2>4
<1> QED
  BY <1>5, <1>6, <1>7, Zenon DEF Groups

\* Every step keeps the groups.
LEMMA GroupsKeep ==
    ASSUME "stop" \notin Calls, AInv, [Next]_vars
    PROVE  Groups'
<1> USE DEF rotation, registry, locals, memory
<1>0. /\ Groups /\ IInv /\ Calm /\ pc \in [Pid -> Labels] /\ cur \in Pid \cup {Idle}
      /\ registered \subseteq Pid /\ tgid \in [Pid -> Pid]
  BY DEF AInv, UseInv, IInv, TypeOK
<1>1. CASE Tick
  <2>1. UNCHANGED <<pc, job, nextPid, tgid>> /\ registered' \subseteq registered
    BY <1>1, Zenon DEF Tick, TickIdle, TickExiting, TickKill, TickStop, TickPark, TickRequeue, TickTail,
       Unregister
  <2> QED
    BY <1>0, <2>1, GroupsFrom
<1>2. CASE Yield
  BY <1>0, <1>2, GroupsFrom DEF Yield
<1>3. CASE Launch
  BY <1>3, NewTaskGroups DEF Launch
<1>4. ASSUME NEW p \in Pid, OneSection(p) PROVE Groups'
  <2>1. CASE CloneThread(p) \/ Fork(p)
    BY <2>1, NewTaskGroups, Zenon DEF CloneThread, Fork, MayCall, InUser
  <2>2. CASE Execve(p) \/ KernelThreadFinished(p) \/ SendFatal(p)
    <3>1. UNCHANGED <<job, nextPid, tgid, registered>>
      BY <2>2, Zenon DEF Execve, KernelThreadFinished, SendFatal
    <3>2. \A x \in Pid : pc'[x] = "exit_others" => pc[x] = "exit_others"
      BY <1>0, <2>2, Zenon DEF Execve, KernelThreadFinished, SendFatal
    <3> QED
      BY <1>0, <3>1, <3>2, GroupsFrom, Zenon
  <2> QED
    BY <1>4, <2>1, <2>2 DEF OneSection
<1>5. ASSUME NEW p \in Pid, ExitStep(p) \/ KillStep(p) \/ ContStep(p), ~ExitGroupOthers(p)
      PROVE  Groups'
  <2>1. UNCHANGED <<nextPid, tgid>> /\ registered' \subseteq registered
    BY <1>5, Zenon DEF ExitStep, Exit, ExitGroup, FatalDeliver, ExitGroupMember,
       ExitGroupReady, ExitCompat, ExitMark, KillStep, Kill, KillMember, KillTake, KillUnrequest,
       KillReap, KillMark, ContStep, Cont, ContMember, ContUnrequest, ContResume, ContRequeue,
       ContDone, Unregister
  <2>2. \A x \in Pid : pc'[x] = "exit_others" => pc[x] = "exit_others"
    BY <1>0, <1>5, Zenon DEF ExitStep, Exit, ExitGroup, FatalDeliver, ExitGroupMember,
       ExitGroupReady, ExitCompat, ExitMark, KillStep, Kill, KillMember, KillTake, KillUnrequest,
       KillReap, KillMark, KillGoOn, ContStep, Cont, ContMember, ContUnrequest, ContResume,
       ContRequeue, ContDone, GoTo, Enter
  <2>3. \A x \in Pid : pc'[x] = "exit_others" => job'[x].others = job[x].others
    BY <1>0, <1>5, <2>2, JobsFrom, ZenonT(30)
  <2> QED
    BY <1>0, <2>1, <2>2, <2>3, GroupsFrom, ZenonT(30)
<1>6. ASSUME NEW p \in Pid, ExitGroupOthers(p) PROVE Groups'
  <2> DEFINE o == GroupPids(TgidOf(p)) \ {p}
             j == [NoJob EXCEPT !.rest = o, !.others = o]
  <2>1. /\ job' = [job EXCEPT ![p] = j] /\ cur = p /\ pc' = [pc EXCEPT ![p] = "exit_others"]
        /\ UNCHANGED <<nextPid, tgid, registered>>
    BY <1>6 DEF ExitGroupOthers, Enter, GoTo, At
  <2>2. j.others = o
    BY DEF NoJob
  <2>3. p < nextPid /\ \A m \in o : m \in registered /\ m < nextPid
    BY <1>0, <2>1 DEF GroupPids, Groups, IInv, Fresh
  <2>4. \A m \in o : tgid[m] = tgid[p]
    <3> SUFFICES ASSUME NEW m \in o PROVE tgid[m] = tgid[p]
      OBVIOUS
    <3>1. m \in Pid /\ m < nextPid /\ tgid[m] = TgidOf(p)
      BY <1>0, <2>3, Zenon DEF GroupPids
    <3>2. tgid[tgid[m]] = tgid[m]
      BY <1>0, <3>1, ZenonT(30) DEF Groups
    <3> QED
      BY <3>1, <3>2 DEF TgidOf
  <2> HIDE DEF o, j
  <2>5. job \in [Pid -> Job]
    BY <1>0, Zenon DEF IInv, TypeOK
  <2>6. \A x \in Pid : pc'[x] = "exit_others" =>
            x < nextPid /\ \A m \in job'[x].others : m < nextPid /\ tgid[m] = tgid[x]
    <3> SUFFICES ASSUME NEW x \in Pid, pc'[x] = "exit_others"
                 PROVE  x < nextPid /\ \A m \in job'[x].others : m < nextPid /\ tgid[m] = tgid[x]
      OBVIOUS
    <3>1. CASE x = p
      BY <2>1, <2>2, <2>3, <2>4, <2>5, <3>1, Zenon
    <3>2. CASE x # p
      BY <1>0, <2>1, <2>5, <3>2, Zenon DEF Groups
    <3> QED
      BY <3>1, <3>2
  <2> QED
    BY <1>0, <2>1, <2>6 DEF Groups
<1>7. CASE UNCHANGED vars
  BY <1>0, <1>7, GroupsFrom, Zenon DEF vars
<1> QED
  BY <1>0, <1>1, <1>2, <1>3, <1>4, <1>5, <1>6, <1>7, NoStops, Zenon DEF Next

\* The shell is in no group and in nobody's call, and it makes no call.
ShellApart ==
    /\ Shell \notin registered \cup exiting /\ pc[Shell] = "run" /\ nextPid > BootThreads
    /\ \A p \in Pid : Shell \notin job[p].rest \cup job[p].others \cup {job[p].pid, job[p].goal}

\* No step registers the shell, marks it, or puts it in a call.
LEMMA ShellKeepsApart ==
    ASSUME "stop" \notin Calls, AInv, [Next]_vars
    PROVE  ShellApart'
<1> USE DEF rotation, registry, locals, memory
<1>0. /\ ShellApart /\ IInv /\ Calm /\ pc \in [Pid -> Labels] /\ cur \in Pid \cup {Idle}
      /\ registered \subseteq Pid /\ nextPid \in Nat /\ Shell \in Pid /\ Shell # Idle
  <2>1. IInv /\ Calm /\ ShellStays /\ TypeOK
    BY Zenon DEF AInv, UseInv, IInv
  <2>2. ShellApart
    BY <2>1, Zenon DEF ShellStays, ShellApart
  <2>3. pc \in [Pid -> Labels] /\ cur \in Pid \cup {Idle} /\ registered \subseteq Pid /\ nextPid \in Nat
    BY <2>1 DEF TypeOK
  <2>4. Shell \in Pid /\ Shell # Idle
    BY SchedulerAssumption DEF Shell, Pid, Idle
  <2> QED
    BY <2>1, <2>2, <2>3, <2>4, Zenon
<1>1. CASE Tick
  <2>1. UNCHANGED <<pc, job, nextPid>>
    BY <1>1, ZenonT(30) DEF Tick, TickIdle, TickExiting, TickKill, TickStop, TickPark, TickRequeue, TickTail
  <2>2. registered' \subseteq registered /\ exiting' \subseteq exiting \cup registered
    <3>1. CASE TickKill
      BY <3>1, ZenonT(30) DEF TickKill, Unregister, GroupPids
    <3> QED
      BY <1>1, <3>1 DEF Tick, TickIdle, TickExiting, TickStop, TickPark, TickRequeue
  <2> QED
    BY <1>0, <2>1, <2>2 DEF ShellApart
<1>2. CASE Yield
  BY <1>0, <1>2 DEF Yield, ShellApart
<1>3. ASSUME NEW g, NEW s, NewTask(g, s) PROVE ShellApart'
  <2>1. nextPid # Shell
    BY <1>0, SchedulerAssumption DEF ShellApart, Shell
  <2>2. nextPid > BootThreads /\ nextPid' = nextPid + 1 /\ nextPid \in Nat
    BY <1>0, <1>3, Zenon DEF NewTask, ShellApart
  <2>3. nextPid' > BootThreads
    BY ONLY <2>2, SchedulerAssumption
  <2>4. registered' = registered \cup {nextPid} /\ UNCHANGED <<exiting, pc, job>>
    BY <1>3, Zenon DEF NewTask
  <2>5. Shell \notin registered' \cup exiting'
    BY <1>0, <2>1, <2>4, Zenon DEF ShellApart
  <2> QED
    BY <1>0, <2>3, <2>4, <2>5, Zenon DEF ShellApart
<1>4. ASSUME NEW p \in Pid,
             OneSection(p) \/ ExitStep(p) \/ KillStep(p) \/ StopStep(p) \/ ContStep(p)
      PROVE  ShellApart'
  <2> USE DEF OneSection, CloneThread, Fork, Execve, KernelThreadFinished, SendFatal,
              ExitStep, Exit, ExitGroup, FatalDeliver, ExitGroupOthers, ExitGroupMember,
              ExitGroupReady, ExitCompat, ExitMark, KillStep, Kill, KillMember, KillTake, KillMark,
              ContStep, Cont, ContMember, ContUnrequest, ContResume, ContDone
  <2>1. CASE CloneThread(p) \/ Fork(p)
    BY <1>3, <2>1, Zenon
  <2>2. CASE ~(CloneThread(p) \/ Fork(p))
    <3>1. ~StopStep(p) /\ ~KillReap(p) /\ ~KillUnrequest(p) /\ ~ContRequeue(p)
      BY <1>0, NoStops, Zenon
    <3>2. nextPid' = nextPid /\ registered' \subseteq registered
      BY <1>4, <2>2, <3>1, ZenonT(30) DEF Unregister
    <3>3. \A x \in Pid : JobBound(x)
      BY <1>0, <1>4, JobsFrom, ZenonT(30)
    <3>4. pc'[Shell] = "run"
      <4>1. CASE p = Shell
        <5>1. Shell \notin registered /\ pc[Shell] = "run"
          BY <1>0 DEF ShellApart
        <5>2. SendFatal(p) \/ UNCHANGED pc
          BY <1>4, <2>2, <3>1, <4>1, <5>1, ZenonT(30) DEF MayCall, InUser, At, Signalled
        <5> QED
          BY <5>1, <5>2, ZenonT(30)
      <4>2. CASE p # Shell
        <5>1. UNCHANGED pc \/ \E l : pc' = [pc EXCEPT ![p] = l]
          BY <1>4, <2>2, <3>1, ZenonT(30) DEF Enter, GoTo, KillGoOn
        <5> QED
          BY <1>0, <4>2, <5>1, ZenonT(30) DEF ShellApart
      <4> QED
        BY <4>1, <4>2, ZenonT(30)
    <3>5. \/ exiting' = exiting
          \/ \E x \in {p, job[p].pid} : x # Shell /\ exiting' = exiting \cup {x}
      <4>1. CASE ExitMark(p)
        BY <1>0, <4>1, Zenon DEF ShellApart, At
      <4>2. CASE KillMark(p)
        BY <1>0, <4>2, Zenon DEF ShellApart
      <4> QED
        BY <1>4, <2>2, <3>1, <4>1, <4>2, ZenonT(30)
    <3> HIDE DEF OneSection, ExitStep, KillStep, ContStep
    <3>6. \A x \in Pid :
            Shell \notin job'[x].rest \cup job'[x].others \cup {job'[x].pid, job'[x].goal}
      BY <1>0, <3>3 DEF ShellApart, JobBound
    <3> QED
      BY <1>0, <3>2, <3>4, <3>5, <3>6, ZenonT(30) DEF ShellApart
  <2> QED
    BY <2>1, <2>2, ZenonT(30)
<1>5. CASE UNCHANGED vars
  BY <1>0, <1>5 DEF vars, ShellApart
<1> QED
  BY <1>1, <1>2, <1>3, <1>4, <1>5 DEF Next, Launch

\* The shell is queued again by every tick and every yield, so the queue is not
\* empty when another task leaves and the idle task is not entered again.
LEMMA ShellInRotation ==
    ASSUME "stop" \notin Calls, AInv, [Next]_vars
    PROVE  Shell \in Queued' \cup {cur'} /\ (cur' = Idle => cr3' = Kernel)
<1> USE DEF rotation, registry, locals, memory
<1>0. /\ IInv /\ Calm /\ TypeOK /\ QueueOK(ready) /\ Shell \in Queued \cup {cur}
      /\ Shell \notin registered \cup exiting /\ Shell # Idle
      /\ (cur = Idle => cr3 = Kernel) /\ stopReq = {}
      /\ (cur # Idle => Self \in FrameSet /\ Self.pid = cur)
      /\ \A p \in Pid : Shell \notin job[p].others /\ "stop" \notin pending[p]
  <2>1. QueueOK(ready) /\ (cur # Idle => Self \in FrameSet)
    BY Places, Zenon DEF AInv, UseInv
  <2> QED
    BY <2>1 DEF AInv, UseInv, IInv, Calm, ShellStays, Self, Frame, Shell, Idle
<1>1. ASSUME NEW q, QueueOK(q), Dispatch(q), Shell \in Pids(q)
      PROVE  Shell \in Queued' \cup {cur'} /\ cur' # Idle
  BY <1>0, <1>1, DispatchTakes DEF Queued, Pid, Idle
<1>2. CASE Tick
  <2>1. ~TickStop /\ ~TickPark
    BY <1>0, Zenon DEF TickStop, TickPark, Undisturbed, Signalled, TypeOK
  <2>2. CASE TickRequeue
    <3>1. cur # Idle /\ Dispatch(Enqueue(ready, Self))
      BY <2>2, ZenonT(30) DEF TickRequeue, TickTail, Undisturbed
    <3>2. QueueOK(Enqueue(ready, Self)) /\ Shell \in Pids(Enqueue(ready, Self))
      BY <1>0, <3>1, EnqueueAdds DEF Queued
    <3> QED
      BY <1>1, <3>1, <3>2
  <2>3. CASE TickIdle \/ TickExiting \/ TickKill
    <3>1. Dispatch(ready)
      BY <2>3, Zenon DEF TickIdle, TickExiting, TickKill, TickTail
    <3>2. cur # Shell
      BY <1>0, <2>3, Zenon DEF TickIdle, TickExiting, TickKill, Signalled
    <3> QED
      BY <1>0, <1>1, <3>1, <3>2, Zenon DEF Queued
  <2> QED
    BY <1>2, <2>1, <2>2, <2>3 DEF Tick
<1>3. CASE Yield
  <2>1. cur # Idle /\ (YieldRequeue \/ YieldAlone)
    BY <1>0, <1>3, ZenonT(30) DEF Yield, YieldPark
  <2>2. CASE YieldAlone
    BY <1>0, <2>1, <2>2, ZenonT(30) DEF YieldAlone, Queued
  <2>3. CASE YieldRequeue
    <3>1. PICK e \in Front(ready) : SwitchTo(e, Enqueue(Renumber(ready \ {e}), Self))
      BY <2>3 DEF YieldRequeue
    <3>2. /\ QueueOK(Renumber(ready \ {e})) /\ e.pid \in Pid
          /\ Pids(Renumber(ready \ {e})) = Pids(ready) \ {e.pid}
      BY <1>0, PopTakes, Zenon
    <3>3. Pids(Enqueue(Renumber(ready \ {e}), Self)) = (Pids(ready) \ {e.pid}) \cup {cur}
      BY <1>0, <2>1, <3>2, EnqueueAdds, ZenonT(30)
    <3>4. Queued' = (Queued \ {e.pid}) \cup {cur} /\ cur' = e.pid
      BY <3>1, <3>3 DEF SwitchTo, Queued
    <3>5. cur' # Idle
      <4>1. Idle \notin Pid
        BY DEF Pid, Idle
      <4> QED
        BY <3>2, <3>4, <4>1, Zenon
    <3> QED
      BY <1>0, <3>4, <3>5
  <2> QED
    BY <2>1, <2>2, <2>3
<1>4. ASSUME NEW g, NEW s, NewTask(g, s) PROVE Queued \subseteq Queued' /\ cur' = cur
  BY <1>4 DEF NewTask, Enqueue, Queued, Pids
<1>5. ASSUME NEW p \in Pid, ExitGroupReady(p)
      PROVE  Shell \in Queued' \cup {cur'} /\ (cur' = Idle => cr3' = Kernel)
  <2>1. Pids(Drained(ready, job[p].others)) = Pids(ready) \ job[p].others
    BY <1>0, DrainSplits
  <2> QED
    BY <1>0, <1>5, <2>1, ZenonT(30) DEF ExitGroupReady, Queued
<1>6. ASSUME NEW p \in Pid, OneSection(p)
      PROVE  Queued \subseteq Queued' /\ cur' = cur /\ (UNCHANGED cr3 \/ cur # Idle)
  <2>1. CASE CloneThread(p) \/ Fork(p)
    BY <1>4, <2>1, ZenonT(30) DEF CloneThread, Fork
  <2>2. CASE Execve(p) \/ KernelThreadFinished(p) \/ SendFatal(p)
    BY <2>2 DEF Execve, MayCall, InUser, KernelThreadFinished, SendFatal, Queued
  <2> QED
    BY <1>6, <2>1, <2>2 DEF OneSection
<1>7. ASSUME NEW p \in Pid, ExitStep(p) \/ KillStep(p) \/ StopStep(p) \/ ContStep(p),
             ~ExitGroupReady(p)
      PROVE  UNCHANGED <<ready, cur, cr3>>
  <2>1. ~StopStep(p) /\ ~KillReap(p) /\ ~KillUnrequest(p) /\ ~ContRequeue(p)
    BY <1>0, NoStops, Zenon
  <2> QED
    BY <1>7, <2>1, Zenon DEF ExitStep, Exit, ExitGroup, FatalDeliver, ExitGroupOthers,
       ExitGroupMember, ExitCompat, ExitMark, KillStep, Kill, KillMember, KillTake, KillMark,
       ContStep, Cont, ContMember, ContUnrequest, ContResume, ContDone
<1>8. CASE Launch
  BY <1>0, <1>4, <1>8, ZenonT(30) DEF Launch
<1>9. CASE UNCHANGED vars
  BY <1>0, <1>9, ZenonT(30) DEF vars, Queued
<1>10. ASSUME UNCHANGED <<ready, cur, cr3>>
       PROVE  Shell \in Queued' \cup {cur'} /\ (cur' = Idle => cr3' = Kernel)
  BY <1>0, <1>10, ZenonT(30) DEF Queued
<1> QED
  BY <1>0, <1>2, <1>3, <1>5, <1>6, <1>7, <1>8, <1>9, <1>10, Zenon DEF Next

\* exit_group drops its siblings' frames, all of which have the caller's space.
LEMMA ExitGroupReadyAccounts ==
    ASSUME AInv, NEW p \in Pid, ExitGroupReady(p)
    PROVE  Accounted'
<1>0. /\ QueueOK(ready) /\ ready' = Drained(ready, job[p].others) /\ cur = p /\ p # Idle
      /\ pc[p] = "exit_others" /\ UNCHANGED <<cr3, reaps, freed, nextSpace>>
  <2>1. /\ ready' = Drained(ready, job[p].others) /\ cur = p /\ pc[p] = "exit_others"
        /\ UNCHANGED <<cr3, reaps, memory>>
    BY Zenon DEF ExitGroupReady, At
  <2>2. QueueOK(ready)
    BY Places, Zenon DEF AInv, UseInv
  <2>3. p # Idle
    BY DEF Pid, Idle
  <2> QED
    BY <2>1, <2>2, <2>3, Zenon DEF memory
<1>1. Spaces(ready') = Spaces({e \in ready : e.pid \notin job[p].others})
  BY <1>0, DrainSpaces, Zenon
<1>2. ASSUME NEW e \in ready, e.pid \in job[p].others PROVE e.cr3 = cr3
  <2>1. tgid[e.pid] = tgid[p]
    BY <1>0, <1>2, Zenon DEF AInv, Groups
  <2>2. Frame(e.pid, e.cr3) \in Live /\ Self \in Live
    BY <1>0 DEF Live, FramesOf
  <2>3. Frame(e.pid, e.cr3).cr3 = Self.cr3
    <3>1. Frame(e.pid, e.cr3).pid = e.pid /\ Self.pid = p
      BY <1>0, Zenon DEF Frame, Self
    <3> QED
      BY <2>1, <2>2, <3>1 DEF AInv, Sharing
  <2> QED
    BY <2>3 DEF Frame, Self
<1>3. Spaces(ready) \subseteq Spaces(ready') \cup {cr3}
  BY <1>1, <1>2 DEF Spaces
<1>4. Accounted
  BY Zenon DEF AInv
<1> QED
  BY <1>0, <1>3, <1>4, Zenon DEF Accounted

\* yield_switch queues the caller with its space.
LEMMA YieldAccounts ==
    ASSUME AInv, Yield
    PROVE  Accounted'
<1>0. /\ QueueOK(ready) /\ stopReq = {} /\ cur # Idle /\ Self \in FrameSet /\ Self.pid = cur
      /\ Self.cr3 = cr3 /\ UNCHANGED <<reaps, freed, nextSpace>> /\ cur \notin Queued
  <2>1. cur # Idle /\ UNCHANGED <<reaps, freed, nextSpace>>
    BY DEF Yield, memory
  <2>2. QueueOK(ready) /\ (cur # Idle => Self \in FrameSet) /\ stopReq = {} /\ cur \notin Queued
    BY Places, Zenon DEF AInv, UseInv, Calm, IInv, OneFrame
  <2> QED
    BY <2>1, <2>2 DEF Self, Frame
<1>1. CASE YieldAlone
  BY <1>0, <1>1 DEF YieldAlone, AInv, Accounted
<1>2. CASE YieldRequeue
  <2>1. PICK e \in Front(ready) : SwitchTo(e, Enqueue(Renumber(ready \ {e}), Self))
    BY <1>2 DEF YieldRequeue
  <2> DEFINE r == Renumber(ready \ {e})
  <2>2. /\ Spaces(ready) \subseteq Spaces(r) \cup {e.cr3}
        /\ Pids(r) \subseteq Pids(ready)
    BY <1>0, PopSpaces, PopTakes
  <2>3. Self.pid \notin Pids(r)
    BY <1>0, <2>2, Zenon DEF Queued
  <2>4. Spaces(r) \cup {cr3} \subseteq Spaces(Enqueue(r, Self))
    BY <1>0, <2>3, EnqueueSpaces
  <2>5. ready' = Enqueue(r, Self) /\ cr3' = e.cr3
    BY <2>1 DEF SwitchTo
  <2> HIDE DEF r
  <2> QED
    BY <1>0, <2>2, <2>4, <2>5, Zenon DEF AInv, Accounted
<1> QED
  BY <1>0, <1>1, <1>2, Zenon DEF Yield, YieldPark

\* The space built for a new task or for execve is that task's.
LEMMA NewTaskAccounts ==
    ASSUME AInv, NEW g, NEW s, NewTask(g, s), UNCHANGED cr3,
           UNCHANGED nextSpace \/ (nextSpace' = nextSpace + 1 /\ s = nextSpace)
    PROVE  Accounted'
<1>1. ready' = Enqueue(ready, Frame(nextPid, s)) /\ UNCHANGED <<reaps, freed>>
  BY ZenonT(30) DEF NewTask
<1>2. Frame(nextPid, s).pid \notin Pids(ready)
  BY DEF AInv, UseInv, IInv, TypeOK, Fresh, Queued, Frame
<1>3. Frame(nextPid, s).cr3 = s
  BY DEF Frame
<1>4. Spaces(ready) \cup {s} \subseteq Spaces(ready')
  BY <1>1, <1>2, <1>3, EnqueueSpaces
<1>5. nextSpace \in Nat
  BY DEF AInv, UseInv, IInv, TypeOK
<1>6. \A x \in 1..(nextSpace' - 1) : x \in 1..(nextSpace - 1) \/ x = s
  BY <1>5
<1> QED
  BY <1>1, <1>4, <1>6 DEF AInv, Accounted

\* execve runs on the space built for it; the old one is freed or someone has it.
LEMMA ExecveAccounts ==
    ASSUME AInv, NEW p \in Pid, Execve(p)
    PROVE  Accounted'
<1>1. /\ cr3' = nextSpace /\ nextSpace' = nextSpace + 1 /\ UNCHANGED <<ready, reaps>>
      /\ freed' = IF cr3 = Kernel \/ cr3 \in Spaces(ready) \cup Spaces(reaps)
                  THEN freed ELSE freed \cup {cr3}
  BY DEF Execve, NewSpace
<1>2. nextSpace \in Nat
  BY DEF AInv, UseInv, IInv, TypeOK
<1>3. \A x \in 1..(nextSpace' - 1) : x # Kernel /\ (x \in 1..(nextSpace - 1) \/ x = cr3')
  BY <1>1, <1>2 DEF Kernel
<1> QED
  BY <1>1, <1>3, ZenonT(30) DEF AInv, Accounted

\* Every step keeps the invariant of the account.
LEMMA AccountKeeps ==
    ASSUME {"stop", "execve_threaded"} \cap Calls = {}, AInv, [Next]_vars
    PROVE  AInv'
<1>0. "stop" \notin Calls /\ "execve_threaded" \notin Calls
  OBVIOUS
<1>1. UseInv' /\ Groups'
  BY <1>0, UseKeeps, GroupsKeep, ZenonT(30) DEF AInv
<1>2. ShellStays'
  BY <1>0, ShellKeepsApart, ShellInRotation DEF ShellStays, ShellApart
<1>3. /\ Sharing /\ Accounted /\ IInv /\ Calm /\ TypeOK /\ nextSpace \in Nat /\ cr3 \in Space
      /\ tgid \in [Pid -> Pid] /\ cur \in Pid \cup {Idle} /\ nextPid \in Nat
      /\ nextPid > BootThreads
  BY Zenon DEF AInv, UseInv, IInv, TypeOK, ShellStays
<1>4. ASSUME nextPid <= MaxPid PROVE nextPid \in Pid
  BY <1>3, <1>4, SchedulerAssumption DEF Pid
<1>5. ASSUME NewSpace PROVE nextSpace \in Space /\ nextSpace' = nextSpace + 1
  BY <1>3, <1>5, SchedulerAssumption DEF NewSpace, Space
<1>6. ASSUME Launch \/ \E p \in Pid : Fork(p)
      PROVE  Sharing' /\ Accounted'
  <2>1. NewTask(nextPid, nextSpace) /\ NewSpace /\ UNCHANGED cr3
    BY <1>6 DEF Launch, Fork
  <2>2. nextPid \in Pid
    BY <1>4, <2>1 DEF NewTask
  <2> QED
    BY <1>5, <2>1, <2>2, NewTaskSharing, NewTaskAccounts, Zenon
<1>7. ASSUME NEW p \in Pid, CloneThread(p)
      PROVE  Sharing' /\ Accounted'
  <2>1. NewTask(tgid[p], cr3) /\ UNCHANGED <<cr3, nextSpace>> /\ cur = p /\ cur # Idle
    BY <1>7 DEF CloneThread, MayCall, InUser
  <2>2. tgid[p] \in Pid
    BY <1>3
  <2> QED
    BY <1>3, <2>1, <2>2, NewTaskSharing, NewTaskAccounts, ZenonT(30)
<1>8. ASSUME NEW p \in Pid, Execve(p)
      PROVE  Sharing' /\ Accounted'
  BY <1>0, <1>8, ExecveSharing, ExecveAccounts
<1>9. ASSUME Tick \/ Yield
      PROVE  Sharing' /\ Accounted'
  BY <1>9, SwitchKeepsSharing, TickKeepsAccount, YieldAccounts
<1>10. ASSUME NEW p \in Pid, ExitGroupReady(p)
       PROVE  Sharing' /\ Accounted'
  <2>1. /\ QueueOK(ready) /\ ready' = Drained(ready, job[p].others)
        /\ UNCHANGED <<cur, cr3, tgid>>
    BY <1>3, <1>10, Places, ZenonT(30) DEF ExitGroupReady, registry
  <2>2. FramesOf(ready') \subseteq FramesOf(ready) /\ Self' = Self
    BY <2>1, QueueFrames DEF Self
  <2>3. Live' \subseteq Live
    BY <2>1, <2>2, ZenonT(30) DEF Live
  <2> QED
    BY <1>3, <1>10, <2>1, <2>3, SharingFrom, ExitGroupReadyAccounts
<1>11. ASSUME UNCHANGED <<cur, cr3, ready, reaps, tgid, freed, nextSpace>>
       PROVE  Sharing' /\ Accounted'
  BY <1>3, <1>11 DEF Sharing, Live, FramesOf, Self, Accounted
<1>12. ASSUME NEW p \in Pid, \/ ExitStep(p) \/ KillStep(p) \/ StopStep(p) \/ ContStep(p)
                             \/ KernelThreadFinished(p) \/ SendFatal(p),
              ~ExitGroupReady(p)
       PROVE  UNCHANGED <<cur, cr3, ready, reaps, tgid, freed, nextSpace>>
  <2>1. ~StopStep(p) /\ ~KillReap(p) /\ ~KillUnrequest(p) /\ ~ContRequeue(p)
    BY <1>0, <1>3, NoStops, Zenon
  <2> QED
    BY <1>12, <2>1, Zenon DEF ExitStep, Exit, ExitGroup, FatalDeliver, ExitGroupOthers,
       ExitGroupMember, ExitCompat, ExitMark, KillStep, Kill, KillMember, KillTake, KillMark,
       ContStep, Cont, ContMember, ContUnrequest, ContResume, ContDone, KernelThreadFinished, SendFatal,
       Unregister, rotation, registry, memory
<1>13. Sharing' /\ Accounted'
  <2>1. CASE UNCHANGED vars
    BY <1>11, <2>1 DEF vars, rotation, registry, memory
  <2> QED
    BY <1>6, <1>7, <1>8, <1>9, <1>10, <1>11, <1>12, <2>1, Zenon DEF Next, OneSection
<1> QED
  BY <1>1, <1>2, <1>13 DEF AInv

\* No space has been built when kernel_main is done.
LEMMA AccountInit == Init => AInv
<1> SUFFICES ASSUME Init PROVE AInv
  OBVIOUS
<1> USE SchedulerAssumption
<1>1. UseInv
  BY UseInit
<1>2. Groups
  BY Zenon DEF Init, Groups, Pid
<1>3. Sharing
  <2>1. \A e \in ready : e.cr3 = Kernel
    <3> DEFINE B(p) == [pid |-> p, cr3 |-> Kernel, slot |-> p]
    <3>1. ready = {B(p) : p \in 1..BootThreads}
      BY Zenon DEF Init
    <3>2. \A p \in 1..BootThreads : B(p).cr3 = Kernel
      BY Zenon
    <3> HIDE DEF B
    <3> QED
      BY <3>1, <3>2, Zenon
  <2>2. Live = FramesOf(ready)
    BY Zenon DEF Init, Live
  <2>3. \A f \in FramesOf(ready) : f.cr3 = Kernel
    <3>1. \A e \in ready : Frame(e.pid, e.cr3).cr3 = e.cr3
      BY Zenon DEF Frame
    <3> QED
      BY <2>1, <3>1, Zenon DEF FramesOf
  <2> QED
    BY <2>2, <2>3, ZenonT(30) DEF Sharing
<1>4. ShellStays
  <2>1. Shell \in 1..BootThreads
    BY ONLY SchedulerAssumption DEF Shell
  <2>2. ready = {[pid |-> p, cr3 |-> Kernel, slot |-> p] : p \in 1..BootThreads}
    BY DEF Init
  <2>3. [pid |-> Shell, cr3 |-> Kernel, slot |-> Shell] \in ready
    BY <2>1, <2>2, Zenon
  <2>4. Shell \in Queued
    BY <2>3 DEF Queued, Pids
  <2>5. Shell \in Pid /\ Shell # Idle
    BY DEF Shell, Pid, Idle
  <2>6. /\ registered = {} /\ exiting = {} /\ pc[Shell] = "run" /\ cr3 = Kernel
        /\ nextPid = BootThreads + 1 /\ job = [p \in Pid |-> NoJob]
    BY <2>5, Zenon DEF Init
  <2>7. \A p \in Pid : Shell \notin job[p].rest \cup job[p].others \cup {job[p].pid, job[p].goal}
    BY <2>5, <2>6, ZenonT(30) DEF NoJob
  <2> QED
    BY <2>4, <2>6, <2>7 DEF ShellStays
<1>5. Accounted
  BY DEF Init, Accounted
<1> QED
  BY <1>1, <1>2, <1>3, <1>4, <1>5, Zenon DEF AInv

\* No address space is forgotten: until it is freed it is loaded, queued with a
\* task or named by a pending reap, so that reap_exited_tasks gets to free it.
\* For any number of tasks, spaces and calls, without stop signals (a parked
\* space is freed) and without execve in a process with other threads (their
\* frames, dropped by exit_group, may then be the last with the old space).
THEOREM SpaceAccountedHolds ==
    ASSUME {"stop", "execve_threaded"} \cap Calls = {}
    PROVE  Spec => []SpaceAccounted
<1>1. AInv => SpaceAccounted
  BY InUseCalm DEF AInv, UseInv, Accounted, SpaceAccounted
<1>2. AInv /\ [Next]_vars => AInv'
  BY AccountKeeps
<1> QED
  BY <1>1, <1>2, AccountInit, PTL DEF Spec
============================================================================
