-------------------------- MODULE SchedulerProofs --------------------------
(***************************************************************************)
(* Proofs, for every value of the constants, that the scheduler keeps its  *)
(* types and that a task's frame is never in two places (OneFrame).        *)
(***************************************************************************)
EXTENDS Scheduler, FiniteSetTheorems, TLAPS

USE SchedulerAssumption

QueueOK(q) == q \subseteq Entry /\ Unique(q)
FramesOK(fs) == fs \subseteq FrameSet /\ Unique(fs)
----------------------------------------------------------------------------
(* The operators on queues and on sets of frames.                          *)

\* A queue that holds each pid once is finite, so its length is a number.
LEMMA QueueFinite ==
    ASSUME NEW q, QueueOK(q)
    PROVE  IsFiniteSet(q) /\ \A r \in SUBSET q : Cardinality(r) \in Nat
<1>1. IsFiniteSet(Pid)
  BY FS_Interval DEF Pid
<1> DEFINE f == [e \in q |-> e.pid]
<1>2. f \in Injection(q, Pid)
  BY DEF QueueOK, Unique, Entry, Injection, IsInjective
<1>3. IsFiniteSet(q)
  BY <1>1, <1>2, FS_Injection
<1> QED
  BY <1>3, FS_Subset, FS_CardinalityType

\* Renumbering keeps the tasks and their address spaces.
LEMMA RenumberKeeps ==
    ASSUME NEW q, QueueOK(q)
    PROVE  QueueOK(Renumber(q)) /\ Pids(Renumber(q)) = Pids(q)
<1> DEFINE n(e) == 1 + Cardinality({g \in q : g.slot < e.slot})
           F(e) == [e EXCEPT !.slot = n(e)]
           R == {F(e) : e \in q}
<1>1. R = Renumber(q)
  BY DEF Renumber
<1>2. \A e \in q : n(e) \in Nat
  BY QueueFinite
<1> HIDE DEF n
<1>3. \A e \in q : F(e) \in Entry /\ F(e).pid = e.pid
  BY <1>2 DEF QueueOK, Entry
<1> HIDE DEF F
<1>4. \A d, e \in q : F(d).pid = F(e).pid => F(d) = F(e)
  BY <1>3 DEF QueueOK, Unique
<1>5. QueueOK(R)
  BY <1>3, <1>4 DEF QueueOK, Unique
<1>6. Pids(R) = Pids(q)
  BY <1>3 DEF Pids
<1> QED
  BY <1>1, <1>5, <1>6

\* A push adds the task of the frame and no second entry.
LEMMA EnqueueAdds ==
    ASSUME NEW q, QueueOK(q), NEW f \in FrameSet
    PROVE  QueueOK(Enqueue(q, f)) /\ Pids(Enqueue(q, f)) = Pids(q) \cup {f.pid}
<1>1. Cardinality(q) + 1 \in Nat
  BY QueueFinite
<1> DEFINE e == [pid |-> f.pid, cr3 |-> f.cr3, slot |-> Cardinality(q) + 1]
<1>2. e \in Entry /\ e.pid = f.pid
  BY <1>1 DEF Entry, FrameSet
<1>3. CASE f.pid \in Pids(q)
  BY <1>3 DEF Enqueue
<1>4. CASE f.pid \notin Pids(q)
  <2>1. Enqueue(q, f) = q \cup {e}
    BY <1>4 DEF Enqueue
  <2> HIDE DEF e
  <2> QED
    BY <1>2, <1>4, <2>1 DEF Pids, QueueOK, Unique
<1> QED
  BY <1>3, <1>4

\* A drain splits the queue.
LEMMA DrainSplits ==
    ASSUME NEW q, QueueOK(q), NEW pids
    PROVE  /\ QueueOK(Drained(q, pids)) /\ Pids(Drained(q, pids)) = Pids(q) \ pids
           /\ FramesOK(DrainedFrames(q, pids))
           /\ Pids(DrainedFrames(q, pids)) = Pids(q) \cap pids
<1> DEFINE r == {e \in q : e.pid \notin pids}
<1>1. QueueOK(r) /\ Pids(r) = Pids(q) \ pids
  BY DEF QueueOK, Unique, Pids
<1>2. QueueOK(Drained(q, pids)) /\ Pids(Drained(q, pids)) = Pids(q) \ pids
  BY <1>1, RenumberKeeps, Zenon DEF Drained
<1>3. FramesOK(DrainedFrames(q, pids))
  BY DEF FramesOK, QueueOK, DrainedFrames, Frame, FrameSet, Entry, Unique
<1>4. \A e \in q : Frame(e.pid, e.cr3).pid = e.pid
  BY DEF Frame
<1>5. Pids(DrainedFrames(q, pids)) = Pids(q) \cap pids
  BY <1>4 DEF Pids, DrainedFrames
<1> QED
  BY <1>2, <1>3, <1>5

\* A pop takes one task out.
LEMMA PopTakes ==
    ASSUME NEW q, QueueOK(q), NEW e \in Front(q)
    PROVE  /\ e.pid \in Pid /\ e.cr3 \in Space /\ e.pid \in Pids(q)
           /\ QueueOK(Renumber(q \ {e}))
           /\ Pids(Renumber(q \ {e})) = Pids(q) \ {e.pid}
<1>1. e \in q
  BY DEF Front
<1>2. QueueOK(q \ {e}) /\ Pids(q \ {e}) = Pids(q) \ {e.pid}
  BY <1>1 DEF QueueOK, Unique, Pids
<1> QED
  BY <1>1, <1>2, RenumberKeeps, Zenon DEF QueueOK, Entry, Pids

\* The pids of frames are pids.
LEMMA FramePids ==
    ASSUME NEW fs \in SUBSET FrameSet
    PROVE  Pids(fs) \subseteq Pid
  BY DEF Pids, FrameSet

\* Parking adds the tasks of the frames.
LEMMA ParkAdds ==
    ASSUME NEW fs, FramesOK(fs), FramesOK(stopped)
    PROVE  FramesOK(Parked(fs)) /\ Pids(Parked(fs)) = Pids(stopped) \cup Pids(fs)
  BY DEF FramesOK, Unique, Parked, Pids
----------------------------------------------------------------------------
(* The timer tick.                                                         *)

\* schedule and the switch move one task from the queue to the CPU, or none.
LEMMA DispatchTakes ==
    ASSUME TypeOK, NEW q, QueueOK(q), Dispatch(q)
    PROVE  /\ QueueOK(ready') /\ cr3' \in Space
           /\ \/ cur' = Idle /\ Pids(ready') = {} /\ Pids(q) = {}
              \/ /\ cur' \in Pid /\ cur' \in Pids(q)
                 /\ Pids(ready') = Pids(q) \ {cur'}
<1>1. CASE q = {} /\ cur' = Idle /\ ready' = {} /\ UNCHANGED cr3
  BY <1>1 DEF QueueOK, Unique, Pids, TypeOK
<1>2. ASSUME NEW e \in Front(q),
             cur' = e.pid, cr3' = e.cr3, ready' = Renumber(q \ {e})
      PROVE  /\ QueueOK(ready') /\ cr3' \in Space
             /\ cur' \in Pid /\ cur' \in Pids(q)
             /\ Pids(ready') = Pids(q) \ {cur'}
  BY <1>2, PopTakes
<1> QED
  BY <1>1, <1>2, Zenon DEF Dispatch

\* The reaper moves at most one pid from the pending reaps to the reaped ones.
LEMMA ReapMoves ==
    ASSUME TypeOK, NEW q, NEW rs \in SUBSET FrameSet, ReapOne(q, rs)
    PROVE  /\ reaps' \subseteq FrameSet /\ freed' \subseteq Space \ {Kernel}
           /\ reaped' \subseteq Pid /\ Gone' = Pids(rs) \cup reaped
<1> DEFINE late == {f \in rs : f.pid # cur}
<1>1. CASE late = {}
  BY <1>1 DEF ReapOne, TypeOK, Gone, Pids
<1>2. CASE late # {}
  <2>1. PICK f \in late :
            /\ reaps' = rs \ {f} /\ reaped' = reaped \cup {f.pid}
            /\ freed' = IF Exclusive(f, q, rs) THEN freed \cup {f.cr3} ELSE freed
    BY <1>2 DEF ReapOne
  <2>2. f \in rs /\ f.pid \in Pid /\ f.cr3 \in Space
    BY DEF FrameSet
  <2>3. freed' \subseteq Space \ {Kernel}
    BY <2>1, <2>2 DEF Exclusive, TypeOK
  <2>4. Pids(rs) = Pids(rs \ {f}) \cup {f.pid}
    BY <2>2 DEF Pids
  <2> QED
    BY <2>1, <2>2, <2>3, <2>4 DEF TypeOK, Gone
<1> QED
  BY <1>1, <1>2

\* CURRENT_PID is below NEXT_PID, so the idle pid 0 is.
LEMMA IdleBelow ==
    ASSUME NEW c \in Pid \cup {Idle}, NEW n \in Nat, c < n
    PROVE  Idle < n
  BY DEF Pid, Idle

\* The tail of a tick over a queue, pending reaps and a parked set that do not
\* overlap leaves every frame in one place.
LEMMA TickPlaces ==
    ASSUME IInv, NEW q, QueueOK(q), NEW rs \in SUBSET FrameSet,
           TickTail(q, rs), FramesOK(stopped'),
           Pids(q) \cap (Pids(stopped') \cup HeldPids \cup Pids(rs) \cup reaped) = {},
           Pids(stopped') \cap (HeldPids \cup Pids(rs) \cup reaped) = {},
           HeldPids \cap (Pids(rs) \cup reaped) = {},
           \A x \in Pids(q) \cup Pids(stopped') \cup Pids(rs) : x < nextPid,
           exiting' \subseteq Pid, stopReq' \subseteq Pid, registered' \subseteq Pid,
           tgid' \in [Pid -> Pid], pending' \in [Pid -> SUBSET {"term", "stop"}]
    PROVE  IInv'
<1> USE DEF IInv
<1>1. /\ QueueOK(ready') /\ cr3' \in Space
      /\ \/ cur' = Idle /\ Pids(ready') = {} /\ Pids(q) = {}
         \/ /\ cur' \in Pid /\ cur' \in Pids(q)
            /\ Pids(ready') = Pids(q) \ {cur'}
  BY DispatchTakes DEF TickTail
<1>2. /\ reaps' \subseteq FrameSet /\ freed' \subseteq Space \ {Kernel}
      /\ reaped' \subseteq Pid /\ Gone' = Pids(rs) \cup reaped
  BY ReapMoves DEF TickTail
<1>3. UNCHANGED <<pc, job, held, nextPid, nextSpace, calls>>
  BY DEF TickTail, locals
<1>4. TypeOK'
  BY <1>1, <1>2, <1>3 DEF TypeOK, QueueOK, FramesOK, Idle
<1>5. HeldPids' = HeldPids
  BY <1>3 DEF HeldPids
<1>6. Idle \notin HeldPids \cup Pids(stopped') \cup Pids(rs) \cup reaped
  <2>1. \A p \in Pid : Pids(held[p]) \subseteq Pid
    BY FramePids DEF TypeOK
  <2>2. HeldPids \subseteq Pid
    BY <2>1 DEF HeldPids
  <2>3. Pids(stopped') \cup Pids(rs) \cup reaped \subseteq Pid
    BY FramePids DEF FramesOK, TypeOK
  <2>4. Idle \notin Pid
    BY DEF Idle, Pid
  <2> QED
    BY <2>2, <2>3, <2>4
<1>7. OneFrame'
  BY <1>1, <1>2, <1>3, <1>5, <1>6 DEF OneFrame, QueueOK, FramesOK, Queued, ParkedPids
<1>8. Idle < nextPid /\ \A x \in HeldPids \cup reaped : x < nextPid
  <2>1. cur \in Pid \cup {Idle} /\ nextPid \in Nat
    BY Zenon DEF TypeOK
  <2>2. cur < nextPid
    BY Zenon DEF Fresh
  <2>3. Idle < nextPid
    BY <2>1, <2>2, IdleBelow, Zenon
  <2>4. \A x \in HeldPids \cup reaped : x < nextPid
    BY Zenon DEF Fresh, Gone
  <2> QED
    BY <2>3, <2>4, Zenon
<1>9. Fresh'
  BY <1>1, <1>2, <1>3, <1>5, <1>8 DEF Fresh, Queued, ParkedPids
<1>10. JobOK'
  BY <1>3 DEF JobOK
<1> QED
  BY <1>4, <1>7, <1>9, <1>10

\* What the invariant says of the places, in the form the steps use.
LEMMA Places ==
    ASSUME IInv
    PROVE  /\ QueueOK(ready) /\ FramesOK(stopped)
           /\ \A p \in Pid : FramesOK(held[p])
           /\ cur # Idle => Self \in FrameSet /\ Pids({Self}) = {cur}
           /\ FramesOK({Self}) \/ cur = Idle
<1>1. cur # Idle => Self \in FrameSet /\ Pids({Self}) = {cur}
  BY DEF IInv, TypeOK, Self, Frame, FrameSet, Pids
<1> QED
  BY <1>1, Zenon DEF IInv, OneFrame, TypeOK, QueueOK, FramesOK, Unique

\* scheduler_tick_irq keeps the invariant, whatever it does with the interrupted task.
LEMMA TickKeeps == IInv /\ Tick => IInv'
<1> SUFFICES ASSUME IInv, Tick PROVE IInv'
  OBVIOUS
<1> USE DEF rotation, registry, Queued, ParkedPids, Gone
<1>0. /\ QueueOK(ready) /\ FramesOK(stopped) /\ reaps \in SUBSET FrameSet
      /\ TypeOK /\ OneFrame /\ Fresh
      /\ cur # Idle => Self \in FrameSet /\ Pids({Self}) = {cur} /\ Self.pid = cur
  BY Places, Zenon DEF IInv, TypeOK, Self, Frame
<1>00. /\ exiting \subseteq Pid /\ stopReq \subseteq Pid /\ registered \subseteq Pid
       /\ tgid \in [Pid -> Pid] /\ pending \in [Pid -> SUBSET {"term", "stop"}]
  BY <1>0, Zenon DEF TypeOK
<1>01. /\ Pids(ready) \cap (Pids(stopped) \cup HeldPids \cup {cur} \cup Pids(reaps) \cup reaped) = {}
       /\ Pids(stopped) \cap (HeldPids \cup {cur} \cup Pids(reaps) \cup reaped) = {}
       /\ HeldPids \cap ({cur} \cup Pids(reaps) \cup reaped) = {}
       /\ cur \notin Pids(reaps) \cup reaped
       /\ \A x \in Pids(ready) \cup Pids(stopped) \cup Pids(reaps) \cup {cur} : x < nextPid
  BY <1>0 DEF OneFrame, Fresh
<1>1. CASE TickIdle
  <2>1. TickTail(ready, reaps) /\ UNCHANGED <<stopped, exiting, stopReq, registered, tgid, pending>>
    BY <1>1 DEF TickIdle
  <2> QED BY <1>0, <1>00, <1>01, <2>1, TickPlaces
<1>2. CASE TickExiting
  <2> DEFINE rs == Without(reaps, cur) \cup {Self}
  <2>1. rs \in SUBSET FrameSet /\ Pids(rs) \subseteq Pids(reaps) \cup {cur}
    BY <1>0, <1>2 DEF TickExiting, Without, Pids
  <2>2. /\ TickTail(ready, rs) /\ exiting' \subseteq exiting
        /\ UNCHANGED <<stopped, stopReq, registered, tgid, pending>>
    BY <1>2 DEF TickExiting
  <2> HIDE DEF rs
  <2>3. /\ Pids(ready) \cap (Pids(stopped') \cup HeldPids \cup Pids(rs) \cup reaped) = {}
        /\ Pids(stopped') \cap (HeldPids \cup Pids(rs) \cup reaped) = {}
        /\ HeldPids \cap (Pids(rs) \cup reaped) = {}
    BY <1>01, <2>1, <2>2
  <2>4. \A x \in Pids(ready) \cup Pids(stopped') \cup Pids(rs) : x < nextPid
    BY <1>01, <2>1, <2>2
  <2>5. exiting' \subseteq Pid
    BY <1>00, <2>2
  <2> QED BY <1>0, <1>00, <2>1, <2>2, <2>3, <2>4, <2>5, TickPlaces
<1>3. CASE TickKill
  <2> DEFINE group == GroupPids(tgid[cur])
             parked == {f \in stopped : f.pid \in group \ {cur}}
             rs == {f \in reaps : f.pid \notin Pids(parked) \cup {cur}}
                       \cup parked \cup {Self}
  <2>1. /\ Unregister(group) /\ stopped' = stopped \ parked
        /\ stopReq' = stopReq \ (Pids(parked) \cup {cur})
        /\ exiting' = exiting \cup ((group \ {cur}) \ Pids(parked))
        /\ TickTail(ready, rs) /\ cur # Idle
    BY <1>3 DEF TickKill, Undisturbed
  <2>2. group \subseteq Pid
    BY <1>0, Zenon DEF GroupPids, TypeOK
  <2> HIDE DEF group
  <2>3. /\ FramesOK(stopped \ parked)
        /\ Pids(stopped \ parked) = Pids(stopped) \ Pids(parked)
        /\ Pids(parked) \subseteq Pids(stopped) /\ parked \subseteq stopped
    BY <1>0 DEF FramesOK, Unique, Pids
  <2> HIDE DEF parked
  <2>4. rs \in SUBSET FrameSet /\ Pids(rs) \subseteq Pids(reaps) \cup Pids(parked) \cup {cur}
    BY <1>0, <2>1, <2>3 DEF Pids, FramesOK
  <2> HIDE DEF rs
  <2>5. /\ exiting' \subseteq Pid /\ stopReq' \subseteq Pid /\ registered' \subseteq Pid
        /\ tgid' \in [Pid -> Pid] /\ pending' \in [Pid -> SUBSET {"term", "stop"}]
    BY <1>0, <2>1, <2>2 DEF Unregister, TypeOK
  <2>6. /\ Pids(ready) \cap (Pids(stopped') \cup HeldPids \cup Pids(rs) \cup reaped) = {}
        /\ Pids(stopped') \cap (HeldPids \cup Pids(rs) \cup reaped) = {}
        /\ HeldPids \cap (Pids(rs) \cup reaped) = {}
    BY <1>0, <2>1, <2>3, <2>4, Zenon DEF OneFrame
  <2>7. \A x \in Pids(ready) \cup Pids(stopped') \cup Pids(rs) : x < nextPid
    BY <1>0, <2>1, <2>3, <2>4 DEF Fresh
  <2> QED
    BY <1>0, <2>1, <2>3, <2>4, <2>5, <2>6, <2>7, TickPlaces, Zenon
<1>4. CASE TickStop
  <2> DEFINE siblings == GroupPids(tgid[cur]) \ {cur}
             drained == DrainedFrames(ready, siblings)
             frames == drained \cup {Self}
             q == Drained(ready, siblings)
  <2>1. /\ pending' = [pending EXCEPT ![cur] = @ \ {"stop"}]
        /\ stopped' = Parked(frames) /\ stopReq' = stopReq \ Pids(frames)
        /\ TickTail(q, reaps) /\ cur # Idle
        /\ UNCHANGED <<exiting, registered, tgid>>
    BY <1>4 DEF TickStop, Undisturbed
  <2> HIDE DEF siblings
  <2>2. /\ QueueOK(q) /\ Pids(q) = Pids(ready) \ siblings
        /\ FramesOK(drained) /\ Pids(drained) = Pids(ready) \cap siblings
    BY <1>0, DrainSplits
  <2> HIDE DEF q, drained
  <2>3. FramesOK(frames) /\ Pids(frames) = (Pids(ready) \cap siblings) \cup {cur}
    <3>1. cur \notin Pids(drained)
      BY <1>01, <2>2
    <3>2. Self \in FrameSet /\ Self.pid = cur /\ drained \subseteq FrameSet
      BY <1>0, <2>1, <2>2 DEF FramesOK
    <3> DEFINE self == Self
    <3> HIDE DEF self
    <3>3. \A e \in drained : e.pid # self.pid
      BY <3>1, <3>2 DEF Pids, self
    <3>4. Unique(drained \cup {self})
      BY <2>2, <3>3 DEF FramesOK, Unique
    <3>5. Pids(drained \cup {self}) = Pids(drained) \cup {self.pid}
      BY DEF Pids
    <3>6. frames = drained \cup {self} /\ self.pid = cur /\ self \in FrameSet
      BY <3>2 DEF self
    <3> QED
      BY <2>2, <3>2, <3>4, <3>5, <3>6 DEF FramesOK
  <2> HIDE DEF frames
  <2>4. /\ FramesOK(stopped')
        /\ Pids(stopped') = Pids(stopped) \cup (Pids(ready) \cap siblings) \cup {cur}
    BY <1>0, <2>1, <2>3, ParkAdds
  <2>5. stopReq' \subseteq Pid /\ pending' \in [Pid -> SUBSET {"term", "stop"}]
    BY <1>0, <2>1 DEF TypeOK
  <2>6. /\ Pids(q) \cap (Pids(stopped') \cup HeldPids \cup Pids(reaps) \cup reaped) = {}
        /\ Pids(stopped') \cap (HeldPids \cup Pids(reaps) \cup reaped) = {}
        /\ HeldPids \cap (Pids(reaps) \cup reaped) = {}
    BY <1>0, <2>2, <2>4 DEF OneFrame
  <2>7. \A x \in Pids(q) \cup Pids(stopped') \cup Pids(reaps) : x < nextPid
    BY <1>0, <2>2, <2>4 DEF Fresh
  <2> QED
    BY <1>0, <1>00, <2>1, <2>2, <2>4, <2>5, <2>6, <2>7, TickPlaces
<1>5. CASE TickPark
  <2>1. FramesOK(Parked({Self})) /\ Pids(Parked({Self})) = Pids(stopped) \cup {cur}
    BY <1>0, <1>5, Places, ParkAdds, Zenon DEF TickPark, Undisturbed
  <2>2. /\ TickTail(ready, reaps) /\ stopped' = Parked({Self})
        /\ stopReq' = stopReq \ {cur} /\ UNCHANGED <<exiting, registered, tgid, pending>>
    BY <1>5 DEF TickPark
  <2> DEFINE parked == stopped'
  <2>a. FramesOK(parked) /\ Pids(parked) = Pids(stopped) \cup {cur}
    BY <2>1, <2>2
  <2> HIDE DEF parked
  <2>3. /\ Pids(ready) \cap (Pids(parked) \cup HeldPids \cup Pids(reaps) \cup reaped) = {}
        /\ Pids(parked) \cap (HeldPids \cup Pids(reaps) \cup reaped) = {}
        /\ HeldPids \cap (Pids(reaps) \cup reaped) = {}
    BY <1>01, <2>a
  <2>4. \A x \in Pids(ready) \cup Pids(parked) \cup Pids(reaps) : x < nextPid
    BY <1>01, <2>a
  <2>5. stopReq' \subseteq Pid /\ exiting' \subseteq Pid /\ registered' \subseteq Pid
    BY <1>00, <2>2
  <2>6. tgid' \in [Pid -> Pid] /\ pending' \in [Pid -> SUBSET {"term", "stop"}]
    BY <1>00, <2>2
  <2> QED
    BY <1>0, <2>2, <2>a, <2>3, <2>4, <2>5, <2>6, TickPlaces, Zenon DEF parked
<1>6. CASE TickRequeue
  <2> DEFINE q == Enqueue(ready, Self)
  <2>1. QueueOK(q) /\ Pids(q) = Pids(ready) \cup {cur}
    BY <1>0, <1>6, EnqueueAdds DEF TickRequeue, Undisturbed
  <2>2. TickTail(q, reaps) /\ UNCHANGED <<stopped, exiting, stopReq, registry>>
    BY <1>6 DEF TickRequeue
  <2> HIDE DEF q
  <2>3. UNCHANGED <<stopped, exiting, stopReq, registered, tgid, pending>>
    BY <2>2
  <2>4. Pids(q) \cap (Pids(stopped') \cup HeldPids \cup Pids(reaps) \cup reaped) = {}
    BY <1>01, <2>1, <2>3
  <2>5. \A x \in Pids(q) \cup Pids(stopped') \cup Pids(reaps) : x < nextPid
    BY <1>01, <2>1, <2>3
  <2> QED
    BY <1>0, <1>00, <1>01, <2>1, <2>2, <2>3, <2>4, <2>5, TickPlaces
<1> QED
  BY <1>1, <1>2, <1>3, <1>4, <1>5, <1>6 DEF Tick
----------------------------------------------------------------------------
(* Steps that move no frame.                                               *)

\* A step that moves no frame and keeps the types keeps the invariant.
LEMMA SameFrames ==
    ASSUME IInv, TypeOK', JobOK',
           UNCHANGED <<cur, ready, stopped, held, reaps, reaped, nextPid>>
    PROVE  IInv'
<1>1. /\ Queued' = Queued /\ ParkedPids' = ParkedPids
      /\ HeldPids' = HeldPids /\ Gone' = Gone
  BY DEF Queued, ParkedPids, HeldPids, Gone
<1>2. OneFrame'
  BY <1>1 DEF IInv, OneFrame
<1>3. Fresh'
  BY <1>1 DEF IInv, Fresh
<1> QED
  BY <1>2, <1>3 DEF IInv

\* The loop over a group goes to its next member and leaves the other tasks' loops.
LEMMA NextMemberMoves ==
    ASSUME TypeOK, NEW p \in Pid, NEW m \in Pid, NextMember(p, m)
    PROVE  /\ job' \in [Pid -> Job]
           /\ job'[p].pid = m /\ job'[p].goal = job[p].goal
           /\ \A q \in Pid : q # p => job'[q] = job[q]
<1> DEFINE j == [job[p] EXCEPT !.pid = m, !.rest = job[p].rest \ {m}]
<1>1. job[p] \in Job /\ job \in [Pid -> Job]
  BY DEF TypeOK
<1>2. j \in Job /\ j.pid = m /\ j.goal = job[p].goal
  BY <1>1, Zenon DEF Job
<1>3. job' = [job EXCEPT ![p] = j]
  BY DEF NextMember
<1> HIDE DEF j
<1> QED
  BY <1>1, <1>2, <1>3

\* execve, a fatal signal and the end of a kernel thread move no frame.
LEMMA OneSectionKeeps ==
    ASSUME IInv, NEW p \in Pid,
           Execve(p) \/ KernelThreadFinished(p) \/ SendFatal(p)
    PROVE  IInv'
<1> USE DEF rotation, registry, locals, memory, IInv
<1>1. CASE Execve(p)
  <2>1. TypeOK'
    BY <1>1 DEF TypeOK, Execve, MayCall, CallOnce, NewSpace, Space, Kernel
  <2>2. JobOK'
    BY <1>1, Zenon DEF Execve, JobOK
  <2> QED
    BY <1>1, <2>1, <2>2, SameFrames, ZenonT(30) DEF Execve
<1>2. CASE KernelThreadFinished(p)
  <2>1. TypeOK' /\ JobOK'
    BY <1>2 DEF TypeOK, JobOK, KernelThreadFinished, Labels
  <2> QED
    BY <1>2, <2>1, SameFrames DEF KernelThreadFinished
<1>3. CASE SendFatal(p)
  <2>1. TypeOK'
    BY <1>3 DEF TypeOK, SendFatal, CallOnce
  <2>2. JobOK'
    BY <1>3, Zenon DEF SendFatal, JobOK
  <2> QED
    BY <1>3, <2>1, <2>2, SameFrames, Zenon DEF SendFatal
<1> QED
  BY <1>1, <1>2, <1>3

\* The sections of exit and exit_group that move no frame.
LEMMA ExitKeeps ==
    ASSUME IInv, NEW p \in Pid,
           \/ Exit(p) \/ ExitGroup(p) \/ FatalDeliver(p) \/ ExitGroupOthers(p)
           \/ ExitGroupMember(p) \/ ExitCompat(p) \/ ExitMark(p)
    PROVE  IInv'
<1> USE DEF rotation, registry, locals, memory, IInv, GoTo, At, Labels
<1>1. CASE Exit(p)
  <2>1. TypeOK'
    BY <1>1 DEF TypeOK, Exit, MayCall, CallOnce
  <2>2. JobOK'
    BY <1>1 DEF TypeOK, JobOK, Exit
  <2> QED
    BY <1>1, <2>1, <2>2, SameFrames DEF Exit
<1>2. CASE ExitGroup(p)
  <2>0. /\ TypeOK /\ JobOK /\ pc' = [pc EXCEPT ![p] = "exit_group"]
        /\ calls < MaxCalls /\ calls' = calls + 1
        /\ UNCHANGED <<rotation, registry, job, held, memory>>
    BY <1>2, Zenon DEF ExitGroup, MayCall, CallOnce
  <2>a. pc' \in [Pid -> Labels] /\ calls' \in 0..MaxCalls
    BY <2>0 DEF TypeOK
  <2>1. TypeOK' /\ JobOK'
    <3>1. TypeOK'
      BY <2>0, <2>a, ZenonT(30) DEF TypeOK
    <3>2. JobOK'
      BY <2>0 DEF TypeOK, JobOK
    <3> QED
      BY <3>1, <3>2, Zenon
  <2> QED
    BY <1>2, <2>1, SameFrames DEF ExitGroup
<1>3. CASE FatalDeliver(p)
  <2>1. TypeOK' /\ JobOK'
    BY <1>3, Zenon DEF TypeOK, JobOK, FatalDeliver
  <2> QED
    BY <1>3, <2>1, SameFrames, ZenonT(30) DEF FatalDeliver
<1>4. CASE ExitGroupOthers(p)
  <2>1. TypeOK' /\ JobOK'
    BY <1>4, Zenon DEF TypeOK, JobOK, ExitGroupOthers, Enter, GroupPids, NoJob, Job, Idle
  <2> QED
    BY <1>4, <2>1, SameFrames DEF ExitGroupOthers, Enter
<1>5. CASE ExitGroupMember(p)
  <2>0. PICK m \in job[p].rest : Unregister({m}) /\ NextMember(p, m)
    BY <1>5, Zenon DEF ExitGroupMember, Least
  <2>a. m \in Pid
    BY DEF TypeOK, Job
  <2>b. /\ job' \in [Pid -> Job]
        /\ \A q \in Pid : q # p => job'[q] = job[q]
    BY <2>0, <2>a, NextMemberMoves, Zenon
  <2>1. TypeOK' /\ JobOK'
    BY <1>5, <2>0, <2>b, Zenon DEF TypeOK, JobOK, ExitGroupMember, Unregister
  <2> QED
    BY <1>5, <2>1, SameFrames, Zenon DEF ExitGroupMember
<1>6. CASE ExitCompat(p)
  <2>1. TypeOK' /\ JobOK'
    BY <1>6, Zenon DEF TypeOK, JobOK, ExitCompat, Unregister
  <2> QED
    BY <1>6, <2>1, SameFrames DEF ExitCompat
<1>7. CASE ExitMark(p)
  <2>1. TypeOK' /\ JobOK'
    BY <1>7, ZenonT(30) DEF TypeOK, JobOK, ExitMark
  <2> QED
    BY <1>7, <2>1, SameFrames DEF ExitMark
<1> QED
  BY <1>1, <1>2, <1>3, <1>4, <1>5, <1>6, <1>7

\* The end of one member's kill.
LEMMA KillGoOnKeeps ==
    ASSUME TypeOK, JobOK, NEW p \in Pid, KillGoOn(p),
           pc[p] \in {"pend_reap", "mark_exiting"}
    PROVE  pc' \in [Pid -> Labels] /\ job' \in [Pid -> Job] /\ JobOK'
<1>1. NoJob \in Job
  BY Zenon DEF NoJob, Job, Idle
<1>2. CASE job[p].pid = job[p].goal
  BY <1>1, <1>2 DEF KillGoOn, GoTo, TypeOK, JobOK, Labels
<1>3. CASE job[p].pid # job[p].goal
  BY <1>3 DEF KillGoOn, GoTo, TypeOK, JobOK, Labels
<1> QED
  BY <1>2, <1>3, Zenon

\* The sections of force_terminate_group and request_exit that move no frame.
LEMMA KillKeeps ==
    ASSUME IInv, NEW p \in Pid,
           \/ \E q \in Pid : Kill(p, q)
           \/ KillMember(p) \/ KillUnrequest(p) \/ KillMark(p)
    PROVE  IInv'
<1> USE DEF rotation, registry, locals, memory, IInv, GoTo, At, Labels
<1>1. ASSUME NEW q \in Pid, Kill(p, q) PROVE IInv'
  <2> DEFINE j == [NoJob EXCEPT !.goal = q, !.rest = GroupPids(tgid[q]) \ {q}]
  <2>0. j \in Job /\ j.goal = q
    BY Zenon DEF TypeOK, GroupPids, NoJob, Job, Idle
  <2>a. /\ job' = [job EXCEPT ![p] = j] /\ pc' = [pc EXCEPT ![p] = "kill"]
        /\ calls' = calls + 1 /\ calls < MaxCalls
        /\ UNCHANGED <<rotation, registry, held, memory>>
    BY <1>1, Zenon DEF Kill, Enter, MayCall, CallOnce
  <2> HIDE DEF j
  <2>b. TypeOK'
    <3>1. calls' \in 0..MaxCalls
      <4>1. calls \in 0..MaxCalls
        BY Zenon DEF TypeOK
      <4> QED
        BY <2>a, <4>1
    <3>2. pc' \in [Pid -> Labels] /\ job' \in [Pid -> Job]
      <4>1. pc \in [Pid -> Labels] /\ job \in [Pid -> Job]
        BY Zenon DEF TypeOK
      <4>2. "stop" \in Labels
        BY Zenon DEF Labels
      <4> QED
        BY <2>0, <2>a, <4>1, <4>2, Zenon
    <3> QED
      BY <2>a, <3>1, <3>2, ZenonT(30) DEF TypeOK, rotation, registry, memory
  <2>c. JobOK'
    BY <2>0, <2>a DEF TypeOK, JobOK
  <2>1. TypeOK' /\ JobOK'
    BY <2>b, <2>c, Zenon
  <2> QED
    BY <1>1, <2>1, SameFrames, Zenon DEF Kill, Enter
<1>2. CASE KillMember(p)
  <2>1. PICK m \in Pid : Unregister({m}) /\ NextMember(p, m)
    BY <1>2, ZenonT(30) DEF KillMember, Least, TypeOK, JobOK, Job
  <2>2. /\ job' \in [Pid -> Job] /\ job'[p].pid = m /\ job'[p].goal = job[p].goal
        /\ \A q \in Pid : q # p => job'[q] = job[q]
    BY <2>1, NextMemberMoves
  <2>3. TypeOK' /\ JobOK'
    BY <1>2, <2>1, <2>2, Zenon DEF TypeOK, JobOK, KillMember, Unregister
  <2> QED
    BY <1>2, <2>3, SameFrames DEF KillMember
<1>3. CASE KillUnrequest(p)
  <2>1. TypeOK' /\ JobOK'
    BY <1>3, Zenon DEF TypeOK, JobOK, KillUnrequest
  <2> QED
    BY <1>3, <2>1, SameFrames DEF KillUnrequest
<1>4. CASE KillMark(p)
  <2>1. TypeOK' /\ JobOK'
    BY <1>4, KillGoOnKeeps, Zenon DEF TypeOK, JobOK, KillMark
  <2> QED
    BY <1>4, <2>1, SameFrames, Zenon DEF KillMark
<1> QED
  BY <1>1, <1>2, <1>3, <1>4

\* The sections of send_signal and begin_group_stop that move no frame.
LEMMA StopKeeps ==
    ASSUME IInv, NEW p \in Pid,
           \/ \E q \in Pid : Stop(p, q)
           \/ StopCheck(p) \/ StopQueue(p) \/ StopDeliver(p) \/ StopSiblings(p)
           \/ StopUnrequest(p) \/ StopRequest(p)
    PROVE  IInv'
<1> USE DEF rotation, registry, locals, memory, IInv, GoTo, At, Labels
<1>1. ASSUME NEW q \in Pid, Stop(p, q) PROVE IInv'
  <2> DEFINE j == [NoJob EXCEPT !.goal = q, !.rest = GroupPids(tgid[q])]
  <2>0. j \in Job
    BY Zenon DEF TypeOK, GroupPids, NoJob, Job, Idle
  <2>a. /\ job' = [job EXCEPT ![p] = j] /\ pc' = [pc EXCEPT ![p] = "stop"]
        /\ calls' = calls + 1 /\ calls < MaxCalls
        /\ UNCHANGED <<rotation, registry, held, memory>>
    BY <1>1, Zenon DEF Stop, Enter, MayCall, CallOnce
  <2> HIDE DEF j
  <2>b. TypeOK'
    <3>1. calls' \in 0..MaxCalls
      <4>1. calls \in 0..MaxCalls
        BY Zenon DEF TypeOK
      <4> QED
        BY <2>a, <4>1
    <3>2. pc' \in [Pid -> Labels] /\ job' \in [Pid -> Job]
      <4>1. pc \in [Pid -> Labels] /\ job \in [Pid -> Job]
        BY Zenon DEF TypeOK
      <4>2. "stop" \in Labels
        BY Zenon DEF Labels
      <4> QED
        BY <2>0, <2>a, <4>1, <4>2, Zenon
    <3> QED
      BY <2>a, <3>1, <3>2, ZenonT(30) DEF TypeOK, rotation, registry, memory
  <2>c. JobOK'
    BY <2>0, <2>a DEF TypeOK, JobOK
  <2>1. TypeOK' /\ JobOK'
    BY <2>b, <2>c
  <2> QED
    BY <1>1, <2>1, SameFrames, Zenon DEF Stop, Enter
<1>2. CASE StopCheck(p)
  <2>0. PICK m \in job[p].rest :
          \/ Enter(p, "run", NoJob)
          \/ NextMember(p, m) /\ UNCHANGED <<pc, held>>
    BY <1>2, Zenon DEF StopCheck, Least
  <2>a. m \in Pid
    BY DEF TypeOK, Job
  <2>1. CASE Enter(p, "run", NoJob)
    <3>1. TypeOK' /\ JobOK'
      BY <1>2, <2>1, Zenon DEF TypeOK, JobOK, StopCheck, Enter, NoJob, Job, Idle
    <3> QED
      BY <1>2, <2>1, <3>1, SameFrames, Zenon DEF StopCheck, Enter
  <2>2. CASE NextMember(p, m) /\ UNCHANGED <<pc, held>>
    <3>1. /\ job' \in [Pid -> Job]
          /\ \A q \in Pid : q # p => job'[q] = job[q]
      BY <2>2, <2>a, NextMemberMoves, Zenon
    <3>2. TypeOK' /\ JobOK'
      BY <1>2, <2>2, <3>1, Zenon DEF TypeOK, JobOK, StopCheck
    <3> QED
      BY <1>2, <2>2, <3>2, SameFrames, Zenon DEF StopCheck
  <2> QED
    BY <2>0, <2>1, <2>2, ZenonT(30)
<1>3. CASE StopQueue(p)
  <2>1. pending' \in [Pid -> SUBSET {"term", "stop"}]
    <3> DEFINE q == job[p].goal
    <3>1. /\ pending \in [Pid -> SUBSET {"term", "stop"}]
          /\ registered \subseteq Pid
      BY DEF TypeOK
    <3>2. \/ UNCHANGED pending
          \/ /\ q \in registered
             /\ pending' = [pending EXCEPT ![q] = @ \cup {"stop"}]
      BY <1>3, Zenon DEF StopQueue
    <3> HIDE DEF q
    <3> QED
      BY <3>1, <3>2
  <2>2. TypeOK' /\ JobOK'
    BY <1>3, <2>1, ZenonT(30) DEF TypeOK, JobOK, StopQueue, Enter, NoJob, Job, Idle
  <2> QED
    BY <1>3, <2>2, SameFrames, Zenon DEF StopQueue, Enter
<1>4. CASE StopDeliver(p)
  <2>1. TypeOK' /\ JobOK'
    BY <1>4, Zenon DEF TypeOK, JobOK, StopDeliver
  <2> QED
    BY <1>4, <2>1, SameFrames DEF StopDeliver
<1>5. CASE StopSiblings(p)
  <2>1. TypeOK' /\ JobOK'
    BY <1>5 DEF TypeOK, JobOK, StopSiblings, Enter, GroupPids, NoJob, Job, Idle
  <2> QED
    BY <1>5, <2>1, SameFrames DEF StopSiblings, Enter
<1>6. CASE StopUnrequest(p)
  <2>1. PICK f \in held[p] :
          /\ job' = [job EXCEPT ![p] = [NoJob EXCEPT !.pid = f.pid]]
          /\ stopReq' = stopReq \ {f.pid}
    BY <1>6, Zenon DEF StopUnrequest
  <2>2. f.pid \in Pid
    BY DEF TypeOK, FrameSet
  <2>3. [NoJob EXCEPT !.pid = f.pid] \in Job
    BY <2>2 DEF NoJob, Job, Idle
  <2>4. TypeOK' /\ JobOK'
    BY <1>6, <2>1, <2>3 DEF TypeOK, JobOK, StopUnrequest
  <2> QED
    BY <1>6, <2>4, SameFrames DEF StopUnrequest
<1>7. CASE StopRequest(p)
  <2>1. TypeOK' /\ JobOK'
    BY <1>7, ZenonT(30) DEF TypeOK, JobOK, StopRequest, Enter, NoJob, Job, Idle
  <2> QED
    BY <1>7, <2>1, SameFrames, ZenonT(30) DEF StopRequest, Enter
<1> QED
  BY <1>1, <1>2, <1>3, <1>4, <1>5, <1>6, <1>7

\* The sections of resume_group and resume_stopped that move no frame.
LEMMA ContKeeps ==
    ASSUME IInv, NEW p \in Pid,
           \/ \E q \in Pid : Cont(p, q)
           \/ ContMember(p) \/ ContUnrequest(p) \/ ContDone(p)
    PROVE  IInv'
<1> USE DEF rotation, registry, locals, memory, IInv, GoTo, At, Labels
<1>1. ASSUME NEW q \in Pid, Cont(p, q) PROVE IInv'
  <2> DEFINE j == [NoJob EXCEPT !.rest = GroupPids(tgid[q])]
  <2>1. j \in Job
    BY DEF TypeOK, GroupPids, NoJob, Job, Idle
  <2>2. /\ job' = [job EXCEPT ![p] = j] /\ pc' = [pc EXCEPT ![p] = "cont"]
        /\ calls' = calls + 1 /\ calls < MaxCalls
        /\ UNCHANGED <<rotation, registry, held, memory>>
    BY <1>1 DEF Cont, Enter, MayCall, CallOnce
  <2> HIDE DEF j
  <2>3. TypeOK'
    BY <2>1, <2>2 DEF TypeOK
  <2>4. JobOK'
    BY <2>2 DEF TypeOK, JobOK
  <2> QED
    BY <2>2, <2>3, <2>4, SameFrames
<1>2. CASE ContMember(p)
  <2>1. PICK m \in job[p].rest :
          pending' = [pending EXCEPT ![m] = @ \ {"stop"}] /\ NextMember(p, m)
    BY <1>2, Zenon DEF ContMember, Least
  <2>2. m \in Pid
    BY ZenonT(30) DEF TypeOK, Job
  <2>3. /\ job' \in [Pid -> Job] /\ job'[p].pid = m
        /\ \A q \in Pid : q # p => job'[q] = job[q]
    BY <2>1, <2>2, NextMemberMoves
  <2>4. /\ pc' = [pc EXCEPT ![p] = "cont_request"]
        /\ UNCHANGED <<rotation, registered, tgid, held, memory, calls>>
    BY <1>2, ZenonT(30) DEF ContMember
  <2>5. pending' \in [Pid -> SUBSET {"term", "stop"}]
    BY <2>1, <2>2, ZenonT(30) DEF TypeOK
  <2>6. pc' \in [Pid -> Labels] /\ \A q \in Pid : pc'[q] = IF q = p THEN "cont_request" ELSE pc[q]
    BY <2>4, ZenonT(30) DEF TypeOK
  <2>7. TypeOK'
    BY <2>3, <2>4, <2>5, <2>6, ZenonT(30) DEF TypeOK
  <2>8. JobOK'
    BY <2>2, <2>3, <2>6, Zenon DEF JobOK
  <2> QED
    BY <2>4, <2>7, <2>8, SameFrames, Zenon
<1>3. CASE ContUnrequest(p)
  <2>1. TypeOK' /\ JobOK'
    BY <1>3, Zenon DEF TypeOK, JobOK, ContUnrequest
  <2> QED
    BY <1>3, <2>1, SameFrames DEF ContUnrequest
<1>4. CASE ContDone(p)
  <2>1. TypeOK' /\ JobOK'
    BY <1>4, Zenon DEF TypeOK, JobOK, ContDone, Enter, NoJob, Job, Idle
  <2> QED
    BY <1>4, <2>1, SameFrames, Zenon DEF ContDone, Enter
<1> QED
  BY <1>1, <1>2, <1>3, <1>4
----------------------------------------------------------------------------
(* Steps that move frames.                                                 *)

\* The pids in the locals of the tasks other than p.
HeldByOthers(p) == UNION {Pids(held[q]) : q \in Pid \ {p}}

\* Places before a step of p, with p's own locals apart.
LEMMA PlacesOf ==
    ASSUME IInv, NEW p \in Pid
    PROVE  /\ HeldPids = HeldByOthers(p) \cup Pids(held[p])
           /\ HeldByOthers(p) \cap Pids(held[p]) = {}
  BY DEF IInv, OneFrame, HeldByOthers, HeldPids

\* A step that leaves the places, with p's locals now fs, without overlap and
\* within the pids handed out keeps the invariant.
LEMMA MovedFrames ==
    ASSUME IInv, TypeOK', JobOK', NEW p \in Pid, NEW fs, FramesOK(fs),
           held' = [held EXCEPT ![p] = fs],
           QueueOK(ready'), FramesOK(stopped'),
           Pids(fs) \cap HeldByOthers(p) = {},
           Queued' \cap (ParkedPids' \cup HeldByOthers(p) \cup Pids(fs) \cup {cur'} \cup Gone') = {},
           ParkedPids' \cap (HeldByOthers(p) \cup Pids(fs) \cup {cur'} \cup Gone') = {},
           (HeldByOthers(p) \cup Pids(fs)) \cap ({cur'} \cup Gone') = {},
           cur' \notin Gone',
           \A x \in Queued' \cup ParkedPids' \cup HeldByOthers(p) \cup Pids(fs)
                     \cup {cur'} \cup Gone' : x < nextPid'
    PROVE  IInv'
<1>1. held \in [Pid -> SUBSET FrameSet]
  BY Zenon DEF IInv, TypeOK
<1>2. held'[p] = fs /\ \A q \in Pid \ {p} : held'[q] = held[q]
  BY <1>1
<1>3. HeldPids' = HeldByOthers(p) \cup Pids(fs)
  BY <1>2 DEF HeldPids, HeldByOthers
<1>4. \A q \in Pid : Unique(held'[q])
  BY <1>2 DEF IInv, OneFrame, FramesOK
<1>5. \A q \in Pid \ {p} : Pids(held[q]) \subseteq HeldByOthers(p)
  BY Zenon DEF HeldByOthers
<1>6. \A q, r \in Pid : q # r => Pids(held'[q]) \cap Pids(held'[r]) = {}
  BY <1>2, <1>5, ZenonT(30) DEF IInv, OneFrame
<1>7. OneFrame'
  BY <1>3, <1>4, <1>6, Zenon DEF OneFrame, QueueOK, FramesOK
<1>8. Fresh'
  BY <1>3 DEF Fresh
<1> QED
  BY <1>7, <1>8, Zenon DEF IInv

\* The facts of a state that every moving step of p starts from.
LEMMA Before ==
    ASSUME IInv, NEW p \in Pid
    PROVE  /\ TypeOK /\ OneFrame /\ Fresh /\ JobOK
           /\ QueueOK(ready) /\ FramesOK(stopped) /\ FramesOK(held[p])
           /\ held = [held EXCEPT ![p] = held[p]]
           /\ HeldPids = HeldByOthers(p) \cup Pids(held[p])
           /\ HeldByOthers(p) \cap Pids(held[p]) = {}
<1>1. held = [held EXCEPT ![p] = held[p]]
  BY DEF IInv, TypeOK
<1> QED
  BY <1>1, Places, PlacesOf DEF IInv

\* NEXT_PID has passed the boot threads; no task gets the pid of the idle task.
LEMMA NextPidPositive ==
    ASSUME IInv
    PROVE  nextPid \in Nat /\ cur \in Nat /\ cur < nextPid /\ nextPid > 0
<1>1. cur < nextPid
  BY DEF IInv, Fresh
<1>2. nextPid \in Nat /\ cur \in Nat
  BY DEF IInv, TypeOK, Pid, Idle
<1> QED
  BY <1>1, <1>2

\* Every pid that occurs is a natural number.
LEMMA PidsAreNat ==
    ASSUME TypeOK
    PROVE  Queued \cup ParkedPids \cup HeldPids \cup {cur} \cup Gone \subseteq Nat
<1>1. Pid \subseteq Nat /\ Idle \in Nat
  BY DEF Pid, Idle
<1>2. Queued \subseteq Pid
  BY DEF TypeOK, Queued, Pids, Entry
<1>3. \A p \in Pid : Pids(held[p]) \subseteq Pid
  BY FramePids DEF TypeOK
<1>4. HeldPids \subseteq Pid
  BY <1>3 DEF HeldPids
<1>5. ParkedPids \cup Gone \subseteq Pid
  BY FramePids, Zenon DEF TypeOK, ParkedPids, Gone
<1> QED
  BY <1>1, <1>2, <1>4, <1>5, Zenon DEF TypeOK

\* clone, fork and the shell's launch: the new task's pid is nowhere yet.
LEMMA NewTaskKeeps ==
    ASSUME IInv, NEW p \in Pid, NEW g \in Pid, NEW s \in Space, NewTask(g, s),
           cr3' \in Space, nextSpace' \in Nat, calls' \in 0..MaxCalls
    PROVE  IInv'
<1> USE DEF locals
<1>1. nextPid \in Pid
  <2>1. nextPid \in Nat /\ cur \in Nat /\ cur < nextPid /\ nextPid <= MaxPid
    BY NextPidPositive DEF NewTask
  <2> QED
    BY <2>1 DEF Pid
<1> DEFINE f == Frame(nextPid, s)
<1>2. f \in FrameSet /\ f.pid = nextPid
  BY <1>1 DEF Frame, FrameSet
<1>3. ready' = Enqueue(ready, f)
  BY DEF NewTask
<1> HIDE DEF f
<1>4. QueueOK(ready') /\ Queued' = Queued \cup {nextPid}
  BY <1>2, <1>3, Before, EnqueueAdds DEF Queued
<1>5. nextPid \notin Queued \cup ParkedPids \cup HeldPids \cup {cur} \cup Gone
  <2>1. nextPid \in Nat /\ ~(nextPid < nextPid)
    BY DEF IInv, TypeOK
  <2> QED
    BY <2>1 DEF IInv, Fresh
<1>6. /\ ParkedPids' = ParkedPids /\ Gone' = Gone /\ cur' = cur /\ held' = held
      /\ FramesOK(stopped') /\ nextPid' = nextPid + 1
  BY Before, Zenon DEF NewTask, ParkedPids, Gone
<1>7. TypeOK'
  BY <1>1, <1>4 DEF NewTask, IInv, TypeOK, QueueOK
<1>8. JobOK'
  BY Zenon DEF NewTask, IInv, JobOK
<1>9. \A x \in Queued \cup ParkedPids \cup HeldPids \cup {cur} \cup Gone \cup {nextPid} :
         x < nextPid + 1
  <2>1. \A x \in Queued \cup ParkedPids \cup HeldPids \cup {cur} \cup Gone :
            x \in Nat /\ x < nextPid
    <3>1. Queued \cup ParkedPids \cup HeldPids \cup {cur} \cup Gone \subseteq Nat
      BY PidsAreNat DEF IInv
    <3> QED
      BY <3>1 DEF IInv, Fresh
  <2> QED
    BY <2>1 DEF IInv, TypeOK
<1> QED
  BY <1>4, <1>5, <1>6, <1>7, <1>8, <1>9, Before, MovedFrames DEF OneFrame

\* run_linux_binary, clone and fork keep the invariant.
LEMMA SpawnKeeps ==
    ASSUME IInv, Launch \/ \E p \in Pid : CloneThread(p) \/ Fork(p)
    PROVE  IInv'
<1> USE DEF IInv
<1>1. nextPid \in Nat /\ nextPid > 0
  BY NextPidPositive, Zenon
<1>2. CASE Launch
  <2>1. nextPid \in Pid /\ nextSpace \in Space /\ nextSpace' \in Nat
    <3>1. nextPid <= MaxPid /\ nextSpace <= MaxSpace /\ nextSpace' = nextSpace + 1
      BY <1>2, Zenon DEF Launch, NewTask, NewSpace
    <3>2. nextSpace \in Nat
      BY Zenon DEF TypeOK
    <3> QED
      BY <1>1, <3>1, <3>2 DEF Pid, Space
  <2> QED
    BY <1>2, <2>1, NewTaskKeeps, Zenon DEF Launch, TypeOK
<1>3. ASSUME NEW p \in Pid, CloneThread(p) PROVE IInv'
  <2>1. tgid[p] \in Pid /\ cr3 \in Space /\ calls' \in 0..MaxCalls
    <3>1. tgid \in [Pid -> Pid] /\ cr3 \in Space /\ calls \in 0..MaxCalls
      BY Zenon DEF TypeOK
    <3>2. calls < MaxCalls /\ calls' = calls + 1
      BY <1>3, Zenon DEF CloneThread, MayCall, CallOnce
    <3> QED
      BY <3>1, <3>2
  <2> QED
    BY <1>3, <2>1, NewTaskKeeps, ZenonT(30) DEF CloneThread, TypeOK
<1>4. ASSUME NEW p \in Pid, Fork(p) PROVE IInv'
  <2>1. nextPid \in Pid /\ nextSpace \in Space /\ nextSpace' \in Nat
    <3>1. nextPid <= MaxPid /\ nextSpace <= MaxSpace /\ nextSpace' = nextSpace + 1
      BY <1>4, Zenon DEF Fork, NewTask, NewSpace
    <3>2. nextSpace \in Nat
      BY Zenon DEF TypeOK
    <3> QED
      BY <1>1, <3>1, <3>2 DEF Pid, Space
  <2>2. calls' \in 0..MaxCalls
    <3>1. calls \in 0..MaxCalls
      BY Zenon DEF TypeOK
    <3>2. calls < MaxCalls /\ calls' = calls + 1
      BY <1>4, Zenon DEF Fork, MayCall, CallOnce
    <3> QED
      BY <3>1, <3>2
  <2> QED
    BY <1>4, <2>1, <2>2, NewTaskKeeps, ZenonT(30) DEF Fork, TypeOK
<1> QED
  BY <1>2, <1>3, <1>4

\* scheduler_yield_switch: the caller goes to the queue or is parked.
LEMMA YieldKeeps == IInv /\ Yield => IInv'
<1> SUFFICES ASSUME IInv, Yield PROVE IInv'
  OBVIOUS
<1> USE DEF registry, memory
<1>0. PICK p \in Pid : p = cur
  <2>1. cur \in Pid \cup {Idle} /\ cur # Idle
    BY Zenon DEF IInv, TypeOK, Yield
  <2> QED
    BY <2>1, Zenon
<1>1. /\ TypeOK /\ OneFrame /\ Fresh /\ JobOK /\ QueueOK(ready) /\ FramesOK(stopped)
      /\ FramesOK(held[p]) /\ held = [held EXCEPT ![p] = held[p]]
      /\ HeldPids = HeldByOthers(p) \cup Pids(held[p])
      /\ HeldByOthers(p) \cap Pids(held[p]) = {}
  BY <1>0, Before
<1>2. Self \in FrameSet /\ Self.pid = cur /\ Pids({Self}) = {cur} /\ FramesOK({Self})
  BY <1>0, Places DEF Self, Frame, Idle, Pid
<1>3. /\ pc' = [pc EXCEPT ![cur] = "run"]
      /\ UNCHANGED <<exiting, reaps, registry, job, held, memory, calls>>
  BY DEF Yield
<1>4. JobOK'
  <2>1. pc \in [Pid -> Labels]
    BY <1>1 DEF TypeOK
  <2>2. \A q \in Pid : (pc'[q] = pc[q] \/ pc'[q] = "run") /\ job'[q] = job[q]
    BY <1>3, <2>1
  <2> QED
    BY <1>1, <2>2 DEF JobOK
<1>5. Gone' = Gone
  BY <1>3 DEF Gone
<1>6. SUFFICES /\ QueueOK(ready') /\ FramesOK(stopped') /\ stopReq' \subseteq Pid
               /\ cur' \in Pid \cup {Idle} /\ cr3' \in Space
               /\ cur' \in Queued \cup {cur, Idle} /\ cur' \notin Queued'
               /\ Queued' \cup ParkedPids' \subseteq Queued \cup ParkedPids \cup {cur}
               /\ cur' \notin ParkedPids' /\ Queued' \cap ParkedPids' = {}
  <2>1. TypeOK'
    BY <1>1, <1>3, <1>6, ZenonT(30) DEF TypeOK, QueueOK, FramesOK, Labels
  <2>2. cur' \notin HeldPids \cup Gone /\ cur' < nextPid
    <3>1. Idle \notin HeldPids \cup Gone
      <4>1. \A q \in Pid : Pids(held[q]) \subseteq Pid
        BY <1>1, FramePids, ZenonT(30) DEF TypeOK
      <4>2. HeldPids \cup Gone \subseteq Pid
        BY <1>1, <4>1, FramePids DEF TypeOK, Gone, HeldPids
      <4> QED
        BY <4>2 DEF Idle, Pid
    <3>2. Idle < nextPid
      BY NextPidPositive DEF Idle
    <3> QED
      BY <1>1, <1>6, <3>1, <3>2 DEF OneFrame, Fresh
  <2>3. \A x \in Queued' \cup ParkedPids' \cup HeldPids \cup {cur'} \cup Gone : x < nextPid
    BY <1>1, <1>6, <2>2, ZenonT(30) DEF Fresh
  <2>4. (Queued' \cup ParkedPids') \cap (HeldPids \cup Gone) = {} /\ HeldPids \cap Gone = {}
    BY <1>1, <1>6 DEF OneFrame
  <2>5. held' = [held EXCEPT ![p] = held[p]] /\ nextPid' = nextPid
    BY <1>1, <1>3, Zenon
  <2>6. /\ Queued' \cap (ParkedPids' \cup HeldByOthers(p) \cup Pids(held[p])
                        \cup {cur'} \cup Gone') = {}
        /\ ParkedPids' \cap (HeldByOthers(p) \cup Pids(held[p]) \cup {cur'} \cup Gone') = {}
        /\ (HeldByOthers(p) \cup Pids(held[p])) \cap ({cur'} \cup Gone') = {}
        /\ cur' \notin Gone'
    BY <1>1, <1>5, <1>6, <2>2, <2>4, ZenonT(30)
  <2>7. \A x \in Queued' \cup ParkedPids' \cup HeldByOthers(p) \cup Pids(held[p])
                  \cup {cur'} \cup Gone' : x < nextPid'
    BY <1>1, <1>5, <2>3, <2>5
  <2>8. Pids(held[p]) \cap HeldByOthers(p) = {} /\ FramesOK(held[p])
    BY <1>1
  <2>9. QueueOK(ready') /\ FramesOK(stopped')
    BY <1>6
  <2> QED
    BY <1>4, <2>1, <2>5, <2>6, <2>7, <2>8, <2>9, MovedFrames, Zenon
<1>7. cur \notin Queued \cup ParkedPids
  BY <1>1 DEF OneFrame
<1>8. CASE YieldRequeue
  <2>1. PICK e \in Front(ready) :
            SwitchTo(e, Enqueue(Renumber(ready \ {e}), Self))
    BY <1>8 DEF YieldRequeue
  <2>2. /\ e.pid \in Pid /\ e.cr3 \in Space /\ e.pid \in Queued
        /\ QueueOK(Renumber(ready \ {e}))
        /\ Pids(Renumber(ready \ {e})) = Queued \ {e.pid}
    BY <1>1, PopTakes DEF Queued
  <2>3. QueueOK(ready') /\ Queued' = (Queued \ {e.pid}) \cup {cur}
    BY <1>2, <2>1, <2>2, EnqueueAdds, Zenon DEF SwitchTo, Queued
  <2>4. stopped' = stopped /\ stopReq' = stopReq /\ ParkedPids' = ParkedPids
    BY <1>8 DEF YieldRequeue, ParkedPids
  <2> QED
    BY <1>1, <1>7, <2>1, <2>2, <2>3, <2>4, Zenon DEF SwitchTo, OneFrame, TypeOK
<1>9. CASE YieldPark
  <2>1. /\ FramesOK(stopped') /\ ParkedPids' = ParkedPids \cup {cur}
        /\ stopReq' \subseteq Pid
    BY <1>1, <1>2, <1>9, ParkAdds, ZenonT(30) DEF YieldPark, ParkedPids, TypeOK
  <2>2. CASE ready = {}
    <3>1. cur' = Idle /\ cr3' = cr3 /\ ready' = ready /\ Queued' = {} /\ Queued = {}
      BY <1>9, <2>2, Zenon DEF YieldPark, Queued, Pids
    <3>2. Idle \notin ParkedPids'
      BY <1>0, <1>1, <2>1, FramePids DEF FramesOK, ParkedPids, Idle, Pid
    <3> QED
      BY <1>1, <2>1, <3>1, <3>2 DEF TypeOK
  <2>3. CASE ready # {}
    <3>1. PICK e \in Front(ready) : SwitchTo(e, Renumber(ready \ {e}))
      BY <1>9, <2>3 DEF YieldPark
    <3>2. /\ e.pid \in Pid /\ e.cr3 \in Space /\ e.pid \in Queued
          /\ QueueOK(ready') /\ Queued' = Queued \ {e.pid}
          /\ cur' = e.pid /\ cr3' = e.cr3
      BY <1>1, <3>1, PopTakes, Zenon DEF SwitchTo, Queued
    <3> QED
      BY <1>1, <1>7, <2>1, <3>2 DEF OneFrame
  <2> QED
    BY <2>2, <2>3
<1>10. CASE YieldAlone
  <2>1. UNCHANGED <<cur, cr3, ready, stopped, stopReq>>
    BY <1>10 DEF YieldAlone
  <2>2. Queued' = Queued /\ ParkedPids' = ParkedPids
    BY <2>1 DEF Queued, ParkedPids
  <2> QED
    BY <1>0, <1>1, <1>7, <2>1, <2>2 DEF TypeOK, OneFrame
<1> QED
  BY <1>8, <1>9, <1>10, Zenon DEF Yield

\* exit_group drops the frames of the others from the queue.
LEMMA ExitGroupReadyKeeps ==
    ASSUME IInv, NEW p \in Pid, ExitGroupReady(p)
    PROVE  IInv'
<1> USE DEF registry, memory
<1>1. /\ TypeOK /\ OneFrame /\ Fresh /\ JobOK /\ QueueOK(ready) /\ FramesOK(stopped)
      /\ FramesOK(held[p]) /\ held = [held EXCEPT ![p] = held[p]]
      /\ HeldPids = HeldByOthers(p) \cup Pids(held[p])
      /\ HeldByOthers(p) \cap Pids(held[p]) = {}
  BY Before
<1>2. QueueOK(ready') /\ Queued' \subseteq Queued
  BY <1>1, DrainSplits DEF ExitGroupReady, Queued
<1>a. NoJob \in Job /\ "exit" \in Labels
  BY DEF NoJob, Job, Idle, Labels
<1>b. TypeOK'
  BY <1>1, <1>2, <1>a, Zenon DEF ExitGroupReady, TypeOK, QueueOK, GoTo
<1>c. JobOK'
  <2>1. pc \in [Pid -> Labels] /\ job \in [Pid -> Job]
    BY <1>1 DEF TypeOK
  <2>2. pc' = [pc EXCEPT ![p] = "exit"] /\ job' = [job EXCEPT ![p] = NoJob]
    BY Zenon DEF ExitGroupReady, GoTo
  <2>3. \A q \in Pid : pc'[q] = "exit" \/ (pc'[q] = pc[q] /\ job'[q] = job[q])
    BY <2>1, <2>2
  <2> QED
    BY <1>1, <2>3 DEF JobOK
<1>3. TypeOK' /\ JobOK'
  BY <1>b, <1>c
<1>4. /\ ParkedPids' = ParkedPids /\ Gone' = Gone
      /\ UNCHANGED <<cur, stopped, held, nextPid>>
  BY Zenon DEF ExitGroupReady, ParkedPids, Gone
<1> QED
  BY <1>1, <1>2, <1>3, <1>4, MovedFrames DEF OneFrame, Fresh

\* SIGKILL takes a parked frame, and pends its reap.
LEMMA KillTakeKeeps ==
    ASSUME IInv, NEW p \in Pid, KillTake(p)
    PROVE  IInv'
<1> USE DEF registry, memory
<1> DEFINE fs == {f \in stopped : f.pid = job[p].pid}
<1>1. /\ TypeOK /\ OneFrame /\ Fresh /\ JobOK /\ QueueOK(ready) /\ FramesOK(stopped)
      /\ HeldPids = HeldByOthers(p) \cup Pids(held[p])
  BY Before
<1>2. /\ stopped' = stopped \ fs /\ held' = [held EXCEPT ![p] = fs]
      /\ pc' = [pc EXCEPT ![p] = IF fs = {} THEN "mark_exiting" ELSE "unrequest"]
      /\ pc[p] = "take_frame"
      /\ UNCHANGED <<cur, cr3, ready, exiting, stopReq, reaps, registry, job,
                     memory, calls>>
  BY Zenon DEF KillTake, GoTo, At
<1>3. /\ FramesOK(fs) /\ FramesOK(stopped \ fs)
      /\ Pids(stopped \ fs) \cap Pids(fs) = {}
      /\ Pids(stopped \ fs) \cup Pids(fs) \subseteq Pids(stopped)
  BY <1>1, Zenon DEF FramesOK, Unique, Pids
<1> HIDE DEF fs
<1>4. TypeOK' /\ JobOK'
  BY <1>1, <1>2, <1>3, Zenon DEF TypeOK, JobOK, FramesOK, Labels
<1>5. Queued' = Queued /\ Gone' = Gone /\ ParkedPids' = Pids(stopped \ fs)
  BY <1>2 DEF Queued, Gone, ParkedPids
<1>6. Pids(stopped) = ParkedPids
  BY DEF ParkedPids
<1> QED
  BY <1>1, <1>2, <1>3, <1>4, <1>5, <1>6, MovedFrames, ZenonT(30) DEF OneFrame, Fresh

\* pend_reap_with moves the frame that request_exit took to PENDING_REAPS.
LEMMA KillReapKeeps ==
    ASSUME IInv, NEW p \in Pid, KillReap(p)
    PROVE  IInv'
<1> USE DEF registry, memory
<1>1. /\ TypeOK /\ OneFrame /\ Fresh /\ JobOK /\ QueueOK(ready) /\ FramesOK(stopped)
      /\ FramesOK(held[p]) /\ HeldPids = HeldByOthers(p) \cup Pids(held[p])
      /\ HeldByOthers(p) \cap Pids(held[p]) = {}
  BY Before
<1>2. /\ reaps' = {f \in reaps : f.pid \notin Pids(held[p])} \cup held[p]
      /\ held' = [held EXCEPT ![p] = {}] /\ KillGoOn(p) /\ pc[p] = "pend_reap"
      /\ UNCHANGED <<cur, cr3, ready, stopped, exiting, stopReq, registry,
                     memory, calls>>
  BY DEF KillReap, At
<1>3. pc' \in [Pid -> Labels] /\ job' \in [Pid -> Job] /\ JobOK'
  BY <1>1, <1>2, KillGoOnKeeps, Zenon
<1>4. reaps' \subseteq FrameSet /\ Gone' \subseteq Gone \cup Pids(held[p])
  <2>1. reaps' \subseteq FrameSet /\ Pids(reaps') \subseteq Pids(reaps) \cup Pids(held[p])
    BY <1>1, <1>2, Zenon DEF Pids, TypeOK, FramesOK
  <2> QED
    BY <1>2, <2>1 DEF Gone
<1>5. FramesOK({}) /\ Pids({}) = {}
  BY DEF FramesOK, Unique, Pids
<1>6. TypeOK'
  BY <1>1, <1>2, <1>3, <1>4, Zenon DEF TypeOK
<1>7. Queued' = Queued /\ ParkedPids' = ParkedPids
  BY <1>2 DEF Queued, ParkedPids
<1>8. /\ Queued' \cap (ParkedPids' \cup HeldByOthers(p) \cup Pids({}) \cup {cur'} \cup Gone') = {}
      /\ ParkedPids' \cap (HeldByOthers(p) \cup Pids({}) \cup {cur'} \cup Gone') = {}
  <2>1. /\ Queued \cap (ParkedPids \cup HeldPids \cup {cur} \cup Gone) = {}
        /\ ParkedPids \cap (HeldPids \cup {cur} \cup Gone) = {}
    BY <1>1, ZenonT(30) DEF OneFrame
  <2> QED
    BY <1>1, <1>2, <1>4, <1>5, <1>7, <2>1, Zenon
<1>9. /\ (HeldByOthers(p) \cup Pids({})) \cap ({cur'} \cup Gone') = {}
      /\ cur' \notin Gone' /\ Pids({}) \cap HeldByOthers(p) = {}
  <2>1. HeldPids \cap ({cur} \cup Gone) = {} /\ cur \notin Gone
    BY <1>1, ZenonT(30) DEF OneFrame
  <2> QED
    BY <1>1, <1>2, <1>4, <1>5, <2>1, Zenon
<1>10. \A x \in Queued' \cup ParkedPids' \cup HeldByOthers(p) \cup Pids({})
                 \cup {cur'} \cup Gone' : x < nextPid'
  <2>1. \A x \in Queued \cup ParkedPids \cup HeldPids \cup {cur} \cup Gone : x < nextPid
    BY <1>1, ZenonT(30) DEF Fresh
  <2> QED
    BY <1>1, <1>2, <1>4, <1>5, <1>7, <2>1, Zenon
<1>11. QueueOK(ready') /\ FramesOK(stopped')
  BY <1>1, <1>2, Zenon
<1> QED
  BY <1>2, <1>3, <1>5, <1>6, <1>8, <1>9, <1>10, <1>11, MovedFrames, ZenonT(30)

\* stop_ready_pids takes the siblings' frames and parks them one by one.
LEMMA StopDrainKeeps ==
    ASSUME IInv, NEW p \in Pid, StopDrain(p)
    PROVE  IInv'
<1> USE DEF registry, memory
<1> DEFINE fs == DrainedFrames(ready, job[p].rest)
<1>1. /\ TypeOK /\ OneFrame /\ Fresh /\ JobOK /\ QueueOK(ready) /\ FramesOK(stopped)
      /\ HeldPids = HeldByOthers(p) \cup Pids(held[p])
  BY Before
<1>2. /\ ready' = Drained(ready, job[p].rest) /\ held' = [held EXCEPT ![p] = fs]
      /\ pc' = [pc EXCEPT ![p] = "park"] /\ job' = [job EXCEPT ![p] = NoJob]
      /\ UNCHANGED <<cur, cr3, stopped, exiting, stopReq, reaps, registry,
                     memory, calls>>
  BY DEF StopDrain, GoTo
<1>3. /\ FramesOK(fs) /\ Pids(fs) = Queued \cap job[p].rest
      /\ QueueOK(ready') /\ Queued' = Queued \ job[p].rest
  BY <1>1, <1>2, DrainSplits, Zenon DEF Queued
<1> HIDE DEF fs
<1>4. TypeOK' /\ JobOK'
  BY <1>1, <1>2, <1>3, Zenon
     DEF TypeOK, JobOK, FramesOK, QueueOK, Labels, NoJob, Job, Idle
<1>5. Gone' = Gone /\ ParkedPids' = ParkedPids
  BY <1>2 DEF Gone, ParkedPids
<1> QED
  BY <1>1, <1>2, <1>3, <1>4, <1>5, MovedFrames, ZenonT(30) DEF OneFrame, Fresh

\* park_stopped moves one frame from the caller's local to STOPPED_TASKS.
LEMMA StopParkKeeps ==
    ASSUME IInv, NEW p \in Pid, StopPark(p)
    PROVE  IInv'
<1> USE DEF registry, memory
<1> DEFINE fs == {f \in held[p] : f.pid = job[p].pid}
           rest == held[p] \ fs
<1>1. /\ TypeOK /\ OneFrame /\ Fresh /\ JobOK /\ QueueOK(ready) /\ FramesOK(stopped)
      /\ FramesOK(held[p]) /\ HeldPids = HeldByOthers(p) \cup Pids(held[p])
      /\ HeldByOthers(p) \cap Pids(held[p]) = {}
  BY Before
<1>2. /\ stopped' = Parked(fs) /\ held' = [held EXCEPT ![p] = rest]
      /\ pc' = [pc EXCEPT ![p] = "park"]
      /\ UNCHANGED <<cur, cr3, ready, exiting, stopReq, reaps, registry, job,
                     memory, calls>>
  BY Zenon DEF StopPark, GoTo
<1>3. /\ FramesOK(fs) /\ FramesOK(rest) /\ Pids(fs) \cap Pids(rest) = {}
      /\ Pids(fs) \cup Pids(rest) \subseteq Pids(held[p])
  BY <1>1, Zenon DEF FramesOK, Unique, Pids
<1> HIDE DEF fs, rest
<1>4. FramesOK(stopped') /\ ParkedPids' = ParkedPids \cup Pids(fs)
  BY <1>1, <1>2, <1>3, ParkAdds, Zenon DEF ParkedPids
<1>5. TypeOK' /\ JobOK'
  BY <1>1, <1>2, <1>3, <1>4, ZenonT(30) DEF TypeOK, JobOK, FramesOK, Labels
<1>6. Gone' = Gone /\ Queued' = Queued /\ QueueOK(ready')
  BY <1>1, <1>2 DEF Gone, Queued
<1> QED
  BY <1>1, <1>2, <1>3, <1>4, <1>5, <1>6, MovedFrames, ZenonT(30) DEF OneFrame, Fresh

\* SIGCONT takes a parked frame and puts it back into the queue.
LEMMA ContResumeKeeps ==
    ASSUME IInv, NEW p \in Pid, ContResume(p)
    PROVE  IInv'
<1> USE DEF registry, memory
<1> DEFINE fs == {f \in stopped : f.pid = job[p].pid}
<1>1. /\ TypeOK /\ OneFrame /\ Fresh /\ JobOK /\ QueueOK(ready) /\ FramesOK(stopped)
      /\ HeldPids = HeldByOthers(p) \cup Pids(held[p])
  BY Before
<1>2. /\ stopped' = stopped \ fs /\ held' = [held EXCEPT ![p] = fs]
      /\ pc' = [pc EXCEPT ![p] = IF fs = {} THEN "cont" ELSE "requeue"]
      /\ pc[p] = "resume"
      /\ UNCHANGED <<cur, cr3, ready, exiting, stopReq, reaps, registry, job,
                     memory, calls>>
  BY Zenon DEF ContResume, GoTo, At
<1>3. /\ FramesOK(fs) /\ FramesOK(stopped \ fs)
      /\ Pids(stopped \ fs) \cap Pids(fs) = {}
      /\ Pids(stopped \ fs) \cup Pids(fs) \subseteq Pids(stopped)
  BY <1>1, Zenon DEF FramesOK, Unique, Pids
<1> HIDE DEF fs
<1>4. TypeOK' /\ JobOK'
  BY <1>1, <1>2, <1>3, Zenon DEF TypeOK, JobOK, FramesOK, Labels
<1>5. /\ Queued' = Queued /\ Gone' = Gone /\ ParkedPids' = Pids(stopped \ fs)
      /\ Pids(stopped) = ParkedPids
  BY <1>2 DEF Queued, Gone, ParkedPids
<1> QED
  BY <1>1, <1>2, <1>3, <1>4, <1>5, MovedFrames, Zenon DEF OneFrame, Fresh

\* requeue moves the frame that resume_stopped took to the ready queue.
LEMMA ContRequeueKeeps ==
    ASSUME IInv, NEW p \in Pid, ContRequeue(p)
    PROVE  IInv'
<1> USE DEF registry, memory
<1>1. /\ TypeOK /\ OneFrame /\ Fresh /\ JobOK /\ QueueOK(ready) /\ FramesOK(stopped)
      /\ FramesOK(held[p]) /\ HeldPids = HeldByOthers(p) \cup Pids(held[p])
      /\ HeldByOthers(p) \cap Pids(held[p]) = {}
  BY Before
<1>2. PICK f \in held[p] : ready' = Enqueue(ready, f)
  BY DEF ContRequeue
<1>3. /\ held' = [held EXCEPT ![p] = {}] /\ pc' = [pc EXCEPT ![p] = "cont"]
      /\ UNCHANGED <<cur, cr3, stopped, exiting, stopReq, reaps, registry, job,
                     memory, calls>>
  BY DEF ContRequeue, GoTo
<1>4. /\ QueueOK(ready') /\ Queued' = Queued \cup {f.pid} /\ f.pid \in Pids(held[p])
  BY <1>1, <1>2, EnqueueAdds, Zenon DEF FramesOK, Queued, Pids
<1>5. FramesOK({}) /\ Pids({}) = {}
  BY DEF FramesOK, Unique, Pids
<1>6. TypeOK' /\ JobOK'
  BY <1>1, <1>3, <1>4, Zenon DEF TypeOK, JobOK, QueueOK, Labels
<1>7. Gone' = Gone /\ ParkedPids' = ParkedPids
  BY <1>3, Zenon DEF Gone, ParkedPids
<1>8. /\ Queued' \cap (ParkedPids' \cup HeldByOthers(p) \cup Pids({}) \cup {cur'} \cup Gone') = {}
      /\ ParkedPids' \cap (HeldByOthers(p) \cup Pids({}) \cup {cur'} \cup Gone') = {}
      /\ (HeldByOthers(p) \cup Pids({})) \cap ({cur'} \cup Gone') = {}
      /\ cur' \notin Gone' /\ Pids({}) \cap HeldByOthers(p) = {}
  <2>1. f.pid \notin ParkedPids \cup HeldByOthers(p) \cup {cur} \cup Gone
    BY <1>1, <1>4, ZenonT(30) DEF OneFrame
  <2>2. Queued' \cap (ParkedPids \cup HeldByOthers(p) \cup {cur} \cup Gone) = {}
    <3>1. Queued \cap (ParkedPids \cup HeldPids \cup {cur} \cup Gone) = {}
      BY <1>1, Zenon DEF OneFrame
    <3> QED BY <1>1, <1>4, <2>1, <3>1, Zenon
  <2>3. /\ ParkedPids \cap (HeldByOthers(p) \cup {cur} \cup Gone) = {}
        /\ HeldByOthers(p) \cap ({cur} \cup Gone) = {} /\ cur \notin Gone
    BY <1>1, Zenon DEF OneFrame
  <2> QED
    BY <1>3, <1>5, <1>7, <2>2, <2>3
<1>9. \A x \in Queued' \cup ParkedPids' \cup HeldByOthers(p) \cup Pids({})
                \cup {cur'} \cup Gone' : x < nextPid'
  BY <1>1, <1>3, <1>4, <1>5, <1>7, Zenon DEF Fresh
<1> QED
  BY <1>1, <1>3, <1>4, <1>5, <1>6, <1>8, <1>9, MovedFrames, ZenonT(30)
----------------------------------------------------------------------------
\* The state kernel_main leaves behind: the boot threads are queued, nothing else is.
LEMMA InitEstablishes == Init => IInv
<1> SUFFICES ASSUME Init PROVE IInv
  OBVIOUS
<1>1. TypeOK
  <2>1. ready \subseteq Entry
    <3> DEFINE B(p) == [pid |-> p, cr3 |-> Kernel, slot |-> p]
    <3>1. \A p \in 1..BootThreads : p \in Pid /\ p \in Nat
      BY SchedulerAssumption DEF Pid
    <3>2. Kernel \in Space
      BY SchedulerAssumption DEF Kernel, Space
    <3>3. \A p \in 1..BootThreads : B(p) \in Entry
      BY <3>1, <3>2 DEF Entry
    <3>4. ready = {B(p) : p \in 1..BootThreads}
      BY Zenon DEF Init
    <3> HIDE DEF B
    <3> QED
      BY <3>3, <3>4, Zenon
  <2>2. /\ NoJob \in Job /\ "run" \in Labels /\ Idle \in Pid \cup {Idle}
        /\ Kernel \in Space /\ BootThreads + 1 \in Nat /\ 1 \in Nat
    <3>1. NoJob \in Job
      BY Zenon DEF NoJob, Job
    <3>2. "run" \in Labels
      BY Zenon DEF Labels
    <3>3. Kernel \in Space /\ BootThreads + 1 \in Nat /\ 1 \in Nat
      BY SchedulerAssumption DEF Kernel, Space
    <3> QED
      BY <3>1, <3>2, <3>3
  <2>3. 0 \in 0..MaxCalls
    OBVIOUS
  <2>4. /\ pc \in [Pid -> Labels] /\ job \in [Pid -> Job] /\ tgid \in [Pid -> Pid]
        /\ pending \in [Pid -> SUBSET {"term", "stop"}]
        /\ held \in [Pid -> SUBSET FrameSet]
    BY <2>2, Zenon DEF Init
  <2> QED
    BY <2>1, <2>2, <2>3, <2>4, Zenon DEF Init, TypeOK
<1>2. /\ Queued = 1..BootThreads /\ ParkedPids = {} /\ HeldPids = {} /\ Gone = {}
      /\ \A p \in Pid : held[p] = {}
  <2>1. Queued = 1..BootThreads
    <3> DEFINE E(p) == [pid |-> p, cr3 |-> Kernel, slot |-> p]
    <3>1. ready = {E(p) : p \in 1..BootThreads}
      BY Zenon DEF Init
    <3>2. \A p \in 1..BootThreads : E(p).pid = p
      OBVIOUS
    <3> HIDE DEF E
    <3> QED
      BY <3>1, <3>2, ZenonT(30) DEF Queued, Pids
  <2>2. Pids({}) = {}
    BY DEF Pids
  <2>3. \A p \in Pid : held[p] = {}
    BY Zenon DEF Init
  <2> QED
    BY <2>1, <2>2, <2>3, Zenon DEF Init, ParkedPids, HeldPids, Gone
<1>3. Unique(ready)
  BY DEF Init, Unique
<1>4. OneFrame
  <2>1. Unique({}) /\ Pids({}) = {}
    BY ZenonT(30) DEF Unique, Pids
  <2>2. cur \notin Queued /\ stopped = {}
    <3>1. cur = Idle /\ stopped = {} /\ Queued = 1..BootThreads
      BY <1>2, Zenon DEF Init
    <3>2. Idle \notin 1..BootThreads
      BY DEF Idle
    <3> QED
      BY <3>1, <3>2, Zenon
  <2> QED
    BY <1>2, <1>3, <2>1, <2>2, Zenon DEF OneFrame
<1>5. Fresh
  BY <1>2 DEF Init, Fresh, Idle
<1>6. JobOK
  BY DEF Init, JobOK
<1> QED
  BY <1>1, <1>4, <1>5, <1>6 DEF IInv

\* Every step of the kernel keeps the invariant.
LEMMA StepKeeps == IInv /\ [Next]_vars => IInv'
<1> SUFFICES ASSUME IInv, [Next]_vars PROVE IInv'
  OBVIOUS
<1>1. CASE Tick
  BY <1>1, TickKeeps
<1>2. CASE Yield
  BY <1>2, YieldKeeps
<1>3. CASE Launch
  BY <1>3, SpawnKeeps
<1>4. ASSUME NEW p \in Pid, OneSection(p) PROVE IInv'
  BY <1>4, SpawnKeeps, OneSectionKeeps DEF OneSection
<1>5. ASSUME NEW p \in Pid, ExitStep(p) PROVE IInv'
  BY <1>5, ExitKeeps, ExitGroupReadyKeeps DEF ExitStep
<1>6. ASSUME NEW p \in Pid, KillStep(p) PROVE IInv'
  BY <1>6, KillKeeps, KillTakeKeeps, KillReapKeeps DEF KillStep
<1>7. ASSUME NEW p \in Pid, StopStep(p) PROVE IInv'
  BY <1>7, StopKeeps, StopDrainKeeps, StopParkKeeps DEF StopStep
<1>8. ASSUME NEW p \in Pid, ContStep(p) PROVE IInv'
  BY <1>8, ContKeeps, ContResumeKeeps, ContRequeueKeeps, Zenon DEF ContStep
<1>9. CASE UNCHANGED vars
  <2>1. TypeOK' /\ JobOK'
    BY <1>9, Zenon DEF IInv, TypeOK, JobOK, vars, rotation, registry, locals, memory
  <2> QED
    BY <1>9, <2>1, SameFrames DEF vars, rotation, registry, locals, memory
<1> QED
  BY <1>1, <1>2, <1>3, <1>4, <1>5, <1>6, <1>7, <1>8, <1>9, Zenon DEF Next

\* The invariant the two theorems below follow from.
THEOREM Inductive == Spec => []IInv
  BY InitEstablishes, StepKeeps, PTL DEF Spec

\* In every state the scheduler's tables hold what their types allow, for any
\* number of tasks, address spaces and calls.
THEOREM TypeCorrect == Spec => []TypeOK
<1>1. IInv => TypeOK
  BY DEF IInv
<1> QED
  BY <1>1, Inductive, PTL

\* For any number of tasks and any interleaving of ticks with the sections of
\* clone, fork, execve, exit, exit_group, kill, stop and continue, a task's
\* frame is never in two of: the CPU, READY_QUEUE, STOPPED_TASKS, the locals of
\* a call that moves it, PENDING_REAPS or released memory.
THEOREM OneFrameHolds == Spec => []OneFrame
<1>1. IInv => OneFrame
  BY DEF IInv
<1> QED
  BY <1>1, Inductive, PTL
============================================================================
