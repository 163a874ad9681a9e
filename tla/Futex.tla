------------------------------- MODULE Futex -------------------------------
(***************************************************************************)
(* The ticketed futex of arch/x86_64/linux/process_sys.rs: one user word   *)
(* and the WaitQueue of its key, the page-table root and the address.      *)
(*                                                                         *)
(* FUTEX_QUEUES is behind a Spinlock, which masks interrupts, so each of   *)
(* register_waiter, waiter_woken, finish_wait and wake_waiters is one      *)
(* step; sys_futex itself runs with interrupts on and is preempted between *)
(* them.  The registry drops the queue of a key when it is empty, and the  *)
(* tickets of the next one start at 0 again.                               *)
(***************************************************************************)
EXTENDS Naturals, FiniteSets, TLC

CONSTANTS
    Task,      \* the threads of the process that has the page-table root
    MaxWord,   \* bound: values of the user word
    Bit,       \* the bits of a FUTEX_WAIT_BITSET mask
    MaxFutex,  \* bound: calls of FUTEX_WAIT and FUTEX_WAKE
    MaxLife,   \* bound: processes that get the page-table root one after another
    Faults     \* what may happen to a waiter, of FaultNames

FaultNames == {"signal", "unmap", "kill"}

ASSUME FutexAssumption ==
    /\ MaxWord \in Nat /\ MaxFutex \in Nat /\ MaxLife \in Nat
    /\ IsFiniteSet(Task) /\ Faults \subseteq FaultNames

VARIABLES
    word, mapped,        \* the user word, and whether its page is mapped
    nextTicket,          \* WaitQueue::next_ticket; 0 when the key has no queue
    waiting, woken,      \* WaitQueue::waiting, WaitQueue::woken
    label, call,         \* where a thread is, and the locals of its FUTEX_WAIT
    expired, signalled,  \* the deadline has passed; a signal is deliverable
    life, dying,         \* which process has the page-table root; it is being killed
    reported, released,  \* history: waiters WAKE reported, selected waits that returned 0
    nCalls

queue   == <<nextTicket, waiting, woken>>
user    == <<word, mapped>>
threads == <<label, call, expired, signalled>>
history == <<life, dying, reported, released, nCalls>>
vars    == <<queue, user, threads, history>>
----------------------------------------------------------------------------
Word == 0..MaxWord
WakeMask == (SUBSET Bit) \ {{}}
NoCall == [val |-> 0, mask |-> Bit, timed |-> FALSE, ticket |-> 0]

\* The points of the wait loop, from the registration to the return.
Registered == {"loop", "take", "word", "leave", "time", "timeout", "signal",
               "cancel", "yield"}
InWait(t) == label[t] \in Registered

AtLabel(t, l) == label[t] = l
GoTo(t, l) == label' = [label EXCEPT ![t] = l]
Ticket(t) == call[t].ticket
IsWoken(t) == \E e \in woken : e.ticket = Ticket(t)

FutexInit ==
    /\ word \in Word /\ mapped = TRUE
    /\ nextTicket = 0 /\ waiting = {} /\ woken = {}
    /\ label = [t \in Task |-> "user"] /\ call = [t \in Task |-> NoCall]
    /\ expired = [t \in Task |-> FALSE] /\ signalled = [t \in Task |-> FALSE]
    /\ life = 1 /\ dying = FALSE /\ reported = 0 /\ released = 0 /\ nCalls = 0
----------------------------------------------------------------------------
(* FUTEX_WAIT                                                              *)

CallOnce == nCalls < MaxFutex /\ nCalls' = nCalls + 1

\* The word is compared before the registration: EAGAIN changes nothing.
WaitCall(t) ==
    /\ AtLabel(t, "user") /\ mapped /\ CallOnce
    /\ \E v \in Word, m \in WakeMask, timed \in BOOLEAN :
        IF word # v THEN UNCHANGED threads
        ELSE /\ call' = [call EXCEPT ![t] =
                            [val |-> v, mask |-> m, timed |-> timed, ticket |-> 0]]
             /\ GoTo(t, "register")
             /\ UNCHANGED <<expired, signalled>>
    /\ UNCHANGED <<queue, user, life, dying, reported, released>>

\* Bug: the number of waiters serves as the ticket.
RegisterBySize(t) ==
    /\ AtLabel(t, "register")
    /\ waiting' = waiting \cup {[ticket |-> Cardinality(waiting),
                                mask |-> call[t].mask, life |-> life]}
    /\ nextTicket' = nextTicket + 1
    /\ call' = [call EXCEPT ![t] = [call[t] EXCEPT !.ticket = Cardinality(waiting)]]
    /\ GoTo(t, "loop")
    /\ UNCHANGED <<woken, user, expired, signalled, history>>

\* register_waiter
Register(t) ==
    /\ AtLabel(t, "register")
    /\ waiting' = waiting \cup
                    {[ticket |-> nextTicket, mask |-> call[t].mask, life |-> life]}
    /\ nextTicket' = nextTicket + 1
    /\ call' = [call EXCEPT ![t] = [call[t] EXCEPT !.ticket = nextTicket]]
    /\ GoTo(t, "loop")
    /\ UNCHANGED <<woken, user, expired, signalled, history>>

\* Bug: the wake token stays behind.
FinishWaitKeepsToken(t) ==
    /\ waiting' = {e \in waiting : e.ticket # Ticket(t)}
    /\ woken' = woken
    /\ nextTicket' = IF waiting' \cup woken' = {} THEN 0 ELSE nextTicket

\* finish_wait: the ticket leaves both tables, and an empty queue is dropped.
FinishWait(t) ==
    /\ waiting' = {e \in waiting : e.ticket # Ticket(t)}
    /\ woken' = {e \in woken : e.ticket # Ticket(t)}
    /\ nextTicket' = IF waiting' \cup woken' = {} THEN 0 ELSE nextTicket

\* The call ends, and its locals with it.
Leave(t, l) ==
    /\ GoTo(t, l) /\ call' = [call EXCEPT ![t] = NoCall]
    /\ expired' = [expired EXCEPT ![t] = FALSE]
    /\ signalled' = [signalled EXCEPT ![t] = FALSE]

\* The return to user mode, where a deliverable signal is taken.
Return(t) == Leave(t, "user")

CountReleased(t) == released' = IF IsWoken(t) THEN released + 1 ELSE released

\* waiter_woken
LoopTop(t) ==
    /\ AtLabel(t, "loop")
    /\ GoTo(t, IF IsWoken(t) THEN "take" ELSE "word")
    /\ UNCHANGED <<queue, user, call, expired, signalled, history>>

\* The returns of 0: woken, or the word has changed.
Take(t) ==
    /\ AtLabel(t, "take") \/ AtLabel(t, "leave")
    /\ FinishWait(t) /\ Return(t) /\ CountReleased(t)
    /\ UNCHANGED <<user, life, dying, reported, nCalls>>

\* Bug: the word is not looked at again once the waiter is registered.
CheckWordOnce(t) ==
    /\ AtLabel(t, "word") /\ mapped
    /\ GoTo(t, "time")
    /\ UNCHANGED <<queue, user, call, expired, signalled, history>>

CheckWord(t) ==
    /\ AtLabel(t, "word") /\ mapped
    /\ GoTo(t, IF word # call[t].val THEN "leave" ELSE "time")
    /\ UNCHANGED <<queue, user, call, expired, signalled, history>>

\* load_word(uaddr)? leaves the loop with EFAULT and the waiter registered.
WordFault(t) ==
    /\ AtLabel(t, "word") /\ ~mapped
    /\ Return(t)
    /\ UNCHANGED <<queue, user, history>>

CheckTime(t) ==
    /\ AtLabel(t, "time")
    /\ GoTo(t, IF expired[t] THEN "timeout" ELSE "signal")
    /\ UNCHANGED <<queue, user, call, expired, signalled, history>>

\* Bug: the deadline wins over a wake that came first.
TimeoutFirst(t) ==
    /\ AtLabel(t, "timeout")
    /\ FinishWait(t) /\ Return(t)
    /\ UNCHANGED <<user, history>>

\* A wake that selected the waiter wins over the deadline.
Timeout(t) ==
    /\ AtLabel(t, "timeout")
    /\ FinishWait(t) /\ Return(t) /\ CountReleased(t)
    /\ UNCHANGED <<user, life, dying, reported, nCalls>>

CheckSignal(t) ==
    /\ AtLabel(t, "signal")
    /\ GoTo(t, IF signalled[t] THEN "cancel" ELSE "yield")
    /\ UNCHANGED <<queue, user, call, expired, signalled, history>>

\* finish_wait decides: EINTR, or once more round the loop with no registration.
Cancel(t) ==
    /\ AtLabel(t, "cancel")
    /\ FinishWait(t)
    /\ \/ IsWoken(t) /\ GoTo(t, "yield") /\ UNCHANGED <<call, expired, signalled>>
       \/ ~IsWoken(t) /\ Return(t)
    /\ UNCHANGED <<user, history>>

Yield(t) ==
    /\ AtLabel(t, "yield")
    /\ GoTo(t, "loop")
    /\ UNCHANGED <<queue, user, call, expired, signalled, history>>
----------------------------------------------------------------------------
(* FUTEX_WAKE, and the wake of a thread that exits.                        *)

\* The first n matching waiters in ticket order.
Matching(m) == {e \in waiting : e.mask \cap m # {}}
Selected(n, m) ==
    {e \in Matching(m) : Cardinality({f \in Matching(m) : f.ticket < e.ticket}) < n}

\* wake_waiters
WakeWaiters(n, m) ==
    LET s == Selected(n, m)
    IN  /\ waiting' = waiting \ s
        /\ woken' = woken \cup s
        /\ reported' = reported + Cardinality(s)
        /\ UNCHANGED nextTicket

WakeCall(t) ==
    /\ AtLabel(t, "user") /\ mapped /\ CallOnce
    /\ \E n \in 0..Cardinality(Task), m \in WakeMask : WakeWaiters(n, m)
    /\ UNCHANGED <<user, threads, life, dying, released>>

\* cleanup_thread_exit of a thread that exits: this word is its clear_child_tid,
\* which becomes 0, or a robust lock it owns, which is marked FUTEX_OWNER_DIED
\* (MaxWord), or neither.  In a dying process exit_group calls it for every
\* member, wherever that is; a fatal signal does not.
Exit(t) ==
    /\ AtLabel(t, "user") \/ (dying /\ ~AtLabel(t, "exit_wake") /\ ~AtLabel(t, "dead"))
    /\ \/ mapped /\ word' \in {0, MaxWord} /\ Leave(t, "exit_wake")
       \/ UNCHANGED word /\ Leave(t, "dead")
    /\ UNCHANGED <<queue, mapped, history>>

ExitWake(t) ==
    /\ AtLabel(t, "exit_wake")
    /\ WakeWaiters(1, Bit) /\ GoTo(t, "dead")
    /\ UNCHANGED <<user, call, expired, signalled, life, dying, released, nCalls>>
----------------------------------------------------------------------------
(* What happens around the call.                                           *)

Store(t) ==
    /\ AtLabel(t, "user") /\ mapped
    /\ word' \in Word
    /\ UNCHANGED <<queue, mapped, threads, history>>

Expire(t) ==
    /\ InWait(t) /\ call[t].timed /\ ~expired[t]
    /\ expired' = [expired EXCEPT ![t] = TRUE]
    /\ UNCHANGED <<queue, user, label, call, signalled, history>>

\* A signal becomes deliverable; a tick may take it (a stop signal) before the
\* waiter looks.
Signal(t) ==
    /\ "signal" \in Faults /\ InWait(t)
    /\ signalled' = [signalled EXCEPT ![t] = ~signalled[t]]
    /\ UNCHANGED <<queue, user, label, call, expired, history>>

\* munmap of the word's page by another thread, and a new mapping at its place.
Remap(t) ==
    /\ "unmap" \in Faults /\ AtLabel(t, "user")
    /\ mapped' = ~mapped /\ word' \in Word
    /\ UNCHANGED <<queue, threads, history>>

\* exit_group, or a fatal signal to the group.
Kill ==
    /\ "kill" \in Faults /\ ~dying
    /\ dying' = TRUE
    /\ UNCHANGED <<queue, user, threads, life, reported, released, nCalls>>

\* The last thread is gone, the address space is freed, and a new process gets
\* its page-table root.  Nobody tells the registry.
Recycle ==
    /\ \A t \in Task : AtLabel(t, "dead")
    /\ life < MaxLife /\ life' = life + 1 /\ dying' = FALSE
    /\ word' \in Word /\ mapped' = TRUE
    /\ label' = [t \in Task |-> "user"] /\ call' = [t \in Task |-> NoCall]
    /\ expired' = [t \in Task |-> FALSE] /\ signalled' = [t \in Task |-> FALSE]
    /\ UNCHANGED <<queue, reported, released, nCalls>>
----------------------------------------------------------------------------
\* The steps of a call that has begun.
Step(t) ==
    \/ Register(t) \/ LoopTop(t) \/ Take(t) \/ CheckWord(t) \/ WordFault(t)
    \/ CheckTime(t) \/ Timeout(t) \/ CheckSignal(t) \/ Cancel(t) \/ Yield(t)
    \/ ExitWake(t)

FutexNext ==
    \/ \E t \in Task : \/ Step(t) \/ WaitCall(t) \/ WakeCall(t) \/ Exit(t)
                         \/ Store(t) \/ Expire(t) \/ Signal(t) \/ Remap(t)
    \/ Kill \/ Recycle

\* A waiter stays in the ready queue, and the round-robin gives every queued
\* task the CPU (ReadyRuns of Scheduler).
FutexSpec == FutexInit /\ [][FutexNext]_vars /\ \A t \in Task : WF_vars(Step(t))
----------------------------------------------------------------------------
Waiter == [ticket : Nat, mask : SUBSET Bit, life : Nat]
Labels == Registered \cup {"user", "register", "exit_wake", "dead"}

\* What the code's types allow, as far as the proofs need it.
TypeOK ==
    /\ word \in Word /\ mapped \in BOOLEAN
    /\ nextTicket \in Nat /\ waiting \subseteq Waiter /\ woken \subseteq Waiter
    /\ label \in [Task -> Labels]
    /\ call \in [Task -> [val : Word, mask : SUBSET Bit, timed : BOOLEAN, ticket : Nat]]
    /\ expired \in [Task -> BOOLEAN] /\ signalled \in [Task -> BOOLEAN]
    /\ life \in Nat

\* A registration does not outlive its call: every ticket of this process in
\* the queue is that of a thread still in its wait, whichever way calls return,
\* until the process is killed.
NoOrphan ==
    \A e \in waiting \cup woken :
        e.life = life /\ ~dying => \E t \in Task : InWait(t) /\ Ticket(t) = e.ticket

\* Two waiting threads never have one ticket, though a dropped queue starts
\* counting at 0 again: a wake token is taken by the thread it was meant for.
OneOwner ==
    \A t, u \in Task : InWait(t) /\ InWait(u) /\ t # u => Ticket(t) # Ticket(u)

\* FUTEX_WAKE reports and releases an exact number of waiters: every reported
\* one has returned 0 or its token is still in the queue, wakes that race with
\* the deadline and with a change of the word included.  A waiter that left with
\* EFAULT never takes its token; one that a signal made take it is not counted,
\* so this is checked without signals.
WakeExact == reported = released + Cardinality(woken)

\* FUTEX_WAKE "releases" the waiters it reports: a selected waiter returns.
WokenReturns ==
    \A t \in Task : (InWait(t) /\ IsWoken(t)) ~> ~InWait(t)

\* No lost wake-up: a waiter whose word has changed returns, or the word has
\* its old value again; in between it may have been compared before the store
\* and registered after the wake.
ChangedReturns ==
    \A t \in Task :
        (InWait(t) /\ word # call[t].val) ~> (~InWait(t) \/ word = call[t].val)

\* The threads are interchangeable and so are the bits of a mask: the safety run
\* uses their permutations, the liveness run does not.
Symmetry == Permutations(Task) \cup Permutations(Bit)
============================================================================
