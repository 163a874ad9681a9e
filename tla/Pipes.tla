------------------------------- MODULE Pipes -------------------------------
(***************************************************************************)
(* Pipes, socket pairs, Unix sockets and the descriptors that name them:   *)
(* task/fd.rs, fd_alloc.rs, the calls of io_sys.rs on such descriptors,    *)
(* epoll_sys.rs and unix_sock.rs.                                          *)
(*                                                                         *)
(* A queue counts the endpoints of each side.  An endpoint lives as long   *)
(* as a descriptor, a call in progress or a listener's backlog refers to   *)
(* it, and uncounts itself when the last reference goes.  A call holds its *)
(* endpoint from the look-up of the descriptor to its return; a task that  *)
(* is killed in a call never drops what its kernel stack holds.            *)
(***************************************************************************)
EXTENDS Integers, Sequences, FiniteSets

CONSTANTS
    Proc, Fd,       \* processes; descriptor numbers, from FIRST_DYNAMIC_FD
    Queue, Endpoint,    \* identities, numbers, handed out in order
    Capacity,       \* PIPE_CAPACITY
    Uses,           \* bound: the groups of calls a program makes, of pipe, socket, epoll, dup, flags
    MaxOps          \* bound: system calls made

VARIABLES
    queue,          \* id -> [bytes, readers, writers], for the queues created
    endp,           \* id -> [q, read_end, nonblocking], for the endpoints created
    fdt,            \* process -> descriptor -> object; the processes are those that exist
    cloexec,        \* process -> descriptors with FD_CLOEXEC
    inCall,         \* process -> the call it is in
    listener,       \* the Unix listener; bound: one path is bound, once
    interest,       \* the descriptors an epoll instance watches; bound: one instance
    lost,           \* endpoints on the stacks of killed tasks
    sent, received, \* queue -> bytes so far
    eof, broken,    \* queues whose reader was told Eof, whose writer was told EPIPE
    ready,          \* process -> descriptors that poll has just reported readable
    opsMade

pipeVars == <<queue, endp, fdt, cloexec, inCall, listener, interest, lost, sent, received, eof, broken, ready, opsMade>>

Free == [kind |-> "free"]
User == [op |-> "user"]

Init ==
    /\ queue = <<>> /\ endp = <<>>
    /\ fdt = [p \in {1} |-> [f \in Fd |-> Free]]
    /\ cloexec = [p \in Proc |-> {}]
    /\ inCall = [p \in Proc |-> User]
    /\ listener = [bound |-> FALSE, listening |-> FALSE, pending |-> <<>>]
    /\ interest = {} /\ lost = {} /\ eof = {} /\ broken = {}
    /\ sent = [q \in Queue |-> 0] /\ received = [q \in Queue |-> 0]
    /\ ready = [p \in Proc |-> {}]
    /\ opsMade = 0
----------------------------------------------------------------------------
EndsOf(obj) ==
    CASE obj.kind \in {"pipe_r", "pipe_w"} -> {obj.e}
      [] obj.kind = "socket" -> {obj.rx, obj.tx}
      [] OTHER -> {}
HeldBy(tab, p) == UNION {EndsOf(tab[p][f]) : f \in Fd}
InCalls(calls) == UNION {calls[p].held : p \in {r \in Proc : calls[r].op \in {"read", "write"}}}
Pending(lis) == UNION {{lis.pending[i].rx, lis.pending[i].tx} : i \in DOMAIN lis.pending}
Referenced(tab, calls, lis, gone) ==
    UNION {HeldBy(tab, p) : p \in DOMAIN tab} \cup InCalls(calls) \cup Pending(lis) \cup gone
Live == Referenced(fdt, inCall, listener, lost)

Dropped(ends, q, readEnd) == Cardinality({e \in ends : endp[e].q = q /\ endp[e].read_end = readEnd})
Minus(a, b) == IF a > b THEN a - b ELSE 0
\* Drop for PipeEndpoint, for the endpoints among which the last reference has gone.
Uncount(queues, ends) ==
    [q \in DOMAIN queues |-> [queues[q] EXCEPT
        !.readers = Minus(@, Dropped(ends, q, TRUE)), !.writers = Minus(@, Dropped(ends, q, FALSE))]]

\* The references change as given; the endpoints that lose their last one are dropped.
Rebind(tab, calls, lis, gone) ==
    /\ fdt' = tab /\ inCall' = calls /\ listener' = lis /\ lost' = gone
    /\ queue' = Uncount(queue, Live \ Referenced(tab, calls, lis, gone))

Idle(p) == inCall[p] = User /\ opsMade < MaxOps
Made == opsMade' = opsMade + 1
Acted(p) == ready' = [ready EXCEPT ![p] = {}]

lowest_free_index(p, min) == {f \in Fd : f >= min /\ fdt[p][f] = Free /\ \A g \in Fd : g >= min /\ g < f => fdt[p][g] # Free}
Set(p, f, obj) == [fdt EXCEPT ![p][f] = obj]
----------------------------------------------------------------------------
NewQueue == [bytes |-> <<>>, readers |-> 1, writers |-> 1]
End(q, readEnd, nb) == [q |-> q, read_end |-> readEnd, nonblocking |-> nb]
\* FdTable::alloc of two objects in turn.
AllocTwo(p, a, b, ce) ==
    \E f \in lowest_free_index(p, 3) : \E g \in lowest_free_index(p, f + 1) :
        /\ fdt' = [fdt EXCEPT ![p][f] = a, ![p][g] = b]
        /\ cloexec' = [cloexec EXCEPT ![p] = IF ce THEN @ \cup {f, g} ELSE @ \ {f, g}]

sys_pipe2(p, nb, ce) ==
    /\ Idle(p) /\ Len(queue) + 1 \in Queue /\ {Len(endp) + 1, Len(endp) + 2} \subseteq Endpoint
    /\ LET q == Len(queue) + 1
           e == Len(endp) + 1
       IN  /\ queue' = Append(queue, NewQueue)
           /\ endp' = endp \o <<End(q, TRUE, nb), End(q, FALSE, nb)>>
           /\ AllocTwo(p, [kind |-> "pipe_r", e |-> e], [kind |-> "pipe_w", e |-> e + 1], ce)
    /\ Made /\ Acted(p) /\ UNCHANGED <<inCall, listener, interest, lost, sent, received, eof, broken>>

\* Two queues and four endpoints, as for socketpair and for connect: client reads q + 1.
PairEnds(q, nb, nbServer) == <<End(q + 1, TRUE, nb), End(q, FALSE, nb), End(q, TRUE, nbServer), End(q + 1, FALSE, nbServer)>>
PairRoom == Len(queue) + 2 \in Queue /\ Len(endp) + 4 \in Endpoint
Sock(e) == [kind |-> "socket", rx |-> e, tx |-> e + 1]

sys_socketpair(p, nb, ce) ==
    /\ Idle(p) /\ PairRoom
    /\ queue' = queue \o <<NewQueue, NewQueue>>
    /\ endp' = endp \o PairEnds(Len(queue) + 1, nb, nb)
    /\ AllocTwo(p, Sock(Len(endp) + 1), Sock(Len(endp) + 3), ce)
    /\ Made /\ Acted(p) /\ UNCHANGED <<inCall, listener, interest, lost, sent, received, eof, broken>>

sys_socket(p, nb) ==
    /\ Idle(p)
    /\ \E f \in lowest_free_index(p, 3) :
        /\ fdt' = Set(p, f, [kind |-> "unbound", nonblocking |-> nb])
        /\ cloexec' = [cloexec EXCEPT ![p] = @ \ {f}]
    /\ Made /\ Acted(p) /\ UNCHANGED <<queue, endp, inCall, listener, interest, lost, sent, received, eof, broken>>

sys_bind(p, f) ==
    /\ Idle(p) /\ fdt[p][f].kind = "unbound" /\ ~listener.bound
    /\ fdt' = Set(p, f, [kind |-> "listener"])
    /\ listener' = [listener EXCEPT !.bound = TRUE]
    /\ Made /\ Acted(p) /\ UNCHANGED <<queue, endp, cloexec, inCall, interest, lost, sent, received, eof, broken>>

sys_listen(p, f) ==
    /\ Idle(p) /\ fdt[p][f].kind = "listener"
    /\ listener' = [listener EXCEPT !.listening = TRUE]
    /\ Made /\ Acted(p) /\ UNCHANGED <<queue, endp, fdt, cloexec, inCall, interest, lost, sent, received, eof, broken>>

\* The path stays in LISTENERS after the listening descriptor is closed.
sys_connect(p, f) ==
    /\ Idle(p) /\ fdt[p][f].kind = "unbound" /\ listener.listening /\ PairRoom
    /\ queue' = queue \o <<NewQueue, NewQueue>>
    /\ endp' = endp \o PairEnds(Len(queue) + 1, fdt[p][f].nonblocking, FALSE)
    /\ fdt' = Set(p, f, Sock(Len(endp) + 1))
    /\ listener' = [listener EXCEPT !.pending = Append(@, [rx |-> Len(endp) + 3, tx |-> Len(endp) + 4])]
    /\ Made /\ Acted(p) /\ UNCHANGED <<cloexec, inCall, interest, lost, sent, received, eof, broken>>

\* Mutant: the new endpoint is not counted.
UncountedCopy(e, on, queues) == queues
\* with_nonblocking: a new endpoint for the same side, counted before the old one goes.
CountCopy(e, on, queues) ==
    IF endp[e].nonblocking = on THEN queues
    ELSE [queues EXCEPT ![endp[e].q] = IF endp[e].read_end THEN [@ EXCEPT !.readers = @ + 1] ELSE [@ EXCEPT !.writers = @ + 1]]

\* The endpoint that with_nonblocking returns, as the i-th new one.
Copy(e, on, i) == IF endp[e].nonblocking = on THEN e ELSE Len(endp) + i
Copies(es, on) == [i \in DOMAIN es |-> [endp[es[i]] EXCEPT !.nonblocking = on]]

\* accept with SOCK_NONBLOCK = on; the endpoints of the backlog are blocking.
sys_accept4(p, f, on) ==
    /\ Idle(p) /\ fdt[p][f].kind = "listener" /\ listener.pending # <<>>
    /\ on => Len(endp) + 2 \in Endpoint
    /\ LET s == Head(listener.pending)
           counted == CountCopy(s.tx, on, CountCopy(s.rx, on, queue))
           tab == [g \in lowest_free_index(p, 3) |->
                     Set(p, g, [kind |-> "socket", rx |-> Copy(s.rx, on, 1), tx |-> Copy(s.tx, on, 2)])]
           rest == [listener EXCEPT !.pending = Tail(@)]
       IN  \E g \in DOMAIN tab :
            /\ fdt' = tab[g] /\ listener' = rest /\ UNCHANGED <<inCall, lost>>
            /\ queue' = Uncount(counted, Live \ Referenced(tab[g], inCall, rest, lost))
            /\ cloexec' = [cloexec EXCEPT ![p] = @ \ {g}]
            /\ endp' = endp \o (IF on THEN Copies(<<s.rx, s.tx>>, on) ELSE <<>>)
    /\ Made /\ Acted(p) /\ UNCHANGED <<interest, sent, received, eof, broken>>

\* fcntl F_SETFL and ioctl FIONBIO.
set_nonblocking(p, f, on) ==
    /\ Idle(p) /\ EndsOf(fdt[p][f]) # {}
    /\ LET obj == fdt[p][f]
           es == IF obj.kind = "socket" THEN <<obj.rx, obj.tx>> ELSE <<obj.e>>
           new == IF obj.kind = "socket"
                  THEN [obj EXCEPT !.rx = Copy(@, on, 1), !.tx = Copy(@, on, 2)]
                  ELSE [obj EXCEPT !.e = Copy(@, on, 1)]
           counted == IF Len(es) = 2 THEN CountCopy(es[2], on, CountCopy(es[1], on, queue)) ELSE CountCopy(es[1], on, queue)
       IN  /\ endp[es[1]].nonblocking # on /\ Len(endp) + Len(es) \in Endpoint
           /\ fdt' = Set(p, f, new) /\ UNCHANGED <<inCall, listener, lost>>
           /\ queue' = Uncount(counted, Live \ Referenced(fdt', inCall, listener, lost))
           /\ endp' = endp \o Copies(es, on)
    /\ Made /\ Acted(p) /\ UNCHANGED <<cloexec, interest, sent, received, eof, broken>>

sys_close(p, f) ==
    /\ Idle(p) /\ fdt[p][f] # Free
    /\ Rebind(Set(p, f, Free), inCall, listener, lost)
    /\ cloexec' = [cloexec EXCEPT ![p] = @ \ {f}]
    /\ Made /\ Acted(p) /\ UNCHANGED <<endp, interest, sent, received, eof, broken>>

\* dup, dup2, dup3 and F_DUPFD: old is duplicated to g, which may be in use for dup2 only.
DupTo(p, old, g, ce) ==
    /\ Idle(p) /\ fdt[p][old] # Free /\ old # g
    /\ Rebind(Set(p, g, fdt[p][old]), inCall, listener, lost)
    /\ cloexec' = [cloexec EXCEPT ![p] = IF ce THEN @ \cup {g} ELSE @ \ {g}]
    /\ Made /\ Acted(p) /\ UNCHANGED <<endp, interest, sent, received, eof, broken>>
dup_min(p, old, min, ce) == Idle(p) /\ \E g \in lowest_free_index(p, min) : DupTo(p, old, g, ce)
sys_dup3(p, old, new, ce) == DupTo(p, old, new, ce)

set_cloexec(p, f, on) ==
    /\ Idle(p) /\ fdt[p][f] # Free
    /\ cloexec' = [cloexec EXCEPT ![p] = IF on THEN @ \cup {f} ELSE @ \ {f}]
    /\ Made /\ Acted(p) /\ UNCHANGED <<queue, endp, fdt, inCall, listener, interest, lost, sent, received, eof, broken>>

\* fork and clone both copy the table.
fork(p, c) ==
    /\ Idle(p) /\ c \notin DOMAIN fdt /\ inCall[c] = User
    /\ fdt' = [r \in DOMAIN fdt \cup {c} |-> IF r = c THEN fdt[p] ELSE fdt[r]]
    /\ cloexec' = [cloexec EXCEPT ![c] = cloexec[p]]
    /\ Made /\ Acted(p) /\ UNCHANGED <<queue, endp, inCall, listener, interest, lost, sent, received, eof, broken>>

close_cloexec(p) ==
    /\ Idle(p)
    /\ Rebind([fdt EXCEPT ![p] = [f \in Fd |-> IF f \in cloexec[p] THEN Free ELSE @[f]]], inCall, listener, lost)
    /\ cloexec' = [cloexec EXCEPT ![p] = {}]
    /\ Made /\ Acted(p) /\ UNCHANGED <<endp, interest, sent, received, eof, broken>>

\* p exits, or is killed, perhaps in a call; the entry of the registry goes with its table.
remove_compat(p) ==
    /\ opsMade < MaxOps
    /\ Rebind([r \in DOMAIN fdt \ {p} |-> fdt[r]], [inCall EXCEPT ![p] = User], listener,
              lost \cup (IF inCall[p].op \in {"read", "write"} THEN inCall[p].held ELSE {}))
    /\ cloexec' = [cloexec EXCEPT ![p] = {}]
    /\ Made /\ Acted(p) /\ UNCHANGED <<endp, interest, sent, received, eof, broken>>
----------------------------------------------------------------------------
Enter(p, call) == inCall' = [inCall EXCEPT ![p] = call]
ReadEnd(obj) == CASE obj.kind = "pipe_r" -> {obj.e} [] obj.kind = "socket" -> {obj.rx} [] OTHER -> {}
WriteEnd(obj) == CASE obj.kind = "pipe_w" -> {obj.e} [] obj.kind = "socket" -> {obj.tx} [] OTHER -> {}

\* sys_read and sys_write look the descriptor up and hold what it resolves to: the endpoint of
\* a pipe, both endpoints of a socket.
sys_read(p, f, n) ==
    /\ Idle(p)
    /\ \E e \in ReadEnd(fdt[p][f]) : Enter(p, [op |-> "read", e |-> e, n |-> n, held |-> EndsOf(fdt[p][f])])
    /\ Made /\ Acted(p) /\ UNCHANGED <<queue, endp, fdt, cloexec, listener, interest, lost, sent, received, eof, broken>>
sys_write(p, f, n) ==
    /\ Idle(p)
    /\ \E e \in WriteEnd(fdt[p][f]) : Enter(p, [op |-> "write", e |-> e, n |-> n, held |-> EndsOf(fdt[p][f])])
    /\ Made /\ Acted(p) /\ UNCHANGED <<queue, endp, fdt, cloexec, listener, interest, lost, sent, received, eof, broken>>

Least(a, b) == IF a < b THEN a ELSE b
\* The return of a call, which drops what it held; queues is what the call made of them.
Leave(p, queues) ==
    /\ Enter(p, User)
    /\ queue' = Uncount(queues, Live \ Referenced(fdt, inCall', listener, lost))

\* One turn of read_pipe: data, end of file, EAGAIN, or nothing yet.
read_pipe(p) ==
    /\ inCall[p].op = "read"
    /\ LET e == endp[inCall[p].e]
           s == queue[e.q]
           n == Least(inCall[p].n, Len(s.bytes))
       IN  \/ /\ s.bytes # <<>>
              /\ Leave(p, [queue EXCEPT ![e.q].bytes = SubSeq(@, n + 1, Len(@))])
              /\ received' = [received EXCEPT ![e.q] = @ + n] /\ UNCHANGED eof
           \/ /\ s.bytes = <<>> /\ s.writers = 0
              /\ Leave(p, queue) /\ eof' = eof \cup {e.q} /\ UNCHANGED received
           \/ /\ s.bytes = <<>> /\ s.writers # 0 /\ e.nonblocking
              /\ Leave(p, queue) /\ UNCHANGED <<received, eof>>
    /\ UNCHANGED <<endp, fdt, cloexec, listener, interest, lost, sent, broken, ready, opsMade>>

write_pipe(p) ==
    /\ inCall[p].op = "write"
    /\ LET e == endp[inCall[p].e]
           s == queue[e.q]
           room == Capacity - Len(s.bytes)
           n == Least(inCall[p].n, room)
       IN  \/ /\ s.readers = 0
              /\ Leave(p, queue) /\ broken' = broken \cup {e.q} /\ UNCHANGED sent
           \/ /\ s.readers # 0 /\ room = 0 /\ e.nonblocking
              /\ Leave(p, queue) /\ UNCHANGED <<sent, broken>>
           \/ /\ s.readers # 0 /\ room # 0
              /\ Leave(p, [queue EXCEPT ![e.q].bytes = @ \o [i \in 1 .. n |-> sent[e.q] + i]])
              /\ sent' = [sent EXCEPT ![e.q] = @ + n] /\ UNCHANGED broken
    /\ UNCHANGED <<endp, fdt, cloexec, listener, interest, lost, received, eof, ready, opsMade>>

read_ready(e) == queue[endp[e].q].bytes # <<>> \/ queue[endp[e].q].writers = 0
write_ready(e) == queue[endp[e].q].readers > 0 /\ Len(queue[endp[e].q].bytes) < Capacity
peer_closed(e) == IF endp[e].read_end THEN queue[endp[e].q].writers = 0 ELSE queue[endp[e].q].readers = 0

\* poll_revents and poll_fd; a listener is polled for its backlog by epoll only.
poll_revents(p, f) ==
    LET obj == fdt[p][f]
    IN  CASE obj.kind = "free" -> {"NVAL"}
          [] obj.kind = "pipe_r" -> {ev \in {"IN"} : read_ready(obj.e)} \cup {ev \in {"HUP"} : peer_closed(obj.e)}
          [] obj.kind = "pipe_w" -> {ev \in {"OUT"} : write_ready(obj.e)} \cup {ev \in {"ERR"} : peer_closed(obj.e)}
          [] obj.kind = "socket" -> {ev \in {"IN"} : read_ready(obj.rx)} \cup {ev \in {"OUT"} : write_ready(obj.tx)}
                                    \cup {ev \in {"HUP"} : peer_closed(obj.rx)}
          [] OTHER -> {}

select_ready(p, f) ==
    CASE fdt[p][f].kind = "free" -> TRUE
      [] ReadEnd(fdt[p][f]) # {} -> \A e \in ReadEnd(fdt[p][f]) : read_ready(e) \/ peer_closed(e)
      [] OTHER -> FALSE

\* The scan of a descriptor that ends a poll, select or epoll_wait for reading; a call that
\* finds nothing scans again, up to a timeout or a signal.
Scan(p, found) ==
    /\ Idle(p) /\ found # {}
    /\ ready' = [ready EXCEPT ![p] = found]
    /\ Made /\ UNCHANGED <<queue, endp, fdt, cloexec, inCall, listener, interest, lost, sent, received, eof, broken>>

sys_poll(p, f) == Scan(p, {g \in {f} : "IN" \in poll_revents(p, f)})
do_select(p, f) == Scan(p, {g \in {f} : select_ready(p, f)})
sys_epoll_wait(p, f) == fdt[p][f].kind = "epoll" /\ Scan(p, {g \in interest : poll_revents(p, g) \cap {"IN", "HUP", "NVAL"} # {}})

sys_epoll_create1(p, ce) ==
    /\ Idle(p) /\ \A r \in DOMAIN fdt : \A f \in Fd : fdt[r][f].kind # "epoll"
    /\ \E f \in lowest_free_index(p, 3) :
        /\ fdt' = Set(p, f, [kind |-> "epoll"])
        /\ cloexec' = [cloexec EXCEPT ![p] = IF ce THEN @ \cup {f} ELSE @ \ {f}]
    /\ interest' = {}
    /\ Made /\ Acted(p) /\ UNCHANGED <<queue, endp, inCall, listener, lost, sent, received, eof, broken>>

\* The entry names the descriptor by its number, not the object behind it.
sys_epoll_ctl(p, ep, f, add) ==
    /\ Idle(p) /\ fdt[p][ep].kind = "epoll" /\ (f \in interest) = ~add
    /\ interest' = IF add THEN interest \cup {f} ELSE interest \ {f}
    /\ Made /\ Acted(p) /\ UNCHANGED <<queue, endp, fdt, cloexec, inCall, listener, lost, sent, received, eof, broken>>

Next ==
    \E p \in DOMAIN fdt :
        \/ remove_compat(p) \/ read_pipe(p) \/ write_pipe(p)
        \/ \E c \in Proc : fork(p, c)
        \/ \E f \in Fd : sys_close(p, f) \/ \E n \in 1 .. Capacity + 1 : sys_read(p, f, n) \/ sys_write(p, f, n)
        \/ "pipe" \in Uses /\ \E nb, ce \in BOOLEAN : sys_pipe2(p, nb, ce)
        \/ "socket" \in Uses /\ \E nb \in BOOLEAN :
            \/ sys_socketpair(p, nb, FALSE) \/ sys_socket(p, nb)
            \/ \E f \in Fd : sys_bind(p, f) \/ sys_listen(p, f) \/ sys_connect(p, f) \/ sys_accept4(p, f, nb)
        \/ "epoll" \in Uses /\ \E f \in Fd :
            \/ sys_poll(p, f) \/ do_select(p, f) \/ sys_epoll_wait(p, f)
            \/ \E on \in BOOLEAN : sys_epoll_create1(p, on) \/ \E g \in Fd : sys_epoll_ctl(p, f, g, on)
        \/ "dup" \in Uses /\ \E f, g \in Fd, ce \in BOOLEAN : dup_min(p, f, g, ce) \/ sys_dup3(p, f, g, ce)
        \/ "flags" \in Uses /\ \E f \in Fd, on \in BOOLEAN : set_nonblocking(p, f, on) \/ set_cloexec(p, f, on)
        \/ "flags" \in Uses /\ close_cloexec(p)

Spec == Init /\ [][Next]_pipeVars
----------------------------------------------------------------------------
EndsAlive(q, readEnd) == {e \in Live : endp[e].q = q /\ endp[e].read_end = readEnd}
\* p, through f and in no call, is all that can read the queue.
SoleReader(p, f) ==
    /\ fdt[p][f].kind = "pipe_r" /\ EndsAlive(endp[fdt[p][f].e].q, TRUE) = {fdt[p][f].e}
    /\ \A r \in DOMAIN fdt : \A g \in Fd : fdt[p][f].e \in EndsOf(fdt[r][g]) => r = p /\ g = f
    /\ fdt[p][f].e \notin InCalls(inCall)

\* What a task is told of a pipe stays true.  A reader that got end of file has had every
\* byte, and no writer is left that could send more; a writer that got EPIPE has no
\* reader left; and a descriptor that poll reported readable does not block the only
\* task that reads it.
ToldTruth ==
    /\ \A q \in DOMAIN queue : queue[q].bytes = [i \in 1 .. sent[q] - received[q] |-> received[q] + i]
    /\ \A q \in eof : EndsAlive(q, FALSE) = {} /\ received[q] = sent[q]
    /\ \A q \in broken : EndsAlive(q, TRUE) = {}
    /\ \A p \in DOMAIN fdt : \A f \in ready[p] : SoleReader(p, f) => read_ready(fdt[p][f].e)
============================================================================
