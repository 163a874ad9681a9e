------------------------------ MODULE InetSock ------------------------------
(***************************************************************************)
(* TCP descriptors of processes over the socket table of the stack: an     *)
(* InetTcp object holds the index of a slot, shared by the descriptors a   *)
(* fork copied, while the stack itself frees the slots of connections that *)
(* were refused or reset and gives them to the next connect. A connection  *)
(* is a number, and an octet received is the number of its connection.     *)
(***************************************************************************)
EXTENDS Integers, Sequences, FiniteSets

CONSTANTS
    Procs,
    FirstPort, LastPort, UdpBound,     \* the ephemeral ports, those held by UDP sockets
    RxBytes, TxBytes, MaxConns, MaxOctets

VARIABLES
    tcpSocks,    \* TcpTable.socks: a sequence of <<>> or <<[port, state, conn, rx, tx]>>
    eph,         \* next_eph
    objects,     \* the InetTcp objects
    proc,        \* [Procs -> [fd, pc, handle]]: an object's index or 0, and the call it is in
    conns,       \* connections so far
    lost,        \* connections dropped by the stack, or closed during a call of another process
    mixed        \* pairs: a descriptor of the first connection was served by the second

inetVars == <<tcpSocks, eph, objects, proc, conns, lost, mixed>>

Init ==
    /\ tcpSocks = <<>> /\ eph = FirstPort /\ objects = <<>>
    /\ proc = [p \in Procs |-> [fd |-> 0, pc |-> "run", handle |-> 0]]
    /\ conns = 0 /\ lost = {} /\ mixed = {}

-----------------------------------------------------------------------------
Live(h) == h \in DOMAIN tcpSocks /\ tcpSocks[h] # <<>>
Ports == FirstPort..LastPort
tcp_port_in_use(port) == \E h \in DOMAIN tcpSocks : Live(h) /\ tcpSocks[h][1].port = port
\* ephemeral_port_locked: the next port no UDP socket has
Distance(p) == (p - eph) % Cardinality(Ports)
ephemeral_port_locked == CHOOSE p \in Ports \ UdpBound : \A q \in Ports \ UdpBound : Distance(p) <= Distance(q)
Successor(p) == IF p = LastPort THEN FirstPort ELSE p + 1
alloc_slot == IF \E h \in DOMAIN tcpSocks : ~Live(h)
              THEN CHOOSE h \in DOMAIN tcpSocks : ~Live(h) /\ \A g \in 1..(h - 1) : Live(g)
              ELSE Len(tcpSocks) + 1
InSlot(h, s) == IF h > Len(tcpSocks) THEN Append(tcpSocks, s) ELSE [tcpSocks EXCEPT ![h] = s]

Obj(p) == objects[proc[p].fd]
Set(p, o) == objects' = [objects EXCEPT ![proc[p].fd] = o]
Mine(p) == proc[p].fd # 0 /\ proc[p].pc = "run"
Back(p) == [proc EXCEPT ![p].pc = "run", ![p].handle = 0]
InCall(q, fd) == proc[q].fd = fd /\ proc[q].pc # "run"
Served(o, conn) == IF o.conn = conn THEN mixed ELSE mixed \cup {<<o.conn, conn>>}
Env == UNCHANGED <<eph, objects, proc, conns, mixed>>
Quiet == UNCHANGED <<eph, conns, lost>>

-----------------------------------------------------------------------------
\* the peers and the stack: a slot whose connection is refused or reset is freed at once
Peer(h) ==
    LET s == tcpSocks[h][1] IN
    \/ /\ s.state = "SynSent" /\ tcpSocks' = InSlot(h, <<[s EXCEPT !.state = "Established"]>>)
       /\ UNCHANGED lost
    \/ /\ s.state = "Established" /\ Len(s.rx) < RxBytes /\ s.octets < MaxOctets
       /\ tcpSocks' = InSlot(h, <<[s EXCEPT !.rx = Append(@, s.conn), !.octets = @ + 1]>>)
       /\ UNCHANGED lost
    \/ /\ s.state = "Established" /\ tcpSocks' = InSlot(h, <<[s EXCEPT !.state = "CloseWait"]>>)
       /\ UNCHANGED lost
    \/ /\ s.tx > 0 /\ tcpSocks' = InSlot(h, <<[s EXCEPT !.tx = @ - 1]>>) /\ UNCHANGED lost
reap_closed(h) == tcpSocks' = InSlot(h, <<>>) /\ lost' = lost \cup {tcpSocks[h][1].conn}

-----------------------------------------------------------------------------
sys_socket_in(p, nonblocking) ==
    /\ proc[p].fd = 0 /\ Len(objects) < MaxConns
    /\ objects' = Append(objects, [handle |-> <<>>, nonblocking |-> nonblocking, so_error |-> 0,
                                   connected |-> FALSE, eof |-> FALSE, conn |-> 0])
    /\ proc' = [proc EXCEPT ![p].fd = Len(objects) + 1]
    /\ UNCHANGED <<tcpSocks, mixed>> /\ Quiet
\* fork: the child's descriptor is the same object
Fork(p, q) ==
    /\ Mine(p) /\ proc[q].fd = 0 /\ proc' = [proc EXCEPT ![q].fd = proc[p].fd]
    /\ UNCHANGED <<tcpSocks, objects, mixed>> /\ Quiet

\* sys_connect_tcp up to the wait for the handshake
Connect(p) ==
    LET port == ephemeral_port_locked
        h == alloc_slot
        new == [port |-> port, state |-> "SynSent", conn |-> conns + 1, rx |-> <<>>, tx |-> 0, octets |-> 0]
        o == Obj(p)
    IN
    /\ Mine(p) /\ o.handle = <<>> /\ conns < MaxConns
    /\ eph' = Successor(port)
    /\ IF tcp_port_in_use(port)
       THEN Set(p, [o EXCEPT !.so_error = 115]) /\ UNCHANGED <<tcpSocks, proc, conns>>
       ELSE /\ tcpSocks' = InSlot(h, <<new>>) /\ conns' = conns + 1
            /\ Set(p, [o EXCEPT !.handle = <<h>>, !.conn = conns + 1,
                                !.so_error = IF o.nonblocking THEN 115 ELSE @])
            /\ proc' = IF o.nonblocking THEN proc ELSE [proc EXCEPT ![p].pc = "connect", ![p].handle = h]
    /\ UNCHANGED <<lost, mixed>>
\* one turn of the wait: tcp_established, tcp_dead_before_established, or the limit of turns
ConnectWait(p, timeout) ==
    LET h == proc[p].handle
        ends(o) == Set(p, o) /\ proc' = Back(p)
    IN
    /\ proc[p].pc = "connect"
    /\ CASE Live(h) /\ tcpSocks[h][1].state = "Established" ->
                /\ ends([Obj(p) EXCEPT !.connected = TRUE, !.so_error = 0])
                /\ mixed' = Served(Obj(p), tcpSocks[h][1].conn)
         [] ~Live(h) -> ends([Obj(p) EXCEPT !.so_error = 111]) /\ UNCHANGED mixed
         [] OTHER -> timeout /\ ends([Obj(p) EXCEPT !.so_error = 110]) /\ UNCHANGED mixed
    /\ UNCHANGED tcpSocks /\ Quiet

\* tcp_write: as much as fits, until all of the data is in the buffer
tcp_write(p) ==
    LET o == Obj(p)
        h == IF proc[p].pc = "write" THEN proc[p].handle ELSE o.handle[1]
        s == tcpSocks[h][1]
        taken == Live(h) /\ s.state \in {"Established", "CloseWait"} /\ s.tx < TxBytes
        over == taken \/ o.nonblocking \/ o.so_error # 0
    IN
    /\ proc[p].fd # 0
    /\ IF proc[p].pc = "write" THEN TRUE ELSE Mine(p) /\ o.connected /\ o.handle # <<>>
    /\ tcpSocks' = IF taken THEN InSlot(h, <<[s EXCEPT !.tx = @ + 1]>>) ELSE tcpSocks
    /\ mixed' = IF taken THEN Served(o, s.conn) ELSE mixed
    /\ proc' = IF over THEN Back(p) ELSE [proc EXCEPT ![p].pc = "write", ![p].handle = h]
    /\ UNCHANGED objects /\ Quiet
\* tcp_read: the end of the stream is remembered, a slot that is gone counts as one
tcp_read(p) ==
    LET o == Obj(p)
        h == IF proc[p].pc = "read" THEN proc[p].handle ELSE o.handle[1]
        s == tcpSocks[h][1]
        data == ~o.eof /\ Live(h) /\ s.rx # <<>>
        end == ~data /\ (~Live(h) \/ (s.state = "CloseWait" /\ s.rx = <<>>))
    IN
    /\ proc[p].fd # 0
    /\ IF proc[p].pc = "read" THEN TRUE ELSE Mine(p) /\ o.handle # <<>>
    /\ tcpSocks' = IF data THEN InSlot(h, <<[s EXCEPT !.rx = Tail(@)]>>) ELSE tcpSocks
    /\ mixed' = IF data THEN Served(o, Head(s.rx))
                ELSE IF end /\ ~o.eof /\ Live(h) THEN Served(o, s.conn) ELSE mixed
    /\ Set(p, [o EXCEPT !.eof = @ \/ end])
    /\ proc' = IF data \/ end \/ o.eof \/ o.nonblocking THEN Back(p)
               ELSE [proc EXCEPT ![p].pc = "read", ![p].handle = h]
    /\ Quiet

\* a mutant of Take: the handle stays with the object
Keep(o) == o
Take(o) == [o EXCEPT !.handle = <<>>]
\* sys_close, tcp_close_fd: the first close of any of its descriptors ends the connection
sys_close(p) ==
    LET o == Obj(p) IN
    /\ Mine(p) /\ Set(p, Take(o))
    /\ proc' = [proc EXCEPT ![p].fd = 0]
    /\ IF o.handle # <<>> /\ Live(o.handle[1])
       THEN /\ tcpSocks' = InSlot(o.handle[1], <<>>)
            /\ mixed' = Served(o, tcpSocks[o.handle[1]][1].conn)
       ELSE UNCHANGED <<tcpSocks, mixed>>
    /\ lost' = IF \E q \in Procs : InCall(q, proc[p].fd) THEN lost \cup {o.conn} ELSE lost
    /\ UNCHANGED <<eph, conns>>

\* what getsockopt(SO_ERROR) reads: the dispatcher calls getsockopt_in without the socket
getsockopt_in(p) == 0

Next ==
    \/ \E h \in DOMAIN tcpSocks : Live(h) /\ (Peer(h) \/ reap_closed(h)) /\ Env
    \/ \E p \in Procs :
           \/ \E nonblocking \in BOOLEAN : sys_socket_in(p, nonblocking)
           \/ \E q \in Procs : Fork(p, q)
           \/ Connect(p) \/ tcp_write(p) \/ tcp_read(p) \/ sys_close(p)
           \/ \E timeout \in BOOLEAN : ConnectWait(p, timeout)

-----------------------------------------------------------------------------
(* A descriptor reads, writes, waits for and closes the connection it opened *)
(* and no other, as long as the stack has not dropped that connection and no *)
(* other process closed it in the middle of a call; two live connections     *)
(* never share a local port.                                                 *)
OwnConnection ==
    /\ \A m \in mixed : m[1] \in lost
    /\ \A g, h \in DOMAIN tcpSocks : (Live(g) /\ Live(h) /\ tcpSocks[g][1].port = tcpSocks[h][1].port) => g = h

(* inet_sock.rs says of a non-blocking connect that its completion surfaces  *)
(* via SO_ERROR: no error is reported only for an established connection.    *)
CompletionSurfaces ==
    \A p \in DOMAIN proc :
        (Mine(p) /\ Obj(p).handle # <<>> /\ getsockopt_in(p) = 0) =>
            Live(Obj(p).handle[1]) /\ tcpSocks[Obj(p).handle[1]][1].state # "SynSent"
=============================================================================
