------------------------------ MODULE Resolver ------------------------------
(***************************************************************************)
(* The UDP socket table and its users: resolve() of several tasks, each    *)
(* asking for an A and then an AAAA record over a temporary socket, the    *)
(* datagram sockets of processes, and ping. Answers of the name server     *)
(* come late, twice or never, to ports that have been given to another     *)
(* socket since. A name is a model value; transaction ids may collide.     *)
(***************************************************************************)
EXTENDS Integers, Sequences, FiniteSets, SequencesExt

CONSTANTS
    Resolvers, Procs, Pingers,   \* the tasks
    Zone,            \* [Hosts -> [{"A", "AAAA"} -> sequences of addresses]]
    Malformed,       \* hosts that are no domain name
    Literals,        \* [host |-> address]: hosts written as an address
    Ids,             \* transaction ids random_u32 may draw
    FirstPort, LastPort, RX_QUEUE_CAP, MAX_PINGS, MaxLookups

VARIABLES
    udpSocks,    \* UdpTable.socks: a sequence of <<>> or <<[port, rx]>>
    next_eph,
    lookup,      \* [Resolvers -> the locals of resolve and dns_query_once]
    datagram,    \* [Procs -> [fd, peer, got, done]]: an InetUdp descriptor
    queries,     \* what has reached the name server, [port, id, host, qtype]
    pings,       \* the PingWaiters
    pinger,      \* [Pingers -> [pc, ident, rtt]]
    answered     \* idents of echo requests that were replied to

resolverVars == <<udpSocks, next_eph, lookup, datagram, queries, pings, pinger, answered>>

Resting == [pc |-> "idle", host |-> "", qtype |-> "A", id |-> 0, handle |-> 0, sent |-> FALSE,
            result |-> <<>>, count |-> 0]
Init ==
    /\ udpSocks = <<>> /\ next_eph = FirstPort
    /\ lookup = [r \in Resolvers |-> Resting]
    /\ datagram = [p \in Procs |-> [fd |-> <<>>, peer |-> FALSE, got |-> <<>>, count |-> 0]]
    /\ queries = {} /\ pings = <<>> /\ answered = {}
    /\ pinger = [p \in Pingers |-> [pc |-> "idle", ident |-> 0, rtt |-> FALSE, count |-> 0]]

-----------------------------------------------------------------------------
\* UdpTable
open(socks, port) ==
    LET free == {i \in DOMAIN socks : socks[i] = <<>>}
        i == IF free = {} THEN Len(socks) + 1 ELSE CHOOSE k \in free : \A j \in free : k <= j
        sock == <<[port |-> port, rx |-> <<>>]>>
    IN  [handle |-> i, socks |-> IF free = {} THEN Append(socks, sock) ELSE [socks EXCEPT ![i] = sock]]
close(socks, h) == [socks EXCEPT ![h] = <<>>]
Bound(socks) == {i \in DOMAIN socks : socks[i] # <<>>}
port_in_use(socks, port) == \E i \in Bound(socks) : socks[i][1].port = port

\* the first port from next_eph on that no UDP socket has; with none left the loop never ends
Successor(p) == IF p = LastPort THEN FirstPort ELSE p + 1
Ports == FirstPort..LastPort
Distance(p) == (p - next_eph) % Cardinality(Ports)
ephemeral_port_locked(socks) ==
    CHOOSE p \in Ports : ~port_in_use(socks, p) /\ \A q \in Ports : Distance(q) < Distance(p) => port_in_use(socks, q)
HasPort == \E p \in Ports : ~port_in_use(udpSocks, p)

demux(socks, port, payload) ==
    LET hits == {i \in Bound(socks) : socks[i][1].port = port}
        i == CHOOSE k \in hits : \A j \in hits : k <= j
    IN  IF hits = {} \/ Len(socks[i][1].rx) >= RX_QUEUE_CAP THEN socks
        ELSE [socks EXCEPT ![i] = <<[@[1] EXCEPT !.rx = Append(@, payload)]>>]
\* recv: the oldest datagram, if any, and the table without it
recv(socks, h) ==
    IF socks[h][1].rx = <<>> THEN [data |-> <<>>, socks |-> socks]
    ELSE [data |-> <<Head(socks[h][1].rx)>>, socks |-> [socks EXCEPT ![h] = <<[@[1] EXCEPT !.rx = Tail(@)]>>]]

OpenEphemeral(h) ==
    LET port == ephemeral_port_locked(udpSocks)
        o == open(udpSocks, port)
    IN  HasPort /\ h = o.handle /\ udpSocks' = o.socks /\ next_eph' = Successor(port)
send_from(h, id, host, qtype) ==
    [port |-> udpSocks[h][1].port, id |-> id, host |-> host, qtype |-> qtype]

-----------------------------------------------------------------------------
\* what the name server may send back for a query: a record is [type, len, addr]
Right(t) == IF t = "A" THEN 4 ELSE 16
Record(t, a) == [type |-> t, len |-> Right(t), addr |-> a]
Records(host, t) == [i \in DOMAIN Zone[host][t] |-> Record(t, Zone[host][t][i])]
Other(t) == IF t = "A" THEN "AAAA" ELSE "A"
Message(q, an) == [id |-> q.id, rcode |-> 0, host |-> q.host, qtype |-> q.qtype,
                   an |-> an, whole |-> Len(an)]
Answers(q) ==
    LET odd == <<[type |-> q.qtype, len |-> 3, addr |-> "odd"]>>
        full == Message(q, Records(q.host, Other(q.qtype)) \o odd \o Records(q.host, q.qtype))
    IN  IF q.host \in DOMAIN Zone
        THEN {full, [full EXCEPT !.whole = Len(full.an) - 1], [full EXCEPT !.rcode = 3]}
        ELSE {Message(q, <<>>)}

\* a mutant of verify_question: the question is not compared
AnyQuestion(m, host, qtype) == TRUE
verify_question(m, host, qtype) == m.host = host /\ m.qtype = qtype
\* parse_dns_a_response, parse_dns_aaaa_response: the first record of the type with the right
\* length, unless a record before it is cut off
parse_dns_response(m, id, host, qtype) ==
    LET good == {i \in DOMAIN m.an : m.an[i].type = qtype /\ m.an[i].len = Right(qtype)}
        i == CHOOSE k \in good : \A j \in good : k <= j
    IN  IF m.id = id /\ m.rcode = 0 /\ verify_question(m, host, qtype)
           /\ good # {} /\ i <= m.whole
        THEN <<m.an[i].addr>> ELSE <<>>

-----------------------------------------------------------------------------
Rest(r) == UNCHANGED <<pings, pinger, answered>> /\ IF r \in Procs THEN TRUE ELSE UNCHANGED datagram

\* resolve: a literal is its own answer
Resolve(r, host) ==
    /\ lookup[r].pc \in {"idle", "done"} /\ lookup[r].count < MaxLookups
    /\ lookup' = [lookup EXCEPT ![r] = [Resting EXCEPT
           !.pc = IF host \in DOMAIN Literals THEN "done" ELSE "ask", !.host = host, !.count = lookup[r].count + 1,
           !.result = IF host \in DOMAIN Literals THEN <<Literals[host]>> ELSE <<>>]]
    /\ UNCHANGED <<udpSocks, next_eph, queries>> /\ Rest(r)

\* the order of resolve: A, then AAAA, then nothing
NextType(l) == IF l.result = <<>> /\ l.qtype = "A" THEN [l EXCEPT !.pc = "ask", !.qtype = "AAAA"]
               ELSE [l EXCEPT !.pc = "done"]
\* dns_query_once: a name that cannot be encoded has no answer; else a fresh id and socket
Ask(r) ==
    LET l == lookup[r] IN
    /\ l.pc = "ask"
    /\ IF l.host \in Malformed
       THEN lookup' = [lookup EXCEPT ![r] = NextType(l)] /\ UNCHANGED <<udpSocks, next_eph>>
       ELSE \E id \in Ids, h \in 1..(Len(udpSocks) + 1) :
                /\ OpenEphemeral(h)
                /\ lookup' = [lookup EXCEPT ![r] = [l EXCEPT !.pc = "round", !.id = id, !.handle = h, !.sent = FALSE]]
    /\ UNCHANGED queries /\ Rest(r)

\* a round under the stack lock: send when it is time, take one datagram, stop at the deadline
Round(r, resend, deadline) ==
    LET l == lookup[r]
        got == recv(udpSocks, l.handle)
        result == IF got.data = <<>> THEN <<>>
                  ELSE parse_dns_response(got.data[1], l.id, l.host, l.qtype)
    IN
    /\ l.pc = "round" /\ (resend \/ l.sent)
    /\ queries' = IF resend THEN queries \cup {send_from(l.handle, l.id, l.host, l.qtype)} ELSE queries
    /\ udpSocks' = got.socks
    /\ lookup' = [lookup EXCEPT ![r] = [l EXCEPT !.sent = TRUE, !.result = result,
           !.pc = IF result # <<>> \/ deadline THEN "close" ELSE "round"]]
    /\ UNCHANGED next_eph /\ Rest(r)
Close(r) ==
    /\ lookup[r].pc = "close"
    /\ udpSocks' = close(udpSocks, lookup[r].handle)
    /\ lookup' = [lookup EXCEPT ![r] = NextType(@)]
    /\ UNCHANGED <<next_eph, queries>> /\ Rest(r)

\* a frame arrives and some task's step() takes it in: the server keeps no order and no count
Deliver ==
    /\ \E q \in queries : \E m \in Answers(q) : udpSocks' = demux(udpSocks, q.port, m)
    /\ UNCHANGED <<next_eph, lookup, queries>> /\ Rest("")

-----------------------------------------------------------------------------
\* the datagram sockets of processes; closing the descriptor leaves the socket in the table
sys_socket_in(p) ==
    /\ datagram[p].fd = <<>> /\ datagram[p].count < MaxLookups
    /\ \E h \in 1..(Len(udpSocks) + 1) :
           /\ OpenEphemeral(h)
           /\ datagram' = [datagram EXCEPT ![p] = [fd |-> <<h>>, peer |-> FALSE, got |-> <<>>, count |-> @.count + 1]]
    /\ UNCHANGED <<lookup, queries>> /\ Rest(p)
udp_connect_fd(p) ==
    /\ datagram[p].fd # <<>> /\ datagram' = [datagram EXCEPT ![p].peer = TRUE]
    /\ UNCHANGED <<udpSocks, next_eph, lookup, queries>> /\ Rest(p)
\* udp_sendto_fd, or udp_write_fd to the peer it is connected to (ENOTCONN without one)
udp_sendto_fd(p, host, qtype, named) ==
    /\ datagram[p].fd # <<>> /\ (named \/ datagram[p].peer)
    /\ queries' = queries \cup {send_from(datagram[p].fd[1], 0, host, qtype)}
    /\ UNCHANGED <<udpSocks, next_eph, lookup, datagram>> /\ Rest(p)
udp_recvfrom_fd(p) ==
    /\ datagram[p].fd # <<>>
    /\ LET got == recv(udpSocks, datagram[p].fd[1]) IN
           /\ got.data # <<>> /\ udpSocks' = got.socks
           /\ datagram' = [datagram EXCEPT ![p].got = got.data]
    /\ UNCHANGED <<next_eph, lookup, queries>> /\ Rest(p)
sys_close(p) ==
    /\ datagram[p].fd # <<>> /\ datagram' = [datagram EXCEPT ![p].fd = <<>>]
    /\ UNCHANGED <<udpSocks, next_eph, lookup, queries>> /\ Rest(p)

-----------------------------------------------------------------------------
\* ping: the oldest of MAX_PINGS waiters makes room
Ping(p, ident) ==
    /\ pinger[p].pc \in {"idle", "done"} /\ pinger[p].count < MaxLookups
    /\ pings' = Append(IF Len(pings) >= MAX_PINGS THEN Tail(pings) ELSE pings, [ident |-> ident, done |-> FALSE])
    /\ pinger' = [pinger EXCEPT ![p] = [pc |-> "wait", ident |-> ident, rtt |-> FALSE, count |-> @.count + 1]]
    /\ answered' = answered \ {ident}
Forget(ident) == SelectSeq(pings, LAMBDA w : w.ident # ident)
\* icmp_input, icmpv6_input: a reply ends the first waiter of its ident
EchoReply(ident) ==
    LET at == {i \in DOMAIN pings : ~pings[i].done /\ pings[i].ident = ident} IN
    /\ \E p \in Pingers : pinger[p].ident = ident /\ pinger[p].pc # "idle"
    /\ pings' = IF at = {} THEN pings ELSE [pings EXCEPT ![CHOOSE i \in at : \A j \in at : i <= j].done = TRUE]
    /\ answered' = answered \cup {ident} /\ UNCHANGED pinger
PingRound(p, timeout) ==
    LET done == \E i \in DOMAIN pings : pings[i].ident = pinger[p].ident /\ pings[i].done IN
    /\ pinger[p].pc = "wait" /\ (done \/ timeout)
    /\ pings' = Forget(pinger[p].ident)
    /\ pinger' = [pinger EXCEPT ![p].pc = "done", ![p].rtt = done]
    /\ UNCHANGED answered

Next ==
    \/ \E r \in Resolvers : \/ \E host \in DOMAIN Zone \cup Malformed \cup DOMAIN Literals : Resolve(r, host)
                            \/ Ask(r) \/ Close(r)
                            \/ \E resend, deadline \in BOOLEAN : Round(r, resend, deadline)
    \/ Deliver
    \/ \E p \in Procs : \/ sys_socket_in(p) \/ udp_connect_fd(p) \/ udp_recvfrom_fd(p) \/ sys_close(p)
                        \/ \E host \in DOMAIN Zone, t \in {"A", "AAAA"}, named \in BOOLEAN : udp_sendto_fd(p, host, t, named)
    \/ /\ \E p \in Pingers : \/ \E ident \in {i \in 1..(2 * MaxLookups) : \A q \in Pingers : pinger[q].ident < i} : Ping(p, ident)
                             \/ \E timeout \in BOOLEAN : PingRound(p, timeout)
                             \/ EchoReply(pinger[p].ident)
       /\ UNCHANGED <<udpSocks, next_eph, lookup, datagram, queries>>

-----------------------------------------------------------------------------
(* resolve(host) answers with nothing or with an address the server, or the  *)
(* literal, gives for that very host and record type, whatever late answers  *)
(* to other questions reach the port; the sockets in use have ports of their *)
(* own; a ping that returns a time had its own request replied to.           *)
OwnAnswer ==
    /\ \A r \in DOMAIN lookup :
           (lookup[r].pc = "done" /\ lookup[r].result # <<>>) =>
               lookup[r].result[1] \in IF lookup[r].host \in DOMAIN Literals THEN {Literals[lookup[r].host]}
                                       ELSE ToSet(Zone[lookup[r].host][lookup[r].qtype])
    /\ \A i, j \in Bound(udpSocks) : udpSocks[i][1].port = udpSocks[j][1].port => i = j
    /\ \A p \in DOMAIN pinger : (pinger[p].pc = "done" /\ pinger[p].rtt) => pinger[p].ident \in answered
=============================================================================
