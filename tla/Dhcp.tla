-------------------------------- MODULE Dhcp --------------------------------
(***************************************************************************)
(* The DHCP client of net/udp.rs and the configuration part of Stack::step *)
(* in net/mod.rs: discovery, request, lease, renewal, and the static       *)
(* address that is taken when no lease has come in time.                   *)
(*                                                                         *)
(* Servers answer from how RFC 2131 has them; the network may drop, repeat *)
(* and delay every message.  A transaction id is a number not used before. *)
(***************************************************************************)
EXTENDS Integers, Sequences, FiniteSets

CONSTANTS
    Server,             \* the servers; each offers its own address
    RxQueueCap, RetryTicks, DhcpTimeout, HalfLease,
    MaxTick, MaxXid     \* bounds: ticks, discoveries

VARIABLES
    phase, xid, serverId,   \* DhcpClient
    retryAt, t1,            \* its deadlines; 0: none
    rx,                     \* replies queued on port 68
    config,                 \* "none", "static" or the leasing server: st.cidr
    fallbackAt,             \* deadline_tick; 0: none
    mail,                   \* replies on their way or still to come again
    granted,                \* server -> transactions it has acknowledged
    tick

dhcpVars == <<phase, xid, serverId, retryAt, t1, rx, config, fallbackAt, mail, granted, tick>>

Reply(kind, x, s) == [kind |-> kind, xid |-> x, server |-> s]

DhcpInit ==
    /\ phase = "Init" /\ xid = 0 /\ serverId = "none" /\ retryAt = 0 /\ t1 = 0
    /\ rx = <<>> /\ config = "none" /\ fallbackAt = 0
    /\ mail = {} /\ granted = [s \in Server |-> {}] /\ tick = 1
----------------------------------------------------------------------------
\* Mutant: a reply of an earlier transaction counts.
parse_replyAnyXid(m, kind) == m.kind = kind
parse_reply(m, kind) == m.kind = kind /\ m.xid = xid

\* Where the first reply of the kind is in the queue: a set of at most one.
FirstReply(kind) ==
    {i \in DOMAIN rx : parse_reply(rx[i], kind) /\ \A j \in 1..(i - 1) : ~parse_reply(rx[j], kind)}
Behind(i) == SubSeq(rx, i + 1, Len(rx))

\* DISCOVER goes to every server under a fresh id; each may answer with an offer.
Discover ==
    /\ phase = "Init" /\ xid < MaxXid
    /\ xid' = xid + 1 /\ phase' = "Discovering" /\ retryAt' = tick + RetryTicks
    /\ mail' = mail \cup {Reply("OFFER", xid + 1, s) : s \in Server}
    /\ UNCHANGED <<serverId, t1, rx, granted>>

\* Mutant: the server of the first offer ever is remembered.
OfferServerFirst(i) == IF serverId = "none" THEN rx[i].server ELSE serverId
OfferServer(i) == rx[i].server

\* REQUEST names the server of the first offer; that server acknowledges.
Offered ==
    /\ phase = "Discovering"
    /\ \E i \in FirstReply("OFFER") :
        /\ rx' = Behind(i)
        /\ serverId' = OfferServer(i) /\ phase' = "Requesting"
        /\ retryAt' = tick + RetryTicks
        /\ mail' = mail \cup {Reply("ACK", xid, rx[i].server)}
        /\ granted' = [granted EXCEPT ![rx[i].server] = @ \cup {xid}]
    /\ UNCHANGED <<xid, t1>>

\* The lease that drive returns is the server of the acknowledgement.
Acknowledged(lease) ==
    /\ phase = "Requesting"
    /\ \E i \in FirstReply("ACK") :
        /\ rx' = Behind(i)
        /\ lease = rx[i].server
    /\ phase' = "Bound" /\ t1' = tick + HalfLease
    /\ UNCHANGED <<xid, serverId, retryAt, mail, granted>>

\* Nothing in the queue is of use; past the deadline the client starts over.
Waiting ==
    /\ \/ phase = "Discovering" /\ FirstReply("OFFER") = {}
       \/ phase = "Requesting" /\ FirstReply("ACK") = {}
    /\ rx' = <<>>
    /\ phase' = IF tick >= retryAt THEN "Init" ELSE phase
    /\ UNCHANGED <<xid, serverId, retryAt, t1, mail, granted>>

\* Renewal at T1; replies are drained unread.
Bound ==
    /\ phase = "Bound"
    /\ rx' = <<>>
    /\ IF tick >= t1
       THEN /\ t1' = tick + HalfLease
            /\ mail' = mail \cup {Reply("ACK", xid, serverId)}
       ELSE UNCHANGED <<t1, mail>>
    /\ UNCHANGED <<phase, xid, serverId, retryAt, granted>>

\* Mutant: the fallback does not look whether a lease has come.
FallbackAlways(conf) ==
    /\ fallbackAt' = IF fallbackAt = 0 THEN tick + DhcpTimeout ELSE fallbackAt
    /\ config' = IF tick >= fallbackAt' THEN "static" ELSE conf
\* The static address, once, when the deadline passes without a configuration.
Fallback(conf) ==
    IF conf = "none"
    THEN /\ fallbackAt' = IF fallbackAt = 0 THEN tick + DhcpTimeout ELSE fallbackAt
         /\ config' = IF tick >= fallbackAt' THEN "static" ELSE conf
    ELSE config' = conf /\ UNCHANGED fallbackAt

\* Stack::step: drive the client, apply the lease it returns, then the fallback.
step ==
    /\ \/ (Discover \/ Offered \/ Waiting \/ Bound) /\ Fallback(config)
       \/ \E s \in Server : Acknowledged(s) /\ Fallback(s)
    /\ UNCHANGED tick

\* A reply reaches the client; it may come again.  The oldest makes room.
on_datagram(m, again) ==
    LET q == Append(rx, m)
    IN  /\ rx' = IF Len(q) > RxQueueCap THEN Tail(q) ELSE q
        /\ mail' = IF again THEN mail ELSE mail \ {m}
        /\ UNCHANGED <<phase, xid, serverId, retryAt, t1, config, fallbackAt, granted, tick>>

Pass ==
    /\ tick < MaxTick /\ tick' = tick + 1
    /\ UNCHANGED <<phase, xid, serverId, retryAt, t1, rx, config, fallbackAt, mail, granted>>

DhcpNext == step \/ Pass \/ \E m \in mail, again \in BOOLEAN : on_datagram(m, again)

DhcpSpec == DhcpInit /\ [][DhcpNext]_dhcpVars
----------------------------------------------------------------------------
\* A leased address is one its server has granted to the transaction the client is
\* in: late, repeated and reordered replies of earlier discoveries are not taken.
LeaseGranted ==
    phase = "Bound" => \E s \in Server : config = s /\ xid \in granted[s]

\* The lease is taken from the server the request went to, so that the renewal at T1
\* reaches the one that gave it.
RenewsAtLessor == phase = "Bound" => config = serverId

\* A lease is never replaced by the static address, and the static address is only
\* taken after its deadline.
LeaseKept ==
    /\ config = "static" => phase # "Bound" /\ fallbackAt # 0 /\ tick >= fallbackAt
    /\ phase # "Bound" => config \in {"none", "static"}

\* What the stack may rely on once drive has returned a lease: all three together.
LeaseSound == LeaseGranted /\ RenewsAtLessor /\ LeaseKept
=============================================================================
