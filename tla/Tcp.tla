-------------------------------- MODULE Tcp --------------------------------
(***************************************************************************)
(* The TCP of net/tcp.rs: a client connection and the child that the echo  *)
(* listener of net/mod.rs makes for it, each on its own host running this  *)
(* stack, over a network that loses, duplicates and reorders segments.     *)
(*                                                                         *)
(* Every entry point holds the stack lock, so Stack::step (drain the card, *)
(* poll the sockets, serve the echo) is one action, and so is each call of *)
(* the socket interface.  The functions of the source are operators on a   *)
(* pair of the socket and the segments it has emitted.                     *)
(*                                                                         *)
(* Time is left out: a deadline that is set may be found expired by any    *)
(* poll; one that passes while segments are on their way is a fault, since *)
(* the timeout is above the round trip.  The round-trip estimate, which no *)
(* decision reads, is left out too.  Bytes are numbers and sequence        *)
(* numbers are taken modulo SeqSpace.                                      *)
(***************************************************************************)
EXTENDS Integers, Sequences, SequencesExt, FiniteSetsExt

CONSTANTS
    SeqSpace,       \* sequence numbers are 0..SeqSpace-1 (2^32 in the code)
    ClientIss, ServerIss,    \* the random initial numbers
    Mss,            \* MSS
    InitWnd,        \* the window assumed before the first one is heard (4096)
    ClientRx, ServerRx, ClientTx, ServerTx,    \* buffer sizes
    ClientScale, ServerScale,    \* offer_scale of the receive buffer
    AckEveryN,      \* ACK_EVERY_N
    OooCap,         \* OOO_CAP
    ConnectMaxRetries, DataMaxRetries,
    CwndMax,        \* bound: congestion window and threshold
    Payload,        \* bound: bytes the client's program sends
    MaxBatch,       \* bound: frames one poll drains
    Faults,         \* what the network may do, of {"lose", "duplicate", "delay", "early"}
    MaxFaults       \* bound: faults

Host == {"client", "server"}
Other(p) == IF p = "client" THEN "server" ELSE "client"

Both(c, s) == [p \in Host |-> IF p = "client" THEN c ELSE s]
Iss == Both(ClientIss, ServerIss)
RxCap == Both(ClientRx, ServerRx)
TxCap == Both(ClientTx, ServerTx)
Scale == Both(ClientScale, ServerScale)

VARIABLES
    sock,         \* the client's socket and the listener's child; None when the slot is free
    wire,         \* segments on their way to a host, in the order they were sent
    app,          \* the client's program: "idle", "open", in tcp_close "closing", "polled", "gone"
    accepted,     \* the listener has made its child
    sent, got,    \* history: bytes send_slice took from, and recv_slice gave to, a program
    faults        \* how many faults there were

vars == <<sock, wire, app, accepted, sent, got, faults>>

None == [state |-> "None"]
----------------------------------------------------------------------------
\* Sequence numbers compare through the sign of their difference.
seq_lt(a, b) == (a - b) % SeqSpace >= SeqSpace \div 2
seq_le(a, b) == a = b \/ seq_lt(a, b)
seq_gt(a, b) == seq_lt(b, a)
\* Mutant: a sum that does not wrap.
PlusUnwrapped(a, n) == a + n
Plus(a, n) == (a + n) % SeqSpace    \* a.wrapping_add(n)
Dist(a, b) == (a - b) % SeqSpace    \* a.wrapping_sub(b)

Least(a, b) == IF a < b THEN a ELSE b
Most(a, b) == IF a < b THEN b ELSE a
Drop(s, n) == SubSeq(s, n + 1, Len(s))
Take(s, n) == SubSeq(s, 1, Least(n, Len(s)))

DataState == {"Established", "FinWait1", "FinWait2", "CloseWait"}
NoSeq == -1

new_active(p) ==
    [state |-> "SynSent", iss |-> Iss[p],
     snd_una |-> Iss[p], snd_nxt |-> Plus(Iss[p], 1), snd_wnd |-> InitWnd,
     snd_scale |-> 0, ctrl_needs_send |-> TRUE, close_requested |-> FALSE,
     fin_seq |-> NoSeq, rcv_nxt |-> 0, rcv_scale |-> Scale[p],
     peer_fin_seq |-> NoSeq, peer_fin_seen |-> FALSE, tx |-> <<>>, rx |-> <<>>,
     tx_cap |-> TxCap[p], rx_cap |-> RxCap[p], ooo |-> <<>>,
     ever_established |-> FALSE, unacked_segs |-> 0, last_adv_free |-> 0,
     wnd_update_pending |-> FALSE, refused |-> FALSE, sack_ok |-> FALSE,
     sacked |-> <<>>, cwnd |-> 4 * Mss, ssthresh |-> CwndMax, dup_acks |-> 0,
     rto |-> FALSE, retries |-> 0]

\* The child has answered no SYN yet: its own SYN stays in snd_una..snd_nxt.
new_child(irs, wscale) ==
    [new_active("server") EXCEPT
        !.state = "SynRcvd", !.rcv_nxt = Plus(irs, 1), !.sack_ok = TRUE,
        !.snd_scale = wscale]

may_send(s) == s.state \in {"SynRcvd", "Established", "FinWait1", "FinWait2",
                            "CloseWait", "LastAck", "Closing"}
can_send(s) == may_send(s) /\ Len(s.tx) < s.tx_cap
free(s) == s.rx_cap - Len(s.rx)
rcv_wnd_field(s) == free(s) \div 2^s.rcv_scale
eof_visible(s) == s.peer_fin_seen /\ s.rx = <<>>
fin_unacked(s) == s.fin_seq # NoSeq /\ seq_le(s.snd_una, s.fin_seq)

\* Mutant: the FIN counts as a byte of data.
outstanding_dataWithFin(s) == Dist(s.snd_nxt, s.snd_una)

outstanding_data(s) ==
    LET raw == Dist(s.snd_nxt, s.snd_una)
    IN  IF fin_unacked(s) THEN Most(raw - 1, 0) ELSE raw

send_slice(s, data) ==
    IF can_send(s) THEN [s EXCEPT !.tx = @ \o Take(data, s.tx_cap - Len(s.tx))] ELSE s

recv_slice(s, n) ==
    LET t == [s EXCEPT !.rx = Drop(@, n)]
    IN  IF n > 0 /\ free(t) - s.last_adv_free >= s.rx_cap \div 4
        THEN [t EXCEPT !.wnd_update_pending = TRUE] ELSE t

close(s) ==
    IF s.state = "Closed" \/ s.fin_seq # NoSeq THEN s
    ELSE [s EXCEPT !.close_requested = TRUE]
----------------------------------------------------------------------------
\* Selective acknowledgement: ranges <<l, r>> in the order the code keeps them.
SortByLeft(S) == SetToSortSeq(S, LAMBDA a, b : a[1] < b[1] \/ (a[1] = b[1] /\ a[2] < b[2]))

\* ack_options_with_sack merges with the plain order of the numbers.
ack_options_with_sack(s) ==
    LET edges == SortByLeft({<<s.ooo[i].seq, Plus(s.ooo[i].seq, Len(s.ooo[i].data))>> :
                                i \in DOMAIN s.ooo})
        Merge(m, e) == IF m # <<>> /\ e[1] <= Last(m)[2]
                       THEN [m EXCEPT ![Len(m)][2] = Most(@, e[2])]
                       ELSE Append(m, e)
    IN  IF s.sack_ok THEN Take(FoldLeft(Merge, <<>>, edges), 4) ELSE <<>>

prune_sacked(s) ==
    LET kept == SelectSeq(s.sacked, LAMBDA e : seq_gt(e[2], s.snd_una))
    IN  [s EXCEPT !.sacked = [i \in DOMAIN kept |->
            <<IF seq_lt(kept[i][1], s.snd_una) THEN s.snd_una ELSE kept[i][1], kept[i][2]>>]]

note_sacked(s, blocks) ==
    LET inside == {e \in Range(blocks) : ~seq_le(e[2], s.snd_una) /\ ~seq_lt(s.snd_nxt, e[1])}
        Clip(e) == <<IF seq_lt(e[1], s.snd_una) THEN s.snd_una ELSE e[1],
                     IF seq_lt(s.snd_nxt, e[2]) THEN s.snd_nxt ELSE e[2]>>
        Merge(m, e) == IF m # <<>> /\ ~seq_gt(e[1], Last(m)[2])
                       THEN IF seq_gt(e[2], Last(m)[2]) THEN [m EXCEPT ![Len(m)][2] = e[2]] ELSE m
                       ELSE Append(m, e)
        all == SortByLeft(Range(s.sacked) \cup {Clip(e) : e \in inside})
    IN  prune_sacked(IF inside = {} THEN s
                     ELSE [s EXCEPT !.sacked = FoldLeft(Merge, <<>>, all)])

\* The offset from snd_una of the first byte to send again, or NoSeq.
first_hole(s) ==
    LET total == outstanding_data(s)
        Walk(acc, e) ==
            IF acc.found THEN acc
            ELSE IF Dist(e[1], s.snd_una) > acc.off THEN [acc EXCEPT !.found = TRUE]
            ELSE [acc EXCEPT !.off = Most(@, Dist(e[2], s.snd_una))]
        end == FoldLeft(Walk, [off |-> 0, found |-> FALSE], s.sacked)
    IN  IF end.found THEN Least(end.off, total)
        ELSE IF end.off < total THEN end.off ELSE NoSeq
----------------------------------------------------------------------------
\* The functions below map [s: a socket, out: segments emitted] to another one.
emit(h, seq, ack, flags, sack, data) ==
    [s |-> [h.s EXCEPT !.last_adv_free = free(h.s)],
     out |-> Append(h.out, [flags |-> flags, seq |-> seq, ack |-> ack, sack |-> sack, data |-> data,
                            wnd |-> rcv_wnd_field(h.s),
                            wscale |-> IF "SYN" \in flags THEN h.s.rcv_scale ELSE 0])]

AckNow(h, sack) == emit(h, h.s.snd_nxt, h.s.rcv_nxt, {"ACK"}, sack, <<>>)
AckSack(h) == AckNow(h, ack_options_with_sack(h.s))

ctrl(h) ==
    IF h.s.state = "SynSent" THEN emit(h, h.s.iss, 0, {"SYN"}, <<>>, <<>>)
    ELSE emit(h, h.s.iss, h.s.rcv_nxt, {"SYN", "ACK"}, <<>>, <<>>)

Halved(s) == Most(s.cwnd \div 2, 2 * Mss)

\* Mutants: one byte too many is released; the timer is not restarted.
NewAckOver(s, seg) ==
    prune_sacked([s EXCEPT !.tx = Drop(@, Least(Dist(seg.ack, s.snd_una) + 1, Len(s.tx))),
                           !.snd_una = seg.ack, !.rto = FALSE, !.retries = 0,
                           !.snd_wnd = seg.wnd * 2^s.snd_scale])
NewAckTimerOff(s, seg) ==
    prune_sacked([s EXCEPT !.tx = Drop(@, Least(Dist(seg.ack, s.snd_una), Len(s.tx))),
                           !.snd_una = seg.ack, !.rto = FALSE, !.retries = 0,
                           !.snd_wnd = seg.wnd * 2^s.snd_scale])

\* A new acknowledgement: release the bytes, grow the window, restart the timer.
NewAck(s, seg) ==
    LET a == [s EXCEPT !.tx = Drop(@, Least(Dist(seg.ack, s.snd_una), Len(s.tx))),
                       !.snd_una = seg.ack]
        more == outstanding_data(a) > 0
        grown == IF a.cwnd < a.ssthresh THEN a.cwnd + Mss
                 ELSE a.cwnd + Most((Mss * Mss) \div Most(a.cwnd, 1), 1)
        b == [a EXCEPT !.cwnd = IF more THEN Least(grown, CwndMax) ELSE @,
                       !.rto = more, !.retries = 0, !.dup_acks = 0,
                       !.snd_wnd = seg.wnd * 2^s.snd_scale]
    IN  IF seg.sack # <<>> THEN note_sacked(b, seg.sack) ELSE prune_sacked(b)

\* The third duplicate acknowledgement sends the first segment again.
DupAck(h) ==
    LET s == h.s
        n == Least(Mss, Len(s.tx))
        t == [s EXCEPT !.ssthresh = Halved(s), !.cwnd = Halved(s), !.dup_acks = 0, !.rto = TRUE]
    IN  IF s.dup_acks + 1 < 3 THEN [h EXCEPT !.s.dup_acks = @ + 1]
        ELSE IF n = 0 THEN [h EXCEPT !.s.dup_acks = 0]
        ELSE emit([h EXCEPT !.s = t], s.snd_una, s.rcv_nxt, {"ACK"}, <<>>, Take(s.tx, n))

FinCovered(s, seg) ==
    IF s.fin_seq = NoSeq \/ ~seq_gt(seg.ack, s.fin_seq) THEN s
    ELSE [s EXCEPT !.state = CASE @ = "FinWait1" -> "FinWait2"
                               [] @ = "Closing"  -> "TimeWait"
                               [] @ = "LastAck"  -> "Closed"
                               [] OTHER -> @]

process_ack(h, seg) ==
    LET s == h.s
        other == [s EXCEPT !.snd_wnd = seg.wnd * 2^s.snd_scale]
        acked == CASE seq_lt(s.snd_una, seg.ack) /\ seq_le(seg.ack, s.snd_nxt) ->
                        [h EXCEPT !.s = NewAck(s, seg)]
                   [] seg.ack = s.snd_una /\ seg.flags \cap {"SYN", "FIN"} = {}
                            /\ outstanding_data(s) > 0 -> DupAck(h)
                   [] OTHER ->
                        [h EXCEPT !.s = IF seg.sack # <<>> THEN note_sacked(other, seg.sack)
                                        ELSE other]
    IN  [acked EXCEPT !.s = FinCovered(@, seg)]
----------------------------------------------------------------------------
\* Bytes and FIN of a segment; the result says whether an ACK is still due.
InOrder(h, data, fin) ==
    LET s == h.s
        n == Least(free(s), Len(data))
        t == [s EXCEPT !.rx = @ \o Take(data, n), !.rcv_nxt = Plus(@, n),
                       !.peer_fin_seq = IF fin THEN Plus(s.rcv_nxt, Len(data)) ELSE @,
                       !.peer_fin_seen = fin \/ @,
                       !.unacked_segs = IF @ + 1 >= AckEveryN THEN 0 ELSE @ + 1]
    IN  IF t.unacked_segs = 0 THEN [h |-> AckSack([h EXCEPT !.s = t]), ack |-> FALSE]
        ELSE [h |-> [h EXCEPT !.s = t], ack |-> TRUE]

Future(h, seq, data) ==
    LET s == h.s
        held == FoldLeft(LAMBDA acc, e : acc + Len(e.data), 0, s.ooo)
        keep == /\ Dist(seq, s.rcv_nxt) < Most(free(s) + held, 1)
                /\ Len(s.ooo) < OooCap
                /\ \A i \in DOMAIN s.ooo : s.ooo[i].seq # seq
    IN  AckSack(IF keep THEN [h EXCEPT !.s.ooo = Append(@, [seq |-> seq, data |-> data])] ELSE h)

\* Mutants: bytes received before are taken again; a FIN counts wherever it lands.
accept_streamTwice(h, seq, data, fin) ==
    IF h.s.state \notin DataState THEN [h |-> h, ack |-> FALSE]
    ELSE IF seq_lt(h.s.rcv_nxt, seq) THEN [h |-> Future(h, seq, data), ack |-> FALSE]
    ELSE InOrder(h, data, fin)
accept_streamAnyFin(h, seq, data, fin) ==
    IF h.s.state \notin DataState THEN [h |-> h, ack |-> FALSE]
    ELSE IF seq = h.s.rcv_nxt THEN InOrder(h, data, fin)
    ELSE [h |-> [Future(h, seq, data) EXCEPT !.s.peer_fin_seen = fin \/ @], ack |-> FALSE]

accept_stream(h, seq, data, fin) ==
    LET s == h.s
        rel == Dist(s.rcv_nxt, seq)
    IN  CASE s.state \notin DataState -> [h |-> h, ack |-> FALSE]
          [] s.state \in DataState /\ seq = s.rcv_nxt -> InOrder(h, data, fin)
          [] s.state \in DataState /\ seq_lt(s.rcv_nxt, seq) ->
                [h |-> Future(h, seq, data), ack |-> FALSE]
          [] OTHER -> IF rel < Len(data) THEN InOrder(h, Drop(data, rel), fin)
                      ELSE [h |-> AckSack(h), ack |-> FALSE]

\* One turn of the loop: the FIN at the boundary, then a segment that is now in order.
ConsumeFin(s) ==
    IF s.peer_fin_seq # s.rcv_nxt THEN s
    ELSE [s EXCEPT !.rcv_nxt = Plus(@, 1),
                   !.state = CASE @ \in {"Established", "SynRcvd"} -> "CloseWait"
                               [] @ = "FinWait1" -> "Closing"
                               [] @ = "FinWait2" -> "TimeWait"
                               [] OTHER -> @]

\* swap_remove: the last entry takes the place of the one that leaves.
Promote(s) ==
    LET at == SelectInSeq(s.ooo, LAMBDA e : e.seq = s.rcv_nxt)
        data == s.ooo[at].data
        n == Least(free(s), Len(data))
    IN  IF at = 0 THEN s
        ELSE [s EXCEPT !.ooo = Front([@ EXCEPT ![at] = Last(s.ooo)]),
                       !.rx = @ \o Take(data, n), !.rcv_nxt = Plus(@, n)]

\* Each turn that goes on uses up the FIN or an entry of ooo.
consume_fin_and_ooo(s) ==
    LET turn[i \in 0..(OooCap + 2)] == IF i = 0 THEN s ELSE Promote(ConsumeFin(turn[i - 1]))
    IN  turn[Len(s.ooo) + 2]

\* the stream part of a segment, then the FIN and what was kept out of order
StreamInput(h, seg) ==
    IF seg.data # <<>> \/ "FIN" \in seg.flags
    THEN accept_stream(h, seg.seq, seg.data, "FIN" \in seg.flags)
    ELSE [h |-> h, ack |-> FALSE]
AckIfDue(h, due) == IF due /\ h.s.state \in DataState THEN AckSack(h) ELSE h
Consumed(r) == AckIfDue([r.h EXCEPT !.s = consume_fin_and_ooo(@)], r.ack)
established_input(h, seg) ==
    Consumed(StreamInput(IF "ACK" \in seg.flags THEN process_ack(h, seg) ELSE h, seg))

synsent_input(h, seg) ==
    LET s == h.s
        up == [s EXCEPT !.rcv_nxt = Plus(seg.seq, 1), !.snd_una = seg.ack, !.snd_nxt = seg.ack,
                        !.sack_ok = TRUE, !.snd_scale = seg.wscale,
                        !.rcv_scale = IF seg.wscale > 0 THEN @ ELSE 0,
                        !.ever_established = TRUE, !.state = "Established",
                        !.rto = FALSE, !.retries = 0]
    IN  CASE {"SYN", "ACK"} \subseteq seg.flags ->
                IF seg.ack # Plus(s.iss, 1) THEN h
                ELSE LET a == AckNow([h EXCEPT !.s = up], <<>>)
                     IN  IF seg.data # <<>> THEN established_input(a, seg) ELSE a
          [] "SYN" \in seg.flags /\ "ACK" \notin seg.flags ->
                [h EXCEPT !.s.rcv_nxt = Plus(seg.seq, 1), !.s.state = "SynRcvd",
                          !.s.ctrl_needs_send = TRUE]
          [] OTHER -> h

synrcvd_input(h, seg) ==
    LET up == [h EXCEPT !.s.ever_established = TRUE, !.s.state = "Established",
                        !.s.rto = FALSE, !.s.retries = 0]
    IN  IF "ACK" \in seg.flags /\ seq_le(h.s.snd_una, seg.ack) /\ seq_le(seg.ack, h.s.snd_nxt)
        THEN IF seg.data # <<>> THEN established_input(up, seg) ELSE up
        ELSE h

RstAcceptable(s, seg) ==
    LET wnd == rcv_wnd_field(s) * 2^s.rcv_scale
    IN  IF s.state = "SynSent" THEN seg.ack = Plus(s.iss, 1)
        ELSE ~seq_lt(seg.seq, Dist(s.rcv_nxt, wnd)) /\ seq_lt(seg.seq, Plus(s.rcv_nxt, wnd))

connected_input(h, seg) ==
    IF "RST" \in seg.flags
    THEN IF RstAcceptable(h.s, seg)
         THEN [h EXCEPT !.s.state = "Closed", !.s.refused = ~h.s.ever_established \/ @]
         ELSE h
    ELSE CASE h.s.state = "SynSent" -> synsent_input(h, seg)
           [] h.s.state = "SynRcvd" -> synrcvd_input(h, seg)
           [] OTHER -> established_input(h, seg)

\* No socket has the port: answer with a reset.
Reset(seg) ==
    [flags |-> {"RST", "ACK"}, wnd |-> 0, wscale |-> 0, sack |-> <<>>, data |-> <<>>,
     seq |-> IF "ACK" \in seg.flags THEN 0 ELSE seg.ack,
     ack |-> IF "ACK" \in seg.flags THEN seg.seq
             ELSE Plus(seg.seq, Len(seg.data) + (IF "SYN" \in seg.flags THEN 1 ELSE 0))]

\* The listener answers a bare SYN with a child.
listener_input(h, seg) ==
    IF seg.flags = {"SYN"} /\ seg.data = <<>>
    THEN ctrl([h EXCEPT !.s = new_child(seg.seq, seg.wscale)])
    ELSE h

\* The segment finds the connection, else the listener, else nothing.  Bound: one child.
input(p, h, seg) ==
    CASE h.s # None -> connected_input(h, seg)
      [] h.s = None /\ p = "server" -> IF accepted THEN h ELSE listener_input(h, seg)
      [] OTHER -> IF "RST" \in seg.flags THEN h ELSE [h EXCEPT !.out = Append(@, Reset(seg))]
----------------------------------------------------------------------------
\* The retransmission timer has expired.
Resend(h) ==
    LET s == h.s
        hole == first_hole(s)
        n == Least(Mss, Len(s.tx) - hole)
    IN  CASE outstanding_data(s) = 0 /\ fin_unacked(s) ->
                emit(h, s.fin_seq, s.rcv_nxt, {"ACK", "FIN"}, <<>>, <<>>)
          [] outstanding_data(s) > 0 ->
                IF hole = NoSeq THEN h
                ELSE emit(h, Plus(s.snd_una, hole), s.rcv_nxt, {"ACK"}, <<>>,
                          SubSeq(s.tx, hole + 1, hole + n))
          [] outstanding_data(s) = 0 /\ ~fin_unacked(s) ->
                IF s.snd_wnd = 0 /\ s.tx # <<>>
                THEN emit(h, s.snd_una, s.rcv_nxt, {"ACK"}, <<>>, Take(s.tx, 1))
                ELSE h

timer_step(h) ==
    LET s == h.s
        t == [s EXCEPT !.retries = @ + 1, !.ssthresh = Halved(s), !.cwnd = Mss]
    IN  IF s.state \in {"SynSent", "SynRcvd"}
        THEN IF t.retries > ConnectMaxRetries
             THEN [h EXCEPT !.s = [t EXCEPT !.refused = TRUE, !.state = "Closed"]]
             ELSE ctrl([h EXCEPT !.s = t])
        ELSE IF t.retries > DataMaxRetries THEN [h EXCEPT !.s = [t EXCEPT !.state = "Closed"]]
        ELSE IF s.state \in DataState THEN Resend([h EXCEPT !.s = t])
        ELSE [h EXCEPT !.s = t]

\* One segment of new data, while both windows allow it.
SendData(h) ==
    LET s == h.s
        out == outstanding_data(s)
        allowed == Least(s.snd_wnd, s.cwnd)
        unsent == Most(Len(s.tx) - out, 0)
        n == Least(Mss, Least(allowed - out, unsent))
        e == emit(h, s.snd_nxt, s.rcv_nxt, {"ACK"}, <<>>, SubSeq(s.tx, out + 1, out + n))
    IN  IF out >= allowed \/ unsent = 0 THEN h
        ELSE [e EXCEPT !.s.snd_nxt = Plus(@, n), !.s.rto = TRUE]

SendFin(h) ==
    LET s == h.s
        e == emit(h, s.snd_nxt, s.rcv_nxt, {"ACK", "FIN"}, <<>>, <<>>)
    IN  IF s.close_requested /\ s.fin_seq = NoSeq /\ outstanding_data(s) = Len(s.tx)
        THEN [e EXCEPT !.s.fin_seq = s.snd_nxt, !.s.snd_nxt = Plus(@, 1), !.s.rto = TRUE,
                       !.s.state = CASE @ = "Established" -> "FinWait1"
                                     [] @ = "CloseWait" -> "LastAck"
                                     [] OTHER -> @]
        ELSE h

TailAck(h) ==
    IF h.s.unacked_segs = 0 THEN h
    ELSE [AckNow(h, <<>>) EXCEPT !.s.unacked_segs = 0]

WindowUpdate(h) ==
    IF ~(h.s.wnd_update_pending /\ h.s.state \in DataState) THEN h
    ELSE [AckNow(h, <<>>) EXCEPT !.s.wnd_update_pending = FALSE, !.s.unacked_segs = 0]

Transmit(h) ==
    CASE h.s.state \in {"SynSent", "SynRcvd"} ->
            IF h.s.ctrl_needs_send
            THEN [ctrl(h) EXCEPT !.s.ctrl_needs_send = FALSE, !.s.rto = TRUE] ELSE h
      [] h.s.state \in {"Established", "CloseWait", "FinWait1", "LastAck", "Closing"} ->
            LET burst[i \in Nat] == IF i = 0 THEN h ELSE SendData(burst[i - 1])
            IN  SendFin(burst[Len(h.s.tx)])
      [] OTHER -> h

\* rto, tail: which of the deadlines that are set this poll finds expired.
step_sock(h, rto, tail) ==
    LET a == IF rto THEN timer_step(h) ELSE h
        b == IF tail THEN TailAck(a) ELSE a
    IN  Transmit(WindowUpdate(b))

reap_closed(s, wait) ==
    IF s.state = "Closed" \/ (s.state = "TimeWait" /\ wait) THEN None ELSE s

\* service_tcp_echo: hand the received bytes back, and close once the peer has.
Echoes(s) == s.state \in {"Established", "CloseWait"}
service_tcp_echo(s) ==
    LET t == send_slice(recv_slice(s, Len(s.rx)), s.rx)
    IN  IF ~Echoes(s) THEN s ELSE IF s.state = "CloseWait" THEN close(t) ELSE t
----------------------------------------------------------------------------
Init ==
    /\ sock = [p \in Host |-> None]
    /\ wire = [p \in Host |-> <<>>]
    /\ app = "idle" /\ accepted = FALSE
    /\ sent = [p \in Host |-> <<>>] /\ got = [p \in Host |-> <<>>]
    /\ faults = 0

\* tcp_connect; the SYN goes out with the next poll.
Connect ==
    /\ app = "idle" /\ app' = "open"
    /\ sock' = [sock EXCEPT !["client"] = new_active("client")]
    /\ UNCHANGED <<wire, accepted, sent, got, faults>>

Quiet == \A p \in Host : wire[p] = <<>>
Fault(f) == f \in Faults /\ faults < MaxFaults /\ faults' = faults + 1

\* A deadline that is set may have passed.
Expired(set) == {FALSE, set}

\* The socket and the segments after k frames.
Drained(p, k) ==
    LET after[i \in 0..k] == IF i = 0 THEN [s |-> sock[p], out |-> <<>>]
                             ELSE input(p, after[i - 1], wire[p][i])
    IN  after[k]

\* What poll_all may come to: rto says whether the retransmission timer fired.
Polls(h) ==
    IF h.s = None THEN {[s |-> None, out |-> h.out, rto |-> FALSE]}
    ELSE UNION {LET polled == step_sock(h, rto, tail)
                IN  {[s |-> reap_closed(polled.s, wait), out |-> polled.out, rto |-> rto] :
                        wait \in Expired(polled.s.state = "TimeWait")} :
                    rto \in Expired(h.s.rto), tail \in Expired(h.s.unacked_segs > 0)}

\* Stack::step on host p after k frames have reached its card: the frames, the
\* sockets, the echo service.
Step(p, k) ==
    /\ k <= Len(wire[p])
    /\ \E fed \in {Drained(p, k)} : \E o \in Polls(fed) :
        LET echo == p = "server" /\ o.s # None /\ Echoes(o.s)
        IN  /\ IF o.rto /\ ~Quiet THEN Fault("early") ELSE UNCHANGED faults
            /\ sock' = [sock EXCEPT ![p] = IF echo THEN service_tcp_echo(o.s) ELSE o.s]
            /\ wire' = [wire EXCEPT ![p] = Drop(@, k), ![Other(p)] = @ \o o.out]
            /\ accepted' = (accepted \/ (p = "server" /\ fed.s # None))
            /\ got' = IF echo THEN [got EXCEPT ![p] = @ \o o.s.rx] ELSE got
            /\ sent' = IF echo THEN [sent EXCEPT ![p] = @ \o Drop(sock'[p].tx, Len(o.s.tx))] ELSE sent
    /\ app' = IF p = "client" /\ app = "closing" THEN "polled" ELSE app

\* tcp_send_chunk and tcp_recv_chunk of the client's program.  Both poll first: that
\* poll is a Step right before, and other Steps of the net thread may precede it.
Send ==
    LET s == sock["client"]
        data == [i \in 1..(Payload - Len(sent["client"])) |-> Len(sent["client"]) + i]
        t == send_slice(s, data)
    IN  /\ app = "open" /\ s # None /\ can_send(s) /\ data # <<>>
        /\ sock' = [sock EXCEPT !["client"] = t]
        /\ sent' = [sent EXCEPT !["client"] = @ \o Drop(t.tx, Len(s.tx))]
        /\ UNCHANGED <<wire, app, accepted, got, faults>>

Recv(n) ==
    LET s == sock["client"]
    IN  /\ app = "open" /\ s # None /\ n \in 1..Len(s.rx)
        /\ sock' = [sock EXCEPT !["client"] = recv_slice(s, n)]
        /\ got' = [got EXCEPT !["client"] = @ \o Take(s.rx, n)]
        /\ UNCHANGED <<wire, app, accepted, sent, faults>>

\* nc_echo closes and keeps polling; tcp_close closes, polls (four times;
\* at least once here) and frees the slot.
Close ==
    LET s == sock["client"]
    IN  /\ app = "open"
        /\ app' = "closing"
        /\ sock' = [sock EXCEPT !["client"] = IF s = None THEN None ELSE close(s)]
        /\ UNCHANGED <<wire, accepted, sent, got, faults>>

Free ==
    /\ app = "polled" /\ app' = "gone"
    /\ sock' = [sock EXCEPT !["client"] = None]
    /\ UNCHANGED <<wire, accepted, sent, got, faults>>

Lose(p) ==
    /\ wire[p] # <<>> /\ Fault("lose")
    /\ wire' = [wire EXCEPT ![p] = Tail(@)]
    /\ UNCHANGED <<sock, app, accepted, sent, got>>

Duplicate(p) ==
    /\ wire[p] # <<>> /\ Fault("duplicate")
    /\ wire' = [wire EXCEPT ![p] = Append(@, Head(@))]
    /\ UNCHANGED <<sock, app, accepted, sent, got>>

Delay(p) ==
    /\ Len(wire[p]) > 1 /\ Fault("delay")
    /\ wire' = [wire EXCEPT ![p] = Append(Tail(@), Head(@))]
    /\ UNCHANGED <<sock, app, accepted, sent, got>>

Next ==
    \/ Connect \/ Send \/ Close \/ Free
    \/ \E n \in 1..RxCap["client"] : Recv(n)
    \/ \E p \in Host, k \in 0..MaxBatch : Step(p, k)
    \/ \E p \in Host : Lose(p) \/ Duplicate(p) \/ Delay(p)

Spec == Init /\ [][Next]_vars
----------------------------------------------------------------------------
\* The buffers stay within their capacities (free and tx_cap - tx.len() are unsigned).
TypeOK ==
    /\ app \in {"idle", "open", "closing", "polled", "gone"}
    /\ accepted \in BOOLEAN /\ faults \in 0..MaxFaults
    /\ \A p \in Host : sock[p] # None =>
        /\ {sock[p].snd_una, sock[p].snd_nxt, sock[p].rcv_nxt} \subseteq 0..(SeqSpace - 1)
        /\ Len(sock[p].rx) <= sock[p].rx_cap /\ Len(sock[p].tx) <= sock[p].tx_cap
        /\ Len(sock[p].ooo) <= OooCap
        /\ sock[p].cwnd \in 1..Most(CwndMax, 4 * Mss) /\ sock[p].snd_wnd \in Nat

Held(p) == IF sock[p] = None THEN <<>> ELSE sock[p].rx

\* What a program reads is what the other one wrote: no byte is lost, repeated
\* or out of place, whatever the network does (accept_stream, Promote).
StreamPrefix == \A p \in Host : IsPrefix(got[p] \o Held(p), sent[Other(p)])

\* A byte leaves the transmit buffer only when the other side has kept it
\* ("we only ACK what we actually kept").
AckedKept ==
    \A p \in Host : sock[p] # None /\ sock[Other(p)] # None =>
        Len(sent[p]) - Len(sock[p].tx) <= Len(got[Other(p)] \o Held(Other(p)))

\* End of file is shown only after the last byte the other program wrote.
EofExact ==
    \A p \in Host : sock[p] # None /\ eof_visible(sock[p]) => got[p] = sent[Other(p)]

\* The bytes in flight are in the transmit buffer, but for a child's own SYN: the
\* subtraction tx.len() - off of timer_step cannot go below zero.
InFlightBuffered ==
    \A p \in Host : sock[p] # None /\ sock[p].state \notin {"SynSent", "SynRcvd"} =>
        \/ outstanding_data(sock[p]) <= Len(sock[p].tx)
        \/ sock[p].snd_una = sock[p].iss /\ sock[p].tx = <<>>

\* What the programs at both ends may rely on, whatever the network does: all of the above.
StreamExact == TypeOK /\ StreamPrefix /\ AckedKept /\ EofExact /\ InFlightBuffered

\* Nothing is on its way and no poll, with or without an expired timer, will ever
\* change anything: the connection waits for its programs.
Idle(p) ==
    sock[p] = None \/ \A o \in Polls([s |-> sock[p], out |-> <<>>]) : o.s = sock[p] /\ o.out = <<>>
Stalled == Quiet /\ \A p \in Host : Idle(p) /\ sock[p] # None

\* p has bytes left to send, none of them on their way, and has last heard of a window of zero.
Starved(p) ==
    sock[p].snd_wnd = 0 /\ outstanding_data(sock[p]) = 0 /\ sock[p].tx # <<>>

\* A connection comes to rest only when every byte sent has arrived or its sender waits
\* for the window to open: while bytes are missing a segment is on its way or a timer is
\* set, so that a program that reads gets them (timer_step, process_ack, recv_slice).
NoStall ==
    Stalled /\ Held("client") = <<>> =>
        \A p \in Host : Starved(p) \/ got[Other(p)] \o Held(Other(p)) = sent[p]

\* What tcp.rs:10-12 says: zero windows are probed.  A sender that waits for the window to
\* open is never left at rest while the reader has room for its bytes, for it asks again.
ZeroWindowProbed ==
    Stalled => \A p \in Host : Starved(p) => free(sock[Other(p)]) = 0
============================================================================
