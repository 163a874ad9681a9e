--------------------------------- MODULE Ip ---------------------------------
(***************************************************************************)
(* IPv4 datagrams of net/ip.rs: output_v4 routes and cuts a payload into   *)
(* fragments, the network keeps, loses, repeats and reorders them, and     *)
(* input_v4 of the receiving stack puts them together again.               *)
(*                                                                         *)
(* Lengths are in units of FRAG_UNIT bytes.  The k-th unit of the d-th     *)
(* datagram is <<d, k>>.                                                   *)
(***************************************************************************)
EXTENDS Integers, Sequences, FiniteSets, SequencesExt, FiniteSetsExt

CONSTANTS
    MaxPayload,        \* (MTU - header) / FRAG_UNIT
    IdentSpace,        \* next_ip_ident is modulo IdentSpace
    ReasmCap, ReasmTotalCap, ReasmTtl,
    Route,             \* destination -> "broadcast", "subnet", "remote"
    Configured, Gateway,   \* BOOLEAN: an address, a default gateway is set
    Sizes,             \* bound: lengths of the payloads
    MaxDatagrams, Copies, MaxClock   \* bounds: datagrams, copies of a fragment, ticks

VARIABLES
    nextIdent,    \* st.next_ip_ident of the sender
    datagrams,    \* history: lengths of the datagrams sent
    net,          \* copies of fragments on their way
    bufs,         \* st.reasm.bufs of the receiver
    clock,
    dispatched    \* payloads handed to the upper layers, in order

ipVars == <<nextIdent, datagrams, net, bufs, clock, dispatched>>

Init ==
    /\ nextIdent = 0 /\ datagrams = <<>> /\ net = {}
    /\ bufs = <<>> /\ clock = 0 /\ dispatched = <<>>

Payload(d) == [k \in 1..datagrams[d] |-> <<d, k>>]
Units(s) == Len(s)
----------------------------------------------------------------------------
\* Mutant: the last chunk is full even if the payload ends before.
fragment_chunksFull(len) ==
    [i \in 1..((len + MaxPayload - 1) \div MaxPayload) |->
        [off |-> (i - 1) * MaxPayload, len |-> MaxPayload]]
\* Chunks of at most MaxPayload units that cover the payload.
fragment_chunks(len) ==
    IF len <= MaxPayload THEN <<[off |-> 0, len |-> len]>>
    ELSE [i \in 1..((len + MaxPayload - 1) \div MaxPayload) |->
            [off |-> (i - 1) * MaxPayload,
             len |-> IF i * MaxPayload <= len THEN MaxPayload ELSE len - (i - 1) * MaxPayload]]

\* The route of output_v4: a broadcast always leaves, the rest needs an address,
\* and a remote destination a gateway.
Routable(dst) ==
    \/ Route[dst] = "broadcast"
    \/ Configured /\ (Route[dst] = "subnet" \/ Gateway)

\* Fragment i of n of a payload: MF is set on all but the last.
Fragment(d, chunks, i) ==
    [d |-> d, id |-> nextIdent, off |-> chunks[i].off, more |-> i < Len(chunks),
     data |-> [k \in 1..chunks[i].len |-> <<d, chunks[i].off + k>>]]

output_v4(dst, len) ==
    LET d == Len(datagrams) + 1
        chunks == fragment_chunks(len)
    IN  /\ d <= MaxDatagrams
        /\ Routable(dst)
        /\ datagrams' = Append(datagrams, len)
        /\ nextIdent' = (nextIdent + 1) % IdentSpace
        /\ net' = net \cup {[frag |-> Fragment(d, chunks, i), copy |-> c] :
                                i \in 1..Len(chunks), c \in 1..Copies}
        /\ UNCHANGED <<bufs, clock, dispatched>>
----------------------------------------------------------------------------
bytes_held(b) == FoldSet(LAMBDA f, acc : acc + Units(f.data), 0, b.frags)
held_total == FoldSeq(LAMBDA b, acc : acc + bytes_held(b), 0, bufs)

\* The payload as a set of one, or {}: the fragments in order leave no gap and end
\* at the known total.
try_complete(b) ==
    LET frags == SetToSortSeq(b.frags, LAMBDA f, g : f.off < g.off)
        whole == FoldSeq(LAMBDA f, acc : f.data \o acc, <<>>, frags)
        ends[i \in 0..Len(frags)] == IF i = 0 THEN 0 ELSE ends[i - 1] + Units(frags[i].data)
    IN  IF b.total >= 0 /\ ends[Len(frags)] = b.total
            /\ \A i \in 1..Len(frags) : frags[i].off = ends[i - 1]
        THEN {whole} ELSE {}

NewBuf(id) == [id |-> id, frags |-> {}, total |-> -1, seen |-> clock]

\* Mutant: the total is missed when the last fragment comes first.
FedInOrder(b, f) ==
    [b EXCEPT !.seen = clock,
              !.frags = IF \E g \in @ : g.off = f.off THEN @
                        ELSE @ \cup {[off |-> f.off, data |-> f.data]},
              !.total = IF f.more \/ b.frags = {} THEN @ ELSE f.off + Units(f.data)]
\* The buffer with one more fragment; an offset it has is not taken twice.
Fed(b, f) ==
    [b EXCEPT !.seen = clock,
              !.frags = IF \E g \in @ : g.off = f.off THEN @
                        ELSE @ \cup {[off |-> f.off, data |-> f.data]},
              !.total = IF f.more THEN @ ELSE f.off + Units(f.data)]

\* Mutant: buffers are found by sender and receiver alone.
SameDatagramAny(b, f) == TRUE
SameDatagram(b, f) == b.id = f.id

Fits(f) == held_total + Units(f.data) <= ReasmTotalCap
\* Mutant: one buffer too many.
FullOver == Len(bufs) > ReasmCap
Full == Len(bufs) >= ReasmCap

\* Mutant: the buffer of a dispatched datagram stays.
ReleasedNot(b, f) == TRUE
\* The buffers that stay once the datagram of f is dispatched.
Released(b, f) == ~SameDatagram(b, f)

\* feed: drop when full, else find or make the buffer, add, and dispatch when whole.
feed(f) ==
    LET at == SelectInSeq(bufs, LAMBDA b : SameDatagram(b, f))
        with == IF at # 0 THEN bufs ELSE Append(bufs, NewBuf(f.id))
        i == IF at # 0 THEN at ELSE Len(with)
        fed == Fed(with[i], f)
    IN  IF ~Fits(f) \/ (at = 0 /\ Full)
        THEN UNCHANGED <<bufs, dispatched>>
        ELSE /\ dispatched' = dispatched \o SetToSeq(try_complete(fed))
             /\ bufs' = IF try_complete(fed) # {}
                        THEN SelectSeq([with EXCEPT ![i] = fed], LAMBDA b : Released(b, f))
                        ELSE [with EXCEPT ![i] = fed]

\* input_v4: a whole datagram is dispatched at once, a fragment is fed.
input_v4(m) ==
    /\ net' = net \ {m}
    /\ IF m.frag.more \/ m.frag.off # 0 THEN feed(m.frag)
       ELSE dispatched' = Append(dispatched, m.frag.data) /\ UNCHANGED bufs
    /\ UNCHANGED <<nextIdent, datagrams, clock>>

\* Time passes and the next poll drops the buffers that had their last fragment
\* too long ago.
on_tick ==
    /\ clock < MaxClock /\ clock' = clock + 1
    /\ bufs' = SelectSeq(bufs, LAMBDA b : clock' < b.seen + ReasmTtl)
    /\ UNCHANGED <<nextIdent, datagrams, net, dispatched>>

Next ==
    \/ on_tick
    \/ \E dst \in DOMAIN Route, len \in Sizes : output_v4(dst, len)
    \/ \E m \in net : input_v4(m)

Spec == Init /\ [][Next]_ipVars
----------------------------------------------------------------------------
\* What is dispatched is a payload as it was sent, whole and unmixed, in whatever
\* order, however often and with whatever losses its fragments arrive.
Intact == \A i \in DOMAIN dispatched : \E d \in DOMAIN datagrams : dispatched[i] = Payload(d)

\* A datagram is dispatched no more often than each of its fragments arrived: a
\* repeated fragment does not repeat the datagram.
NoRepeat ==
    \A d \in DOMAIN datagrams :
        LET times == Cardinality({i \in DOMAIN dispatched : dispatched[i] = Payload(d)})
        IN  \A c \in Range(fragment_chunks(datagrams[d])) :
                times <= Copies - Cardinality({m \in net : m.frag.d = d /\ m.frag.off = c.off})

\* The reassembler's memory is bounded whatever arrives, and each buffer belongs to
\* one datagram.
ReasmBounded ==
    /\ Len(bufs) <= ReasmCap /\ held_total <= ReasmTotalCap
    /\ \A i, j \in DOMAIN bufs : bufs[i].id = bufs[j].id => i = j

\* A datagram whose fragments have all been kept does not wait in a buffer.
WholeLeaves ==
    \A i \in DOMAIN bufs : \A d \in DOMAIN datagrams :
        UNION {Range(f.data) : f \in bufs[i].frags} # Range(Payload(d))
=============================================================================
