-------------------------------- MODULE Arp --------------------------------
(***************************************************************************)
(* Neighbour resolution of net/arp.rs with its users send_v4 and send_v6 of *)
(* net/ip.rs: a cache with a fixed number of slots, the questions in       *)
(* flight, and the frames parked until their next hop answers.             *)
(*                                                                         *)
(* Everything runs under the stack lock: an output and a poll are atomic.  *)
(* The clock moves between them; a poll hands in at most one packet and    *)
(* then ages the table.  Family chooses the ARP table or the NDP table.    *)
(***************************************************************************)
EXTENDS Integers, Sequences, FiniteSets, SequencesExt

CONSTANTS
    Family,             \* "v4" (ArpTable) or "v6" (NdpTable)
    Ip,                 \* neighbours
    Moves,              \* bound: link addresses a neighbour may announce
    CacheSize, PendingCap, EntryTtl, PendingTtl, RequestRetry, MaxRequests,
    MaxFrames, MaxNow   \* bounds: frames sent, ticks of the clock

VARIABLES
    entries,     \* slots: NoEntry or [ip, mac, expires, updated]
    inflight,    \* Ip -> NoQuestion or [last, tries]
    pending,     \* parked frames [id, dst, enqueued], oldest first
    now,
    sentTo,      \* history: frame -> sequence of link addresses it was sent to
    hop,         \* history: frame -> its next hop
    asked        \* history: Ip -> tick of the last question broadcast, or NoTime

arpVars == <<entries, inflight, pending, now, sentTo, hop, asked>>

\* The link addresses neighbour ip may have: a card may be replaced.
Mac(ip) == {[owner |-> ip, card |-> n] : n \in 1..Moves}

NoEntry == [ip |-> "none"]
NoQuestion == [tries |-> 0]
NoTime == -RequestRetry

Init ==
    /\ entries = [i \in 1..CacheSize |-> NoEntry]
    /\ inflight = [ip \in Ip |-> NoQuestion]
    /\ pending = <<>> /\ now = 0
    /\ sentTo = <<>> /\ hop = <<>>
    /\ asked = [ip \in Ip |-> NoTime]

\* The link address of ip as a set; an entry past its time still answers.
lookup(ip) == {entries[i].mac : i \in {j \in 1..CacheSize : entries[j].ip = ip}}
----------------------------------------------------------------------------
FirstWhere(P(_)) == LET S == {i \in 1..CacheSize : P(i)}
                    IN  IF S = {} THEN 0 ELSE CHOOSE i \in S : \A j \in S : i <= j

\* The slot a new entry takes: a free one, an expired one, then the one
\* refreshed longest ago (ARP) or the first (NDP).
Victim(e) ==
    LET empty == FirstWhere(LAMBDA i : e[i] = NoEntry)
        stale == FirstWhere(LAMBDA i : e[i] # NoEntry /\ e[i].expires <= now)
        oldest == FirstWhere(LAMBDA i : \A j \in 1..CacheSize : e[i].updated <= e[j].updated)
    IN  IF empty # 0 THEN empty ELSE IF stale # 0 THEN stale
        ELSE IF Family = "v4" THEN oldest ELSE 1

NewEntry(ip, mac) == [ip |-> ip, mac |-> mac, expires |-> now + EntryTtl, updated |-> now]

\* Mutant: a known neighbour gets a second entry.
insertAgain(ip, mac) == [entries EXCEPT ![Victim(entries)] = NewEntry(ip, mac)]
insert(ip, mac) ==
    LET known == FirstWhere(LAMBDA i : entries[i].ip = ip)
    IN  [entries EXCEPT ![IF known # 0 THEN known ELSE Victim(entries)] = NewEntry(ip, mac)]

enqueue_pending(frame) ==
    IF Len(pending) >= PendingCap THEN pending ELSE Append(pending, frame)

\* Mutant: a question once asked is never asked again.
requestOnce(ip) ==
    IF inflight[ip].tries > 0 THEN UNCHANGED <<inflight, asked>>
    ELSE /\ inflight' = [inflight EXCEPT ![ip] = [last |-> now, tries |-> 1]]
         /\ asked' = [asked EXCEPT ![ip] = now]
\* request and solicit: at most one question for an address per interval.
request(ip) ==
    IF inflight[ip].tries > 0 /\ now < inflight[ip].last + RequestRetry
    THEN UNCHANGED <<inflight, asked>>
    ELSE /\ inflight' = [inflight EXCEPT ![ip] = [last |-> now, tries |-> @.tries + 1]]
         /\ asked' = [asked EXCEPT ![ip] = now]

\* send_v4 and send_v6 to a neighbour: send, or park and ask.
Output(ip) ==
    LET id == Len(hop) + 1
    IN  /\ id <= MaxFrames
        /\ hop' = Append(hop, ip)
        /\ \/ /\ lookup(ip) # {}
              /\ sentTo' = Append(sentTo, SetToSeq(lookup(ip)))
              /\ UNCHANGED <<inflight, pending, asked>>
           \/ /\ lookup(ip) = {}
              /\ sentTo' = Append(sentTo, <<>>)
              /\ pending' = enqueue_pending([id |-> id, dst |-> ip, enqueued |-> now])
              /\ request(ip)
        /\ UNCHANGED <<entries, now>>
----------------------------------------------------------------------------
\* Ages the table: e entries, f questions, p parked frames after the packet.
on_tick(e, f, p) ==
    /\ entries' = [i \in 1..CacheSize |->
                    IF e[i] # NoEntry /\ e[i].expires <= now THEN NoEntry ELSE e[i]]
    /\ pending' = SelectSeq(p, LAMBDA x : now < x.enqueued + PendingTtl)
    /\ inflight' = [ip \in Ip |->
                    IF f[ip].tries > 0 /\ now < f[ip].last + PendingTtl /\ f[ip].tries <= MaxRequests
                    THEN f[ip] ELSE NoQuestion]

\* A poll without a packet for the table.
Poll ==
    /\ on_tick(entries, inflight, pending)
    /\ UNCHANGED <<now, sentTo, hop, asked>>

\* Another host asks: for our address (ours), or (NDP) for any.
Asked(ip, mac, ours) ==
    LET learns == Family = "v6" \/ ours
    IN  /\ on_tick(IF learns THEN insert(ip, mac) ELSE entries, inflight, pending)
        /\ UNCHANGED <<now, sentTo, hop, asked>>

\* Mutants of the flush: every parked frame leaves; a frame that left stays parked.
flushAll(ip, mac) ==
    /\ sentTo' = [x \in DOMAIN sentTo |->
                    IF \E i \in DOMAIN pending : pending[i].id = x
                    THEN Append(sentTo[x], mac) ELSE sentTo[x]]
    /\ on_tick(insert(ip, mac), [inflight EXCEPT ![ip] = NoQuestion], <<>>)
flushKeeps(ip, mac) ==
    /\ sentTo' = [x \in DOMAIN sentTo |->
                    IF \E i \in DOMAIN pending : pending[i].id = x /\ pending[i].dst = ip
                    THEN Append(sentTo[x], mac) ELSE sentTo[x]]
    /\ on_tick(insert(ip, mac), [inflight EXCEPT ![ip] = NoQuestion], pending)
\* The address is learnt, its question closed, and its parked frames leave in order.
flush(ip, mac) ==
    /\ sentTo' = [x \in DOMAIN sentTo |->
                    IF \E i \in DOMAIN pending : pending[i].id = x /\ pending[i].dst = ip
                    THEN Append(sentTo[x], mac) ELSE sentTo[x]]
    /\ on_tick(insert(ip, mac), [inflight EXCEPT ![ip] = NoQuestion],
               SelectSeq(pending, LAMBDA x : x.dst # ip))

\* A reply (or an advertisement) of ip: ARP takes only one it is waiting for.
Answered(ip, mac) ==
    /\ IF Family = "v6" \/ inflight[ip].tries > 0 THEN flush(ip, mac)
       ELSE on_tick(entries, inflight, pending) /\ UNCHANGED sentTo
    /\ UNCHANGED <<now, hop, asked>>

Pass ==
    /\ now < MaxNow /\ now' = now + 1
    /\ UNCHANGED <<entries, inflight, pending, sentTo, hop, asked>>

Next ==
    \/ Poll \/ Pass
    \/ \E ip \in Ip : Output(ip)
    \/ \E ip \in Ip : \E mac \in Mac(ip) : Answered(ip, mac) \/ \E ours \in BOOLEAN : Asked(ip, mac, ours)

Spec == Init /\ [][Next]_arpVars
----------------------------------------------------------------------------
\* A frame given to the link layer leaves at most once, and a parked one has not
\* left: a reply flushes what waited and a later one finds nothing (flush).
SentOnce ==
    /\ \A x \in DOMAIN sentTo : Len(sentTo[x]) <= 1
    /\ \A i \in DOMAIN pending : sentTo[pending[i].id] = <<>>

\* A frame leaves only to an address of its next hop, however entries were evicted and parked frames interleaved.
RightNeighbour ==
    \A x \in DOMAIN sentTo : \A i \in DOMAIN sentTo[x] : sentTo[x][i].owner = hop[x]

\* A neighbour has one entry, so a lookup has one answer and a refresh reaches it.
OneEntry ==
    \A i, j \in 1..CacheSize : entries[i] # NoEntry /\ entries[i].ip = entries[j].ip => i = j

\* A frame is never parked without a question on the wire that is younger than the
\* retry interval, and parked frames keep the order they came in.
ParkedAsked ==
    /\ \A i \in DOMAIN pending : asked[pending[i].dst] > pending[i].enqueued - RequestRetry
    /\ \A i, j \in DOMAIN pending : i < j => pending[i].id < pending[j].id
============================================================================
