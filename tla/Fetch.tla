-------------------------------- MODULE Fetch --------------------------------
(***************************************************************************)
(* http_get and https_get: opening a connection, pumping the stack under   *)
(* its lock, sending the request, collecting a body of Content-Length      *)
(* bytes while the peer sends, stalls, closes or resets, and the deadlines *)
(* between two rounds. A header line is one token, an octet of the body    *)
(* another; the record layer of TLS carries tokens as they are.            *)
(***************************************************************************)
EXTENDS Integers, Sequences, FiniteSets

CONSTANTS
    Responses,      \* [status, lengths, body]: the code, the Content-Length lines, the octets
    RxBytes, MAX_TOTAL, CONNECT_TIMEOUT_TICKS, READ_TIMEOUT_TICKS,
    MAX_STEPS, MaxTick

VARIABLES
    peer,       \* [response, sent, closed]
    tcp,        \* [state, ever, rx]: the socket; "gone" once reaped
    get,        \* the locals of http_get or https_get
    clockTick,
    lastRead    \* when octets were last read, or the fetch began

fetchVars == <<peer, tcp, get, clockTick, lastRead>>

Idle == [pc |-> "idle", tls |-> FALSE, established |-> FALSE, sent |-> FALSE, buf |-> <<>>,
         head |-> <<>>, last_len |-> 0, connect_deadline |-> 0, read_deadline |-> <<>>,
         steps |-> 0, result |-> [kind |-> "none"]]
Init ==
    /\ peer = [response |-> [status |-> 0, lengths |-> <<>>, body |-> <<>>], sent |-> 0, closed |-> FALSE]
    /\ tcp = [state |-> "none", ever |-> FALSE, rx |-> <<>>]
    /\ get = Idle /\ clockTick = 0 /\ lastRead = 0

-----------------------------------------------------------------------------
\* the response as tokens; status 0 is a line that is no status line, length -1 no number
Tok(t, v) == [t |-> t, v |-> v]
Crlf == <<Tok("cr", 0), Tok("lf", 0)>>
LineTokens(lengths) == [i \in 1..(3 * Len(lengths)) |->
    CASE i % 3 = 1 -> Tok("length", lengths[(i + 2) \div 3]) [] i % 3 = 2 -> Crlf[1] [] OTHER -> Crlf[2]]
Wire(r) == <<Tok("status", r.status)>> \o Crlf \o LineTokens(r.lengths) \o Crlf
           \o [i \in DOMAIN r.body |-> Tok("body", r.body[i])]

find_subslice(h, n) == {i \in 1..(Len(h) - Len(n) + 1) : SubSeq(h, i, i + Len(n) - 1) = n}
\* parse_http_head: the last Content-Length line counts
ParsedHead(head) ==
    LET lines == {i \in 2..Len(head) : head[i].t = "length"}
        length == head[CHOOSE i \in lines : \A j \in lines : j <= i].v
    IN  IF head = <<>> \/ head[1].t # "status" \/ head[1].v = 0 THEN [kind |-> "Malformed"]
        ELSE [kind |-> "Done", status |-> head[1].v, body_off |-> Len(head) + 4,
              content_length |-> IF lines = {} \/ length < 0 THEN <<>> ELSE <<length>>]
parse_http_head(buf) ==
    LET ends == find_subslice(buf, Crlf \o Crlf)
    IN  IF ends = {} THEN [kind |-> "Need"]
        ELSE ParsedHead(SubSeq(buf, 1, (CHOOSE i \in ends : \A j \in ends : i <= j) - 1))

Err(e) == [kind |-> "Err", error |-> e, status |-> 0]
ErrStatus(s) == [kind |-> "Err", error |-> "Status", status |-> s]
\* a mutant of Complete: octets behind the body keep it from ending
NoOctetMore(buf, head) == Len(buf) - head[1] = head[2]
Complete(buf, head) == Len(buf) - head[1] >= head[2]

\* what a round makes of the octets read so far: [step, head]
StepWith(buf, head0, h) ==
    LET head == IF head0 # <<>> THEN head0
                ELSE IF h.kind = "Done" /\ h.status = 200 /\ h.content_length # <<>>
                THEN <<h.body_off, h.content_length[1]>> ELSE <<>>
    IN  [head |-> head,
         step |-> IF Len(buf) > MAX_TOTAL THEN Err("Incomplete")
                  ELSE IF head0 = <<>> /\ h.kind = "Malformed" THEN Err("Incomplete")
                  ELSE IF head0 = <<>> /\ h.kind = "Done" /\ h.status # 200 THEN ErrStatus(h.status)
                  ELSE IF head0 = <<>> /\ h.kind = "Done" /\ h.content_length = <<>> THEN Err("UnknownLength")
                  ELSE IF head # <<>> /\ Complete(buf, head)
                  THEN [kind |-> "Ok", body |-> SubSeq(buf, head[1] + 1, head[1] + head[2])]
                  ELSE [kind |-> "Continue"]]
Step(buf, head0) == StepWith(buf, head0, parse_http_head(buf))

-----------------------------------------------------------------------------
\* the request to fetch: no address, no such host or no socket ends it at once
Start ==
    /\ get.pc = "idle"
    /\ \E tls \in BOOLEAN :
        \/ \E r \in Responses :
            /\ get' = [get EXCEPT !.pc = IF tls THEN "pump" ELSE "loop", !.tls = tls,
                                  !.connect_deadline = clockTick + CONNECT_TIMEOUT_TICKS]
            /\ tcp' = [tcp EXCEPT !.state = "SynSent"] /\ peer' = [peer EXCEPT !.response = r]
        \/ \E e \in {"NoNetwork", "ConnectTimeout"} \union (IF tls THEN {"Tls entropy"} ELSE {}) :
            get' = [get EXCEPT !.pc = "done", !.tls = tls, !.result = Err(e)] /\ UNCHANGED <<tcp, peer>>
    /\ lastRead' = clockTick /\ UNCHANGED clockTick

is_active == tcp.state \in {"SynSent", "Established", "CloseWait"}
may_recv == tcp.state = "Established"
Released == [tcp EXCEPT !.state = "none", !.rx = <<>>]
Finish(r, g) == get' = [g EXCEPT !.pc = "done", !.result = r] /\ tcp' = Released

\* http_get, the part of a round under the lock
Pump ==
    /\ get.pc = "loop" /\ get.steps < MAX_STEPS
    /\ LET est == get.established \/ is_active
           sent == get.sent \/ (est /\ tcp.state \in {"Established", "CloseWait"})
           buf == IF est THEN get.buf \o tcp.rx ELSE get.buf
       IN  \E s \in {Step(buf, get.head)} :
           LET g == [get EXCEPT !.established = est, !.sent = sent, !.buf = buf, !.head = s.head,
                            !.steps = @ + 1, !.pc = "check"]
           IN
           IF ~est THEN Finish(Err("ConnectTimeout"), g)
           ELSE IF s.step.kind # "Continue" THEN Finish(s.step, g)
           ELSE IF sent /\ ~may_recv THEN Finish(Err("Incomplete"), g)
           ELSE get' = g /\ tcp' = [tcp EXCEPT !.rx = <<>>]
    /\ lastRead' = IF tcp.rx # <<>> THEN clockTick ELSE lastRead
    /\ UNCHANGED <<peer, clockTick>>

\* the part after it: progress puts the read deadline off; a deadline that passed ends it
Check ==
    /\ get.pc = "check"
    /\ LET progress == get.established /\ Len(get.buf) > get.last_len
           deadline == IF progress \/ (get.established /\ get.read_deadline = <<>>)
                       THEN <<clockTick + READ_TIMEOUT_TICKS>> ELSE get.read_deadline
           g == [get EXCEPT !.pc = "loop", !.last_len = IF progress THEN Len(get.buf) ELSE @,
                            !.read_deadline = deadline]
       IN  IF ~get.established /\ clockTick >= get.connect_deadline THEN Finish(Err("ConnectTimeout"), g)
           ELSE IF deadline # <<>> /\ clockTick >= deadline[1] THEN Finish(Err("ReadTimeout"), g)
           ELSE get' = g /\ UNCHANGED tcp
    /\ UNCHANGED <<peer, clockTick, lastRead>>

StepsExhausted ==
    /\ get.pc = "loop" /\ get.steps = MAX_STEPS
    /\ Finish(Err(IF get.established THEN "ReadTimeout" ELSE "ConnectTimeout"), get)
    /\ UNCHANGED <<peer, clockTick, lastRead>>

\* https_get: pump_until_established
PumpUntilEstablished ==
    /\ get.pc = "pump" /\ get.tls
    /\ LET active == get.established \/ is_active IN
       IF ~active THEN Finish(Err("ConnectTimeout"), get)
       ELSE IF tcp.state = "Established" THEN get' = [get EXCEPT !.pc = "handshake"] /\ UNCHANGED tcp
       ELSE IF clockTick >= get.connect_deadline THEN Finish(Err("ConnectTimeout"), get)
       ELSE get' = [get EXCEPT !.established = active] /\ UNCHANGED tcp
    /\ UNCHANGED <<peer, clockTick, lastRead>>

\* the handshake and the request; what can fail there is in Tls
HandshakeAndWrite ==
    /\ get.pc = "handshake"
    /\ \/ /\ may_recv
          /\ get' = [get EXCEPT !.pc = "read", !.sent = TRUE, !.read_deadline = <<clockTick + READ_TIMEOUT_TICKS>>]
          /\ UNCHANGED tcp
       \/ Finish(Err("Tls"), get)
    /\ UNCHANGED <<peer, clockTick, lastRead>>

\* TlsTransport: what a poll for octets finds
poll_read_impl ==
    IF tcp.rx # <<>> THEN "data" ELSE IF ~may_recv THEN "eof"
    ELSE IF clockTick >= get.read_deadline[1] THEN "TimedOut" ELSE "pending"

\* tls.read and the loop around it: data, the end of the stream, or an idle transport
TlsRead ==
    /\ get.pc = "read"
    /\ \E s \in {Step(get.buf \o tcp.rx, get.head)} :
       LET buf == get.buf \o tcp.rx
           g == [get EXCEPT !.buf = buf, !.head = s.head, !.read_deadline = <<clockTick + READ_TIMEOUT_TICKS>>]
       IN  IF poll_read_impl = "data"
           THEN IF s.step.kind # "Continue" THEN Finish(s.step, g)
                ELSE get' = g /\ tcp' = [tcp EXCEPT !.rx = <<>>]
           ELSE IF poll_read_impl \in {"eof", "TimedOut"} THEN Finish(Err("Incomplete"), get)
           ELSE UNCHANGED <<get, tcp>>
    /\ lastRead' = IF tcp.rx # <<>> THEN clockTick ELSE lastRead
    /\ UNCHANGED <<peer, clockTick>>

-----------------------------------------------------------------------------
\* the other end and the network
Accept ==
    /\ tcp.state = "SynSent" /\ tcp' = [tcp EXCEPT !.state = "Established", !.ever = TRUE]
    /\ UNCHANGED <<peer, get, clockTick, lastRead>>
Reset ==
    /\ tcp.state \in {"SynSent", "Established", "CloseWait"}
    /\ tcp' = [tcp EXCEPT !.state = "gone", !.rx = <<>>] /\ UNCHANGED <<peer, get, clockTick, lastRead>>
Deliver ==
    /\ tcp.state = "Established" /\ get.sent /\ ~peer.closed
    /\ \E n \in 1..(Len(Wire(peer.response)) - peer.sent) :
        /\ Len(tcp.rx) + n <= RxBytes
        /\ tcp' = [tcp EXCEPT !.rx = @ \o SubSeq(Wire(peer.response), peer.sent + 1, peer.sent + n)]
        /\ peer' = [peer EXCEPT !.sent = @ + n]
    /\ UNCHANGED <<get, clockTick, lastRead>>
Close ==
    /\ tcp.state = "Established" /\ get.sent /\ ~peer.closed
    /\ tcp' = [tcp EXCEPT !.state = "CloseWait"] /\ peer' = [peer EXCEPT !.closed = TRUE]
    /\ UNCHANGED <<get, clockTick, lastRead>>
Tick == get.pc \notin {"idle", "done"} /\ clockTick < MaxTick /\ clockTick' = clockTick + 1 /\ UNCHANGED <<peer, tcp, get, lastRead>>

Next ==
    \/ Start \/ Pump \/ Check \/ StepsExhausted \/ PumpUntilEstablished \/ HandshakeAndWrite \/ TlsRead
    \/ Accept \/ Reset \/ Deliver \/ Close \/ Tick

-----------------------------------------------------------------------------
Length(r) == IF r.lengths = <<>> THEN -1 ELSE r.lengths[Len(r.lengths)]
\* the whole body the response announces was sent
Served == /\ Length(peer.response) >= 0
          /\ peer.sent >= Len(Wire([peer.response EXCEPT !.body = <<>>])) + Length(peer.response)

\* a fetch returns the octets of the body that Content-Length announces and no others, and an
\* error is true: another status was sent, the stream ended early or was not well formed, or
\* nothing was read for the whole read timeout; either way the socket is released
FetchedWhole ==
    get.pc = "done" =>
        /\ tcp.state = "none"
        /\ LET r == get.result
               p == peer.response
           IN  CASE r.kind = "Ok" ->
                        /\ p.status = 200 /\ Served
                        /\ r.body = [i \in 1..Length(p) |-> Tok("body", p.body[i])]
                 [] r.error = "Status" -> r.status = p.status /\ p.status # 200
                 [] r.error = "UnknownLength" -> Length(p) < 0
                 [] r.error = "ReadTimeout" ->
                        clockTick >= lastRead + READ_TIMEOUT_TICKS \/ get.steps = MAX_STEPS
                 [] r.error = "Incomplete" /\ p.status = 200 /\ Len(Wire(p)) <= MAX_TOTAL ->
                        ~(Served /\ get.buf = SubSeq(Wire(p), 1, peer.sent))
                 [] OTHER -> TRUE

\* a connection that was refused or did not come about within the connect timeout is reported
\* as that, as FetchError::ConnectTimeout says
NotConnectedReported ==
    (get.pc = "done" /\ ~tcp.ever /\ get.result.kind = "Err") =>
        get.result.error \in {"NoNetwork", "ConnectTimeout", "Tls entropy"}
=============================================================================
