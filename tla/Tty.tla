-------------------------------- MODULE Tty --------------------------------
(***************************************************************************)
(* Standard input of a compat process: the keyboard interrupt and its      *)
(* scancode ring (drivers/ps2_kbd.rs), the scancode decoder                *)
(* (shell/keys.rs), the raw and the line-buffered read of stdin and the    *)
(* terminal ioctls (linux/io_sys.rs), and the shell's foreground wait,     *)
(* which turns Ctrl+C into SIGINT (shell/commands.rs lxrun).               *)
(*                                                                         *)
(* A scancode is a key and whether it is the make code; "E0" is the        *)
(* prefix.  One process reads; echo is left out.                           *)
(***************************************************************************)
EXTENDS Integers, Sequences, SequencesExt

CONSTANTS
    Letters,           \* letter keys; "c" and "d" have a meaning under Ctrl
    Others,            \* keys among Named, Nav, "shift", "ctrl", "caps"
    Counts,            \* the sizes of reads
    BUF_SIZE, STDIN_LINE_MAX,
    MaxStrokes, MaxReads

VARIABLES
    kb,      \* queue; ext, ctrl: the driver's own tracking; caps; ctrlC, latch; sigint pending
    tty,     \* raw, nonblock, pending: STDIN_PENDING, replies: queued terminal replies
    rd,      \* the read under way: st, dec, line, count
    user,    \* wire: scancodes under way, held: keys down, strokes
    bytes    \* got by the process, reads; ideal: what one lasting decoder makes of the codes
             \* read; over: a read ended with a key held or a line cut; stray: SIGINT without Ctrl+C

ttyVars == <<kb, tty, rd, user, bytes>>

Nav == {"Left", "Up", "Delete"}
Named == {"Enter", "Backspace", "Tab", "Escape"}
Upper(k) == <<"upper", k>>
Lower(k) == <<"lower", k>>

(*------------------------------ the decoder ------------------------------*)

Decoder == [ext |-> FALSE, shift |-> FALSE, ctrl |-> FALSE]
\* feed: the decoder afterwards, the event if a key is complete, and the caps lock
feed(d, c, caps) ==
    LET Quiet(e) == [dec |-> e, ev |-> <<>>, caps |-> caps]
        Key(ev) == [dec |-> [d EXCEPT !.ext = FALSE], ev |-> ev, caps |-> caps]
    IN CASE c.key = "ctrl" -> Quiet([d EXCEPT !.ext = FALSE, !.ctrl = c.make])
         [] c.key = "caps" /\ c.make -> [Quiet(d) EXCEPT !.caps = ~caps]
         [] c.key = "shift" -> Quiet([d EXCEPT !.shift = c.make])
         [] c.key = "E0" -> Quiet([d EXCEPT !.ext = TRUE])
         [] d.ext /\ c.key # "ctrl" -> Key(IF c.make /\ c.key \in Nav THEN <<c.key>> ELSE <<>>)
         [] ~d.ext /\ c.key \in Named -> Key(IF c.make THEN <<c.key>> ELSE <<>>)
         [] ~d.ext /\ c.key \in Letters ->
                Key(IF ~c.make THEN <<>> ELSE IF d.ctrl THEN <<"Ctrl", c.key>>
                    ELSE <<"Char", IF d.shift # caps THEN Upper(c.key) ELSE Lower(c.key)>>)
         [] OTHER -> Quiet(d)
IsCtrlC(ev) == ev = <<"Ctrl", "c">>

\* the bytes of an event in raw mode
Encoded(ev) ==
    CASE ev = <<>> -> <<>>
      [] ev[1] = "Char" -> <<ev[2]>>
      [] ev[1] = "Ctrl" -> <<<<"ctrl", ev[2]>>>>
      [] ev[1] \in Named -> <<<<"named", ev[1]>>>>
      [] OTHER -> <<<<"named", "Escape">>, <<"final", ev[1]>>>>

\* an event in line mode: the line, and whether it is complete or the end of the input
Edited(line, ev) ==
    LET Sp == Lower(" ")
        Now(l) == [line |-> l, full |-> Len(l) >= STDIN_LINE_MAX, eof |-> FALSE]
    IN CASE ev = <<>> -> [line |-> line, full |-> FALSE, eof |-> FALSE]
         [] ev = <<"Enter">> -> [line |-> Append(line, <<"named", "LF">>), full |-> TRUE, eof |-> FALSE]
         [] ev = <<"Tab">> -> LET room == IF Len(line) + 4 > STDIN_LINE_MAX
                                          THEN STDIN_LINE_MAX - Len(line) ELSE 4
                              IN Now(line \o [i \in 1..room |-> Sp])
         [] ev = <<"Backspace">> -> Now(IF line = <<>> THEN line ELSE Front(line))
         [] ev[1] = "Char" -> Now(Append(line, ev[2]))
         [] ev = <<"Ctrl", "d">> /\ line = <<>> -> [line |-> line, full |-> FALSE, eof |-> TRUE]
         [] OTHER -> Now(line)

(*----------------------- the keyboard and its driver ---------------------*)

\* a key goes down or up; navigation keys send the prefix first (the controller delivers the
\* codes of a stroke before the next stroke)
Stroke(k) ==
    /\ user.strokes < MaxStrokes /\ user.wire = <<>>
    /\ LET c == [key |-> k, make |-> k \notin user.held]
           code == IF k \in Nav THEN <<[key |-> "E0", make |-> TRUE], c>> ELSE <<c>>
       IN user' = [wire |-> code, strokes |-> user.strokes + 1,
                   held |-> IF c.make THEN user.held \cup {k} ELSE user.held \ {k}]
    /\ UNCHANGED <<kb, tty, rd, bytes>>

\* the break code of Ctrl, 0x9D, is none of the codes the driver compares with
Tracks(c) == c.key = "ctrl" /\ c.make
push_scancode(q, c) == IF Len(q) + 1 >= BUF_SIZE THEN q ELSE Append(q, c)
irq_handler ==
    /\ user.wire # <<>>
    /\ LET c == Head(user.wire)
           ctrl == IF Tracks(c) THEN TRUE ELSE kb.ctrl
           ctrlC == c.key = "c" /\ c.make /\ ~kb.ext /\ kb.ctrl
           sigint == ctrlC /\ ~tty.raw
       IN /\ kb' = [kb EXCEPT !.ext = (c.key = "E0"), !.ctrl = ctrl, !.ctrlC = @ \/ ctrlC,
                              !.sigint = @ \/ sigint, !.queue = push_scancode(@, c)]
          /\ bytes' = [bytes EXCEPT !.stray = @ \/ (sigint /\ "ctrl" \notin user.held)]
    /\ user' = [user EXCEPT !.wire = Tail(@)]
    /\ UNCHANGED <<tty, rd>>

\* the foreground wait of lxrun: either latch sends SIGINT
ForegroundPoll ==
    /\ kb.ctrlC \/ kb.latch
    /\ kb' = [kb EXCEPT !.ctrlC = FALSE, !.latch = FALSE, !.sigint = TRUE]
    /\ UNCHANGED <<tty, rd, user, bytes>>

(*----------------------------- reading stdin -----------------------------*)

Idle == [st |-> "out", dec |-> Decoder, line |-> <<>>, count |-> 0]
\* read: pending bytes first (raw mode takes the terminal's replies too), else the keyboard
Read(n) ==
    /\ rd.st = "out" /\ bytes.reads < MaxReads
    /\ LET all == tty.pending \o (IF tty.raw THEN tty.replies ELSE <<>>)
           k == IF n < Len(all) THEN n ELSE Len(all)
       IN /\ rd' = IF all # <<>> THEN Idle
                   ELSE [Idle EXCEPT !.st = IF tty.raw THEN "raw" ELSE "line", !.count = n]
          /\ tty' = [tty EXCEPT !.pending = SubSeq(all, k + 1, Len(all)),
                                !.replies = IF tty.raw THEN <<>> ELSE @]
          /\ bytes' = [bytes EXCEPT !.reads = @ + 1, !.got = @ \o SubSeq(all, 1, k),
                                    !.ideal.out = @ \o (IF tty.raw THEN tty.replies ELSE <<>>)]
    /\ UNCHANGED <<kb, user>>

\* the queue is empty: a signal interrupts the read, a nonblocking raw read may give up
ReadNothing ==
    /\ rd.st # "out" /\ kb.queue = <<>>
    /\ kb.sigint \/ (rd.st = "raw" /\ tty.nonblock)
    /\ rd' = Idle
    /\ bytes' = [bytes EXCEPT !.over = @ \/ rd.dec # Decoder \/ rd.line # <<>>]
    /\ kb' = [kb EXCEPT !.sigint = FALSE]
    /\ UNCHANGED <<tty, user>>

\* one lasting decoder and line, fed the same codes
Ideal(i, c) ==
    LET f == feed(i.dec, c, kb.caps)
        e == Edited(i.line, f.ev)
    IN IF rd.st = "raw" THEN [i EXCEPT !.dec = f.dec, !.out = @ \o Encoded(f.ev)]
       ELSE [dec |-> f.dec, line |-> IF e.full THEN <<>> ELSE e.line,
             out |-> IF e.full THEN i.out \o e.line ELSE i.out]

\* what the reader's buffer does not hold stays pending
RestDropped(pending, out, n) == pending
Rest(pending, out, n) == pending \o SubSeq(out, n + 1, Len(out))

\* one scancode is read and decoded; the read returns when it has something to return
ReadCode ==
    /\ rd.st # "out" /\ kb.queue # <<>>
    /\ LET c == Head(kb.queue)
           f == feed(rd.dec, c, kb.caps)
           e == Edited(rd.line, f.ev)
           out == IF rd.st = "raw" THEN Encoded(f.ev) ELSE IF e.full THEN e.line ELSE <<>>
           n == IF rd.count < Len(out) THEN rd.count ELSE Len(out)
           done == out # <<>> \/ (rd.st = "line" /\ e.eof)
       IN /\ kb' = [kb EXCEPT !.queue = Tail(@), !.caps = f.caps, !.latch = @ \/ IsCtrlC(f.ev)]
          /\ rd' = IF done THEN Idle
                   ELSE [rd EXCEPT !.dec = f.dec, !.line = IF rd.st = "raw" THEN @ ELSE e.line]
          /\ tty' = [tty EXCEPT !.pending = Rest(@, out, n)]
          /\ bytes' = [bytes EXCEPT !.got = @ \o SubSeq(out, 1, n), !.ideal = Ideal(@, c),
                                    !.over = @ \/ (done /\ f.dec # Decoder)]
    /\ UNCHANGED user

\* TCSETS, FIONBIO; the terminal emulator answers a query
tty_ioctl ==
    /\ rd.st = "out" /\ bytes.reads < MaxReads
    /\ \E raw, nb \in BOOLEAN :
          /\ raw # tty.raw \/ nb # tty.nonblock
          /\ tty' = [tty EXCEPT !.raw = raw, !.nonblock = nb]
    /\ UNCHANGED <<kb, rd, user, bytes>>
Reply ==
    /\ tty.replies = <<>> /\ tty.raw /\ bytes.reads = 0
    /\ tty' = [tty EXCEPT !.replies = <<<<"reply", "r">>>>]
    /\ UNCHANGED <<kb, rd, user, bytes>>

Init ==
    /\ kb = [queue |-> <<>>, ext |-> FALSE, ctrl |-> FALSE, caps |-> FALSE, ctrlC |-> FALSE,
             latch |-> FALSE, sigint |-> FALSE]
    /\ tty = [raw |-> FALSE, nonblock |-> FALSE, pending |-> <<>>, replies |-> <<>>]
    /\ rd = Idle
    /\ user = [wire |-> <<>>, held |-> {}, strokes |-> 0]
    /\ bytes = [got |-> <<>>, reads |-> 0, over |-> FALSE, stray |-> FALSE,
                ideal |-> [dec |-> Decoder, line |-> <<>>, out |-> <<>>]]

Next ==
    \/ \E k \in Letters \cup Others : Stroke(k)
    \/ irq_handler \/ ForegroundPoll
    \/ \E n \in Counts : Read(n)
    \/ ReadNothing \/ ReadCode
    \/ tty_ioctl \/ Reply

(*------------------------------- properties ------------------------------*)

\* What reads of any sizes and modes return, followed by what is still
\* pending, is what the scancodes taken from the keyboard mean, in order
\* and without loss, and a line being typed is kept between polls: as long
\* as no read ended with a modifier down or was interrupted
\* (io_sys.rs read_stdin_raw, read_stdin_line and STDIN_PENDING).
StdinExact ==
    ~bytes.over => /\ bytes.got \o tty.pending = bytes.ideal.out
                   /\ rd.line = bytes.ideal.line

\* The driver sends SIGINT to the foreground process only for a C pressed
\* while Ctrl is down: the tracker follows Ctrl's make and break codes
\* (ps2_kbd.rs irq_handler and the comment on DRV_CTRL).
InterruptMeansCtrlC == ~bytes.stray
============================================================================
