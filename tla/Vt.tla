--------------------------------- MODULE Vt ---------------------------------
(***************************************************************************)
(* The VT-100 emulator behind the standard output of compat programs: the  *)
(* escape-sequence parser, the cell grid with its scroll region, what is   *)
(* painted of it, and the replies queued for standard input. A program     *)
(* sends whole sequences, but a write may end anywhere inside one. Bytes   *)
(* are one-character strings; control bytes have names. An index past the  *)
(* grid is a panic, and the last thing the terminal does.                  *)
(***************************************************************************)
EXTENDS Integers, Sequences, FiniteSets, SequencesExt

CONSTANTS
    Cols, Rows,
    MaxParams, MaxParam,    \* how many parameters (16 in the code), and the largest (2^32 - 1)
    OscMax,         \* osc_buf: 64 in the code
    Sequences,      \* what programs send: [bytes, text, answer, moves]
    MaxSent

VARIABLES
    vt,         \* the Vt
    painted,    \* the glyphs on the framebuffer
    replies,    \* RESPONSES
    stdin,      \* replies handed to the program so far
    sending,    \* bytes of the current sequence not yet written
    meant,      \* [text, answer, moved]: what was sent, by the meaning of its sequences
    seqs        \* how many sequences

vtVars == <<vt, painted, replies, stdin, sending, meant, seqs>>

Digits == <<"0", "1", "2", "3", "4", "5", "6", "7", "8", "9">>
Digit(b) == (CHOOSE d \in DOMAIN Digits : Digits[d] = b) - 1
Blank == [ch |-> " ", fg |-> <<>>, bg |-> <<>>]
Grid == 0..(Rows * Cols - 1)
Smaller(a, b) == IF a < b THEN a ELSE b
SatSub(a, b) == IF a > b THEN a - b ELSE 0

Vt0 == [cells |-> [i \in Grid |-> Blank], cx |-> 0, cy |-> 0, saved_cx |-> 0, saved_cy |-> 0, fg |-> <<>>, bg |-> <<>>,
        scroll_top |-> 0, scroll_bot |-> Rows - 1, state |-> "Normal", params |-> <<>>, inter |-> "", inter2 |-> "",
        osc_buf |-> <<>>]

\* a step of the emulator works on [v, paint, out, crashed, spilled]
idx(x, y) == y * Cols + x
Crash(s) == [s EXCEPT !.crashed = TRUE]
\* column Cols of a row is the first cell of the next one, drawn beyond the screen's edge
put(s, x, y, c) ==
    LET i == idx(x, y) IN
    IF i \notin Grid THEN Crash(s)
    ELSE [s EXCEPT !.v.cells[i] = c, !.paint[i] = IF x < Cols THEN c ELSE @, !.spilled = @ \/ x >= Cols]
paint_all(s) == [s EXCEPT !.paint = s.v.cells]
blit(s, x, y) == [s EXCEPT !.paint[idx(x, y)] = s.v.cells[idx(x, y)]]
p(v, i, def) == IF i <= Len(v.params) /\ v.params[i] # 0 THEN v.params[i] ELSE def
P0(v) == IF v.params = <<>> THEN 0 ELSE v.params[1]

scroll_up(s, n0) ==
    LET top == s.v.scroll_top
        bot == s.v.scroll_bot
        n == Smaller(n0, bot - top + 1)
        moved == {i \in Grid : i \div Cols \in top..SatSub(bot, n)}
        blank == {i \in Grid : i \div Cols \in SatSub(bot + 1, n)..bot}
    IN  IF top >= bot THEN s
        ELSE IF \E i \in moved : i + n * Cols \notin Grid THEN Crash(s)
        ELSE paint_all([s EXCEPT !.v.cells = [i \in Grid |-> IF i \in blank THEN Blank
                                                              ELSE IF i \in moved THEN @[i + n * Cols] ELSE @[i]]])
scroll_dn(s, n0) ==
    LET top == s.v.scroll_top
        bot == s.v.scroll_bot
        n == Smaller(n0, bot - top + 1)
    IN  IF top >= bot THEN s
        ELSE paint_all([s EXCEPT !.v.cells = [i \in Grid |-> IF i \div Cols \in top..(top + n - 1) THEN Blank
                                                              ELSE IF i \div Cols \in (top + n)..bot THEN @[i - n * Cols] ELSE @[i]]])
erase_disp(s, m) ==
    LET at == idx(s.v.cx, s.v.cy)
        gone == CASE m = 0 -> at..(Rows * Cols - 1) [] m = 1 -> 0..at [] OTHER -> Grid
    IN  paint_all([s EXCEPT !.v.cells = [i \in Grid |-> IF i \in gone THEN Blank ELSE @[i]]])
PutBlanks(s, from, to) ==
    FoldLeft(LAMBDA t, x : IF t.crashed THEN t ELSE put(t, x, t.v.cy, Blank), s, [k \in 1..(to - from) |-> from + k - 1])
erase_line(s, m) == CASE m = 0 -> PutBlanks(s, s.v.cx, Cols) [] m = 1 -> PutBlanks(s, 0, s.v.cx + 1) [] OTHER -> PutBlanks(s, 0, Cols)
newline(s) == IF s.v.cy >= s.v.scroll_bot THEN scroll_up(s, 1) ELSE [s EXCEPT !.v.cy = @ + 1]
put_char(s, b) ==
    LET t == IF s.v.cx >= Cols THEN newline([s EXCEPT !.v.cx = 0]) ELSE s
    IN  IF t.crashed THEN t
        ELSE [put(t, t.v.cx, t.v.cy, [ch |-> b, fg |-> t.v.fg, bg |-> t.v.bg]) EXCEPT !.v.cx = @ + 1]

-----------------------------------------------------------------------------
\* sgr: the attributes one after the other; 38 and 48 take a palette index or three components
ansi256(n) == IF n > 255 THEN <<>> ELSE <<n>>
RECURSIVE sgr(_, _)
sgr(v, i) ==
    LET at(k) == IF k <= Len(v.params) THEN v.params[k] ELSE 0
        a == at(i)
        field == IF a = 38 THEN "fg" ELSE "bg"
    IN
    IF i > (IF v.params = <<>> THEN 1 ELSE Len(v.params)) THEN v
    ELSE CASE a = 0 -> sgr([v EXCEPT !.fg = <<>>, !.bg = <<>>], i + 1)
           [] a \in 30..37 -> sgr([v EXCEPT !.fg = ansi256(a - 30)], i + 1)
           [] a \in 40..47 -> sgr([v EXCEPT !.bg = ansi256(a - 40)], i + 1)
           [] a \in {38, 48} /\ at(i + 1) = 5 /\ i + 2 <= Len(v.params) -> sgr([v EXCEPT ![field] = ansi256(at(i + 2))], i + 3)
           [] a \in {38, 48} /\ at(i + 1) = 2 /\ i + 4 <= Len(v.params) -> sgr([v EXCEPT ![field] = <<at(i + 2), at(i + 3), at(i + 4)>>], i + 5)
           [] a = 39 -> sgr([v EXCEPT !.fg = <<>>], i + 1)
           [] a = 49 -> sgr([v EXCEPT !.bg = <<>>], i + 1)
           [] a \in 90..97 -> sgr([v EXCEPT !.fg = ansi256(a - 82)], i + 1)
           [] a \in 100..107 -> sgr([v EXCEPT !.bg = ansi256(a - 92)], i + 1)
           [] OTHER -> sgr(v, i + 1)

GoTo(s, x, y) == [s EXCEPT !.v.cx = x, !.v.cy = y]
Down(s, n) == Smaller(s.v.cy + n, Rows - 1)
Row1(n) == Smaller(SatSub(n, 1), Rows - 1)
Col1(n) == Smaller(SatSub(n, 1), Cols - 1)
csi(s, f) ==
    LET v == s.v
        n == p(v, 1, 1)
        deleted == Smaller(n, Cols - v.cx)
    IN
    CASE f = "A" -> GoTo(s, v.cx, SatSub(v.cy, n))
      [] f = "B" -> GoTo(s, v.cx, Down(s, n))
      [] f = "C" -> GoTo(s, Smaller(v.cx + n, Cols - 1), v.cy)
      [] f = "D" -> GoTo(s, SatSub(v.cx, n), v.cy)
      [] f = "E" -> GoTo(s, 0, Down(s, n))
      [] f = "F" -> GoTo(s, 0, SatSub(v.cy, n))
      [] f = "G" -> GoTo(s, Col1(n), v.cy)
      [] f \in {"H", "f"} -> GoTo(s, Col1(p(v, 2, 1)), Row1(n))
      [] f = "J" -> erase_disp(s, p(v, 1, 0))
      [] f = "K" -> erase_line(s, p(v, 1, 0))
      [] f \in {"L", "T"} -> scroll_dn(s, n)
      [] f \in {"M", "S"} -> scroll_up(s, n)
      [] f = "P" -> LET row == {i \in Grid : i \div Cols = v.cy /\ i % Cols >= v.cx}
                        t == [s EXCEPT !.v.cells = [i \in Grid |-> IF i \notin row THEN @[i]
                                                                   ELSE IF (i % Cols) + deleted < Cols THEN @[i + deleted] ELSE Blank]]
                    IN  FoldLeft(LAMBDA u, x : blit(u, x, v.cy), t, [k \in 1..(Cols - v.cx) |-> v.cx + k - 1])
      [] f = "X" -> PutBlanks(s, v.cx, v.cx + deleted)
      [] f = "d" -> GoTo(s, v.cx, Row1(n))
      [] f = "m" -> [s EXCEPT !.v = sgr(v, 1)]
      [] f = "r" -> LET t == SatSub(n, 1)
                        b == Row1(p(v, 2, Rows))
                    IN  IF t < b THEN [s EXCEPT !.v.scroll_top = t, !.v.scroll_bot = b] ELSE s
      [] f = "s" -> [s EXCEPT !.v.saved_cx = v.cx, !.v.saved_cy = v.cy]
      [] f = "u" -> GoTo(s, v.saved_cx, v.saved_cy)
      [] OTHER -> s

respond(s, r) == [s EXCEPT !.out = Append(@, r)]
\* csi_final: the queries are answered, a combination nobody knows is swallowed
csi_final(s, f) ==
    LET v == s.v IN
    CASE v.inter \in {"?", ""} /\ v.inter2 = "$" /\ f = "p" -> respond(s, <<"mode", v.inter, P0(v)>>)
      [] v.inter = ">" /\ v.inter2 = "" /\ f = "c" -> respond(s, <<"DA2">>)
      [] v.inter = "" /\ v.inter2 = "" /\ f = "c" -> respond(s, <<"DA1">>)
      [] v.inter = "" /\ v.inter2 = "" /\ f = "n" -> IF P0(v) = 5 THEN respond(s, <<"ok">>)
                                                     ELSE IF P0(v) = 6 THEN respond(s, <<"at", v.cy + 1, v.cx + 1>>) ELSE s
      [] v.inter = ">" /\ v.inter2 = "" /\ f = "q" -> respond(s, <<"version">>)
      [] v.inter = "" /\ v.inter2 = "" /\ f \notin {"c", "n"} -> csi(s, f)
      [] OTHER -> s
process_osc(s) ==
    LET asks(b) == Len(s.v.osc_buf) >= 4 /\ SubSeq(s.v.osc_buf, 1, 4) = <<"1", b, ";", "?">>
        t == [s EXCEPT !.v.osc_buf = <<>>]
    IN  IF asks("0") THEN respond(t, <<"foreground">>) ELSE IF asks("1") THEN respond(t, <<"background">>) ELSE t

-----------------------------------------------------------------------------
Finals == {"A", "B", "C", "D", "E", "F", "G", "H", "f", "J", "K", "L", "M", "P", "S", "T", "X", "d", "m", "r", "s", "u",
           "c", "n", "p", "q", "h", "l", "a", "b", "[", "]", "^", "_", "\\"}
Private == {"?", ">", "=", "<"}
Intermediate == {"$", " ", "!", "(", ")", "*", "+"}
Controls == {"BEL", "BS", "HT", "LF", "CR", "ESC"}
State(s, st) == [s EXCEPT !.v.state = st]
Normal(s, b) ==
    LET v == s.v IN
    CASE b = "BS" -> GoTo(s, SatSub(v.cx, 1), v.cy)
      [] b = "HT" -> GoTo(s, Smaller(((v.cx + 8) \div 8) * 8, Cols - 1), v.cy)
      [] b = "LF" -> newline(GoTo(s, 0, v.cy))
      [] b = "CR" -> GoTo(s, 0, v.cy)
      [] b = "ESC" -> State(s, "Esc")
      [] b = "BEL" -> s
      [] OTHER -> put_char(s, b)
\* a mutant of Esc: the byte that names the character set is not waited for
EscNoCharset(s, b) == State(s, IF b = "[" THEN "Csi" ELSE "Normal")
Esc(s, b) ==
    LET v == s.v IN
    CASE b = "[" -> State([s EXCEPT !.v.params = <<>>, !.v.inter = "", !.v.inter2 = ""], "Csi")
      [] b = "]" -> State([s EXCEPT !.v.osc_buf = <<>>], "Osc")
      [] b \in {"P", "X", "^", "_"} -> State(s, "Dcs")
      [] b = "7" -> State([s EXCEPT !.v.saved_cx = v.cx, !.v.saved_cy = v.cy], "Normal")
      [] b = "8" -> State(GoTo(s, v.saved_cx, v.saved_cy), "Normal")
      [] b = "M" -> State(IF v.cy = v.scroll_top THEN scroll_dn(s, 1) ELSE GoTo(s, v.cx, SatSub(v.cy, 1)), "Normal")
      [] b \in {"(", ")", "*", "+"} -> State(s, "Chs")
      [] OTHER -> State(s, "Normal")
Csi(s, b) ==
    LET ps == s.v.params
        last == IF ps = <<>> THEN 0 ELSE ps[Len(ps)]
        more == Smaller(last * 10 + Digit(b), MaxParam)
    IN
    CASE b \in ToSet(Digits) -> [s EXCEPT !.v.params = Append(IF ps = <<>> THEN ps ELSE Front(ps), more)]
      [] b \in {";", ":"} -> [s EXCEPT !.v.params = IF ps = <<>> THEN <<0, 0>> ELSE IF Len(ps) < MaxParams THEN Append(ps, 0) ELSE ps]
      [] b \in Private -> [s EXCEPT !.v.inter = b]
      [] b \in Intermediate -> [s EXCEPT !.v.inter2 = b]
      [] b \in Finals -> State(csi_final(s, b), "Normal")
      [] OTHER -> State(s, "Normal")
feed(s, b) ==
    IF s.crashed THEN s
    ELSE CASE s.v.state = "Normal" -> Normal(s, b)
           [] s.v.state = "Esc" -> Esc(s, b)
           [] s.v.state = "Csi" -> Csi(s, b)
           [] s.v.state = "Osc" -> IF b = "BEL" THEN State(process_osc(s), "Normal")
                                   ELSE IF b = "ESC" THEN State(s, "OscEsc")
                                   ELSE IF Len(s.v.osc_buf) < OscMax THEN [s EXCEPT !.v.osc_buf = Append(@, b)] ELSE s
           [] s.v.state = "OscEsc" -> State(IF b = "\\" THEN process_osc(s) ELSE s, "Normal")
           [] s.v.state = "Dcs" -> IF b = "BEL" THEN State(s, "Normal") ELSE IF b = "ESC" THEN State(s, "DcsEsc") ELSE s
           [] s.v.state = "Chs" -> State(s, "Normal")
           [] s.v.state = "DcsEsc" -> State(s, IF b = "\\" THEN "Normal" ELSE "Dcs")

-----------------------------------------------------------------------------
Init ==
    /\ vt = [v |-> Vt0, crashed |-> FALSE, spilled |-> FALSE] /\ painted = Vt0.cells /\ replies = <<>> /\ stdin = <<>>
    /\ sending = <<>> /\ meant = [text |-> <<>>, answer |-> <<>>, moved |-> FALSE] /\ seqs = 0

\* a program decides what to send next
Send(q) ==
    /\ sending = <<>> /\ seqs < MaxSent /\ ~vt.crashed
    /\ sending' = q.bytes /\ seqs' = seqs + 1
    /\ meant' = [text |-> meant.text \o q.text, answer |-> meant.answer \o q.answer, moved |-> meant.moved \/ q.moves]
    /\ UNCHANGED <<vt, painted, replies, stdin>>
\* write: under the lock, the first n bytes that are left
write(n) ==
    LET s == FoldLeft(feed, [v |-> vt.v, paint |-> painted, out |-> replies, crashed |-> FALSE, spilled |-> vt.spilled],
                      SubSeq(sending, 1, n))
    IN
    /\ n <= Len(sending) /\ ~vt.crashed
    /\ vt' = [v |-> s.v, crashed |-> s.crashed, spilled |-> s.spilled] /\ painted' = s.paint /\ replies' = s.out
    /\ sending' = SubSeq(sending, n + 1, Len(sending)) /\ UNCHANGED <<stdin, meant, seqs>>
\* the raw-tty read drains the queue
take_input_responses ==
    /\ replies # <<>> /\ stdin' = stdin \o replies /\ replies' = <<>>
    /\ UNCHANGED <<vt, painted, sending, meant, seqs>>

Next == (\E q \in Sequences : Send(q)) \/ (\E n \in 1..8 : write(n)) \/ take_input_responses

-----------------------------------------------------------------------------
\* the rows a text makes on a screen Cols wide
Laid(text) ==
    FoldLeft(LAMBDA rows, b : IF b = "LF" THEN Append(rows, <<>>)
                              ELSE IF Len(Last(rows)) = Cols THEN Append(rows, <<b>>)
                              ELSE Front(rows) \o <<Append(Last(rows), b)>>, << <<>> >>, text)
Visible(rows) == [i \in Grid |->
    LET r == SatSub(Len(rows), Rows) + (i \div Cols) + 1 IN
    IF r <= Len(rows) /\ i % Cols < Len(rows[r]) THEN rows[r][(i % Cols) + 1] ELSE " "]
(* Whatever way the bytes are cut into writes, no byte of an escape sequence *)
(* reaches the grid: while nothing moved the cursor the screen shows the     *)
(* last rows of the text that was sent, every query has been answered once   *)
(* and in order, and the framebuffer shows the cells.                        *)
ShowsText ==
    /\ (~vt.crashed /\ ~vt.spilled) => painted = vt.v.cells
    /\ (sending = <<>> /\ ~meant.moved) =>
           /\ ~vt.crashed /\ stdin \o replies = meant.answer
           /\ \A i \in Grid : vt.v.cells[i].ch = Visible(Laid(meant.text))[i]
=============================================================================
