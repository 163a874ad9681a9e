------------------------------- MODULE Shell -------------------------------
(***************************************************************************)
(* The interactive shell's line (shell/mod.rs): the line editor, history,  *)
(* completion, the mouse selection and clipboard, and the caret, over the  *)
(* text grid of the framebuffer console.  A console cell is numbered       *)
(* row * Cols + col.  Each cell has the character of the grid and what its *)
(* pixels show: a character, highlighted or not, with a caret bar or not.  *)
(* A command prints one line of output.  Characters take one byte.         *)
(***************************************************************************)
EXTENDS Integers, Sequences, SequencesExt

CONSTANTS
    Cols, Rows,      \* the text grid
    Prompt,          \* the prompt's characters
    Letters,         \* the characters typed
    Commands,        \* the registered command names
    Entries,         \* the names in the current directory
    MAX_CMD_LEN, CAP,
    MaxKeys

VARIABLES
    sh,      \* the shell's locals and the console
    pass,    \* whether a pass of the loop is under way
    typed    \* keys and mouse events so far

shellVars == <<sh, pass, typed>>

Cells == 0..(Rows * Cols - 1)
Px(ch) == [ch |-> ch, sel |-> FALSE, bar |-> FALSE]
MinOf(a, b) == IF a < b THEN a ELSE b
MaxOf(a, b) == IF a > b THEN a ELSE b

(*-------------------------------- the console ----------------------------*)

scroll(s) ==
    LET last(c) == c >= (Rows - 1) * Cols
    IN [s EXCEPT !.grid = [c \in Cells |-> IF last(c) THEN " " ELSE s.grid[c + Cols]],
                 !.pix = [c \in Cells |-> IF last(c) THEN Px(" ") ELSE s.pix[c + Cols]],
                 !.row = Rows - 1]
Put(s, c, ch) == [s EXCEPT !.grid[c] = ch, !.pix[c] = Px(ch)]
NewRow(s) == LET t == [s EXCEPT !.col = 0, !.row = @ + 1]
             IN IF t.row >= Rows THEN scroll(t) ELSE t
write_char(s, ch) ==
    CASE ch = "LF" -> NewRow(s)
      [] ch = "BS" -> IF s.col = 0 THEN s
                      ELSE [Put(s, s.row * Cols + s.col - 1, " ") EXCEPT !.col = @ - 1]
      [] OTHER -> LET t == IF s.col >= Cols THEN NewRow(s) ELSE s
                  IN [Put(t, t.row * Cols + t.col, ch) EXCEPT !.col = @ + 1]
print_both(s, text) == FoldLeft(write_char, s, text)

\* a destructive backspace per character shown
erase_visible(s) == print_both(s, FlattenSeq([i \in 1..s.shown |-> <<"BS", " ", "BS">>]))

(*--------------------------------- the caret -----------------------------*)

\* paint_caret: a bar over the cell, or the cell's character again
paint_caret(s, c, on) ==
    IF c \notin Cells THEN s
    ELSE [s EXCEPT !.pix[c] = IF on THEN [@ EXCEPT !.bar = TRUE] ELSE Px(s.grid[c])]
erase(s) ==
    [(IF s.caret.drawn THEN paint_caret(s, s.caret.cell, FALSE) ELSE s) EXCEPT !.caret.drawn = FALSE]
place(s, c, on) ==
    LET t == IF s.caret.cell = c THEN s ELSE [erase(s) EXCEPT !.caret.cell = c]
    IN IF t.caret.drawn = on THEN t ELSE [paint_caret(t, c, on) EXCEPT !.caret.drawn = on]
NoCell == -1
\* cell_for: back from the console's position by the characters after the cursor
caret_cell(s) ==
    LET at == s.row * Cols + s.col - (Len(s.buf) - s.cursor)
    IN IF at < 0 THEN NoCell ELSE at

(*------------------------------ the line editor --------------------------*)

Line(s, buf, cursor) == [s EXCEPT !.buf = buf, !.cursor = cursor]
insert(s, ch) ==
    IF Len(s.buf) + 1 > MAX_CMD_LEN THEN s ELSE Line(s, InsertAt(s.buf, s.cursor + 1, ch), s.cursor + 1)
delete_back(s) == IF s.cursor = 0 THEN s ELSE Line(s, RemoveAt(s.buf, s.cursor), s.cursor - 1)
delete_fwd(s) == IF s.cursor >= Len(s.buf) THEN s ELSE Line(s, RemoveAt(s.buf, s.cursor + 1), s.cursor)
replace_range(s, from0, to0) ==
    LET from == MinOf(from0, Len(s.buf))
        to == MinOf(to0, Len(s.buf))
    IN Line(s, IF from >= to THEN s.buf
               ELSE SubSeq(s.buf, 1, from) \o SubSeq(s.buf, to + 1, Len(s.buf)), from)
set_line(s, line) == LET kept == SubSeq(line, 1, MinOf(Len(line), MAX_CMD_LEN))
                     IN Line(s, kept, Len(kept))
move_left(s) == [s EXCEPT !.cursor = MaxOf(@ - 1, 0)]
move_right(s) == [s EXCEPT !.cursor = MinOf(@ + 1, Len(s.buf))]

\* `wrapped` notes that the line no longer fits on the row of its prompt
Printed(s) == [print_both(s, s.buf) EXCEPT !.shown = Len(s.buf),
                   !.wrapped = @ \/ Len(Prompt) + Len(s.buf) > Cols]
redraw_line_short(s) == [Printed(erase_visible(erase(s))) EXCEPT !.shown = s.cursor]
redraw_line(s) == Printed(erase_visible(erase(s)))
prompt(s) == [print_both(s, Prompt) EXCEPT !.wrapped = FALSE]
reprompt_with_buffer(s) == Printed(prompt(write_char(erase(s), "LF")))
list_candidates(s) ==
    reprompt_with_buffer(print_both(erase(s), <<"LF", "c", "LF">>))

(*--------------------------------- history -------------------------------*)

Live == -1      \* nav of a line that is not recalled
push(h, line) ==
    [entries |-> IF h.entries # <<>> /\ Last(h.entries) = line THEN h.entries
                 ELSE LET e == Append(h.entries, line) IN IF Len(e) > CAP THEN Tail(e) ELSE e,
     nav |-> Live, saved |-> <<>>]
Recalled(h) == h.entries[Len(h.entries) - h.nav]
Up(s) ==
    LET h == s.hist
        g == [h EXCEPT !.nav = @ + 1, !.saved = IF h.nav = Live THEN s.buf ELSE @]
    IN IF h.entries = <<>> \/ h.nav + 1 >= Len(h.entries) THEN s
       ELSE redraw_line(set_line([s EXCEPT !.hist = g], Recalled(g)))
Down(s) ==
    LET h == s.hist
        g == [h EXCEPT !.nav = IF @ = Live THEN Live ELSE @ - 1]
    IN redraw_line(set_line([s EXCEPT !.hist = g], IF g.nav = Live THEN g.saved ELSE Recalled(g)))

(*------------------------------- completion ------------------------------*)

longest_common_prefix(M) ==
    LET w == CHOOSE w \in M : TRUE
        n == CHOOSE n \in 0..Len(w) :
                /\ \A v \in M : IsPrefix(SubSeq(w, 1, n), v)
                /\ n = Len(w) \/ \E v \in M : ~IsPrefix(SubSeq(w, 1, n + 1), v)
    IN SubSeq(w, 1, n)
\* complete_command, complete_path: the names the token starts
Matching(token, names) == {w \in names : IsPrefix(token, w)}
\* the last space starts the token: a command name without one, a path otherwise
handle_tab(s) ==
    LET at == SelectLastInSeq(s.buf, LAMBDA ch : ch = " ")
        token == SubSeq(s.buf, at + 1, Len(s.buf))
        M == Matching(token, IF at = 0 THEN Commands ELSE Entries)
        t == set_line(s, SubSeq(s.buf, 1, at) \o longest_common_prefix(M))
    IN IF M = {} THEN s
       ELSE IF \A v, w \in M : v = w THEN redraw_line(t) ELSE list_candidates(t)

(*------------------------------- selection -------------------------------*)

\* paint_cell_selected over a range of cells
Highlight(s, range, on) ==
    [s EXCEPT !.pix = [c \in Cells |-> IF range # <<>> /\ c \in range[1]..range[2]
                                       THEN [Px(s.grid[c]) EXCEPT !.sel = on] ELSE s.pix[c]]]
unpaint(s) == [Highlight(s, s.sel.painted, FALSE) EXCEPT !.sel.painted = <<>>]
clear(s) == [unpaint(s) EXCEPT !.sel.anchor = NoCell, !.sel.range = <<>>, !.sel.line = <<>>]
paint(s) == LET t == unpaint(s)
            IN [Highlight(t, t.sel.range, TRUE) EXCEPT !.sel.painted = t.sel.range]
\* the text of the cells, each row without its trailing spaces, rows joined by a space on paste
RowPart(s, r, range) ==
    LET from == IF r = range[1] \div Cols THEN range[1] ELSE r * Cols
        to == IF r = range[2] \div Cols THEN range[2] ELSE (r + 1) * Cols - 1
        cells == [i \in 1..(to - from + 1) |-> s.grid[from + i - 1]]
    IN SubSeq(cells, 1, SelectLastInSeq(cells, LAMBDA ch : ch # " "))
text(s, range) ==
    LET top == range[1] \div Cols
    IN FlattenSeq([i \in 1..((range[2] \div Cols) - top + 1) |->
           RowPart(s, top + i - 1, range) \o (IF top + i - 1 = range[2] \div Cols THEN <<>> ELSE <<"LF">>)])
\* line_indices: as if the prompt were printed from cell 0
line_indices(s) ==
    LET from == MaxOf(s.sel.range[1], Len(Prompt))
        to == MinOf(s.sel.range[2] + 1, Len(Prompt) + Len(s.buf))
    IN IF s.sel.line # <<>> THEN s.sel.line
       ELSE IF from >= to THEN <<>> ELSE <<from - Len(Prompt), to - Len(Prompt)>>
HasSelection(s) == s.sel.range # <<>> /\ line_indices(s) # <<>>
delete_selection(s) ==
    CASE s.sel.range = <<>> -> s
      [] HasSelection(s) -> replace_range(clear(s), line_indices(s)[1], line_indices(s)[2])
      [] OTHER -> clear(s)

Press(s, c) == [clear(s) EXCEPT !.sel.anchor = c]
Drag(s, c) == paint([s EXCEPT !.sel.range = <<MinOf(s.sel.anchor, c), MaxOf(s.sel.anchor, c)>>])
Release(s) ==
    LET t == [s EXCEPT !.sel.anchor = NoCell]
        r == t.sel.range
    IN IF r = <<>> \/ r[1] = r[2] THEN clear(t)
       ELSE paint([t EXCEPT !.clip = IF text(t, r) = <<>> THEN @ ELSE text(t, r)])
\* Ctrl-A: the cells of the line, counted back from the console's position
SelectAll(s) ==
    LET from == s.row * Cols + s.col - Len(s.buf)
        last == s.row * Cols + MaxOf(MaxOf(s.col - 1, 0), from % Cols)
    IN IF s.buf = <<>> \/ from < 0 THEN s
       ELSE paint([clear(s) EXCEPT !.sel.range = <<MinOf(from, last), MaxOf(from, last)>>,
                                   !.sel.line = <<0, Len(s.buf)>>])
Cut(s) ==
    LET copied == text(s, s.sel.range)
        t == [s EXCEPT !.clip = IF copied = <<>> THEN @ ELSE copied]
    IN IF ~HasSelection(s) THEN s
       ELSE redraw_line(replace_range(clear(t), line_indices(s)[1], line_indices(s)[2]))
Paste(s) ==
    IF s.clip = <<>> THEN s
    ELSE redraw_line(FoldLeft(LAMBDA t, ch : insert(t, IF ch = "LF" THEN " " ELSE ch), s, s.clip))

(*--------------------------------- the loop ------------------------------*)

Fresh(s) == [prompt(s) EXCEPT !.buf = <<>>, !.cursor = 0, !.shown = 0,
                !.caret = [cell |-> NoCell, drawn |-> FALSE]]
execute_command(s) == print_both(s, <<"o", "LF">>)
\* Enter: the caret is erased only after the command has printed
Enter(s) ==
    LET t == write_char(s, "LF")
        u == IF s.buf = <<>> THEN [t EXCEPT !.hist.nav = Live, !.hist.saved = <<>>]
             ELSE execute_command([t EXCEPT !.hist = push(@, s.buf)])
    IN Fresh(erase(u))

Event(k, s) ==
    CASE k \in Letters -> redraw_line(insert(delete_selection(s), k))
      [] k = "Backspace" -> redraw_line(IF HasSelection(s) THEN delete_selection(s)
                                        ELSE delete_back(delete_selection(s)))
      [] k = "Delete" -> redraw_line(IF HasSelection(s) THEN delete_selection(s)
                                     ELSE delete_fwd(delete_selection(s)))
      [] k = "Left" -> move_left(clear(s))
      [] k = "Right" -> move_right(clear(s))
      [] k = "Home" -> [clear(s) EXCEPT !.cursor = 0]
      [] k = "End" -> [clear(s) EXCEPT !.cursor = Len(s.buf)]
      [] k = "Up" -> Up(s)
      [] k = "Down" -> Down(s)
      [] k = "Tab" -> handle_tab(s)
      [] k = "^A" -> SelectAll(s)
      [] k = "^X" -> Cut(s)
      [] k = "^V" -> Paste(s)
      [] k = "Enter" -> Enter(s)
Keys == Letters \cup {"Backspace", "Delete", "Left", "Right", "Home", "End", "Up", "Down", "Tab",
                      "^A", "^X", "^V", "Enter"}

Key(k) ==
    /\ typed < MaxKeys /\ typed' = typed + 1
    /\ sh' = Event(k, sh)
    /\ pass' = (k # "Enter")
\* the mouse is looked at once, at the start of a pass
Mouse ==
    /\ ~pass /\ pass' = TRUE
    /\ typed < MaxKeys /\ typed' = typed + 1
    /\ \/ sh.sel.anchor = NoCell /\ \E c \in Cells : sh' = Press(sh, c)
       \/ sh.sel.anchor # NoCell /\ \E c \in Cells : sh' = Drag(sh, c)
       \/ sh.sel.anchor # NoCell /\ sh' = Release(sh)
\* the pass ends by placing the caret in its blink phase; a pass may see no event at all
EndPass ==
    /\ pass' = FALSE /\ UNCHANGED typed
    /\ \E on \in BOOLEAN :
          sh' = IF caret_cell(sh) = NoCell THEN sh ELSE place(sh, caret_cell(sh), on)

Init ==
    /\ sh = Fresh([grid |-> [c \in Cells |-> " "], pix |-> [c \in Cells |-> Px(" ")], row |-> 0, col |-> 0,
                   buf |-> <<>>, cursor |-> 0, shown |-> 0, wrapped |-> FALSE, clip |-> <<>>,
                   caret |-> [cell |-> NoCell, drawn |-> FALSE],
                   hist |-> [entries |-> <<>>, nav |-> Live, saved |-> <<>>],
                   sel |-> [anchor |-> NoCell, range |-> <<>>, line |-> <<>>, painted |-> <<>>]])
    /\ pass = FALSE /\ typed = 0

Next == (\E k \in Keys : Key(k)) \/ Mouse \/ EndPass

(*------------------------------- properties ------------------------------*)

\* The rows of the grid from the prompt on, as they would be after printing
\* the prompt and the buffer once on blank rows.
Reflected(s) ==
    LET whole == Prompt \o s.buf
        end == s.row * Cols + s.col
        from == end - Len(whole)
    IN \A c \in Cells : /\ (c >= from /\ c < end) => s.grid[c] = whole[c - from + 1]
                        /\ c >= end => s.grid[c] = " "

\* As long as the prompt and the line fit on one row, that row shows the
\* prompt and the editor's buffer and nothing after it, and the caret, once
\* placed, is at the cell of the cursor: every way a line changes (typing,
\* deleting, recall, completion, cut and paste) erases what was shown and
\* prints what the buffer holds (shell/mod.rs redraw_line, caret.rs cell_for).
LineShown ==
    ~sh.wrapped => /\ Reflected(sh)
                   /\ sh.col = Len(Prompt) + Len(sh.buf) /\ sh.shown = Len(sh.buf)
                   /\ (sh.caret.drawn /\ ~pass) =>
                         sh.caret.cell = sh.row * Cols + Len(Prompt) + sh.cursor

\* The console reflects the editor buffer exactly, also when the line runs
\* on to the next row (shell/mod.rs, comment on redraw_line).
ConsoleReflects == Reflected(sh)

\* A caret bar is on the screen only at the cell the caret is drawn at
\* (caret.rs: a caret erased anywhere else leaves a stray bar behind).
NoStrayBar == \A c \in Cells : sh.pix[c].bar => sh.caret.drawn /\ sh.caret.cell = c
============================================================================
