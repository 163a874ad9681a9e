------------------------------ MODULE Console ------------------------------
(***************************************************************************)
(* The framebuffer console (drivers/framebuffer.rs) under the software     *)
(* mouse pointer (drivers/cursor.rs).  Drawing goes to a shadow buffer     *)
(* whose damaged bounding box a flush copies to the device.  The pointer   *)
(* is an overlay: it saves what is under it before it is drawn and puts    *)
(* it back before anything else is drawn there.                            *)
(*                                                                         *)
(* A pixel is a character cell and the pointer covers one cell.  The last  *)
(* row is the status strip, which text never scrolls.  Every operation     *)
(* holds the framebuffer or the pointer lock from end to end, so a call    *)
(* is a sequence of steps, each atomic, and calls of several threads       *)
(* interleave between them.                                                *)
(***************************************************************************)
EXTENDS Integers, Sequences

CONSTANTS
    Cols, Rows,    \* the text area; row Rows is the status strip
    Threads,       \* "shell", and the threads that only print
    MaxCalls

VARIABLES
    fb,        \* back, drawn, dirty, col, row: the shadow buffer and the text position
    device,    \* what the display shows
    arrow,     \* CursorState
    guard,     \* TextGuard
    draw,      \* thread -> the steps left of its call
    flag,      \* thread -> its local: hide or redraw at this position, or nothing
    mouse,     \* the pointer position the mouse driver reports
    crossed,   \* the pointer was drawn in the middle of somebody's drawing: history
    drawCalls

consoleVars == <<fb, device, arrow, guard, draw, flag, mouse, crossed, drawCalls>>

Cells == 0..(Cols * (Rows + 1) - 1)
Strip == {c \in Cells : c \div Cols = Rows}
Arrow == "arrow"
Blank == " "

(*--------------------------- the shadow buffer ---------------------------*)

Lesser(a, b) == IF a < b THEN a ELSE b
Greater(a, b) == IF a > b THEN a ELSE b
mark_dirty(d, c) ==
    LET x == c % Cols
        y == c \div Cols
    IN IF d = <<>> THEN <<x, y, x, y>>
       ELSE <<Lesser(d[1], x), Lesser(d[2], y), Greater(d[3], x), Greater(d[4], y)>>
Box(d) == IF d = <<>> THEN {}
          ELSE {c \in Cells : (c % Cols) \in d[1]..d[3] /\ (c \div Cols) \in d[2]..d[4]}

put_pixel(s, c, v) == [s EXCEPT !.back[c] = v, !.dirty = mark_dirty(@, c)]
\* `drawn` is what the callers drew, the pointer aside: draw_char for text, paint_cell for frames
draw_char(s, c, v) == [put_pixel(s, c, v) EXCEPT !.drawn[c] = v]
paint_cell(s, c, v) == [put_pixel(s, c, v) EXCEPT !.drawn[c] = v]

\* the text rows move up by one; the damage becomes the text area, whatever it was
scroll(s) ==
    LET Up(f) == [c \in Cells |-> IF c \in Strip THEN f[c]
                                  ELSE IF (c \div Cols) = Rows - 1 THEN Blank ELSE f[c + Cols]]
    IN [s EXCEPT !.back = Up(@), !.drawn = Up(@), !.row = Rows - 1,
                 !.dirty = <<0, 0, Cols - 1, Rows - 1>>]
NewRow(s) == LET t == [s EXCEPT !.col = 0, !.row = @ + 1]
             IN IF t.row >= Rows THEN scroll(t) ELSE t
write_char(s, ch) ==
    CASE ch = "LF" -> NewRow(s)
      [] ch = "CR" -> [s EXCEPT !.col = 0]
      [] ch = "BS" -> IF s.col = 0 THEN s
                      ELSE [draw_char(s, s.row * Cols + s.col - 1, Blank) EXCEPT !.col = @ - 1]
      [] OTHER -> LET t == IF s.col >= Cols THEN NewRow(s) ELSE s
                  IN [draw_char(t, t.row * Cols + t.col, ch) EXCEPT !.col = @ + 1]
clear(s) ==
    [s EXCEPT !.col = 0, !.row = 0, !.back = [c \in Cells |-> Blank],
              !.drawn = [c \in Cells |-> Blank], !.dirty = <<0, 0, Cols - 1, Rows>>]
draw_status_bar(s, v) ==
    [s EXCEPT !.back = [c \in Cells |-> IF c \in Strip THEN v ELSE s.back[c]],
              !.drawn = [c \in Cells |-> IF c \in Strip THEN v ELSE s.drawn[c]],
              !.dirty = mark_dirty(mark_dirty(@, Rows * Cols), (Rows + 1) * Cols - 1)]

\* flush_rect pushes cells C and leaves the damage; flush pushes the damaged box
flush_rect(C, s) == device' = [c \in Cells |-> IF c \in C THEN s.back[c] ELSE device[c]]
flush == flush_rect(Box(fb.dirty), fb) /\ fb' = [fb EXCEPT !.dirty = <<>>]

(*------------------------------ the pointer ------------------------------*)

Down(a) == [a EXCEPT !.have_saved = FALSE, !.visible = FALSE]

\* hide: put the saved cell back and push it, without marking damage
hide ==
    /\ arrow' = Down(arrow)
    /\ IF arrow.have_saved
       THEN /\ fb' = [fb EXCEPT !.back[arrow.at] = arrow.saved]
            /\ flush_rect({arrow.at}, fb')
       ELSE UNCHANGED <<fb, device>>

\* hide_deferred: put the saved cell back as damage of the coming frame
hide_deferred ==
    /\ arrow' = Down(arrow)
    /\ fb' = IF arrow.have_saved THEN put_pixel(fb, arrow.at, arrow.saved) ELSE fb
    /\ UNCHANGED device

Placed(s, c) == [at |-> c, saved |-> s.back[c], have_saved |-> TRUE, visible |-> TRUE]

place_deferred(c) ==
    /\ arrow' = Placed(fb, c)
    /\ fb' = put_pixel(fb, c, Arrow)
    /\ UNCHANGED device

\* move_to without the restoring of the old place
move_to_leaving(c) ==
    /\ arrow' = Placed(fb, c)
    /\ fb' = [fb EXCEPT !.back[c] = Arrow]
    /\ flush_rect({c, arrow.at}, fb')
move_to(c) ==
    IF arrow.have_saved /\ arrow.at = c
    THEN arrow' = [arrow EXCEPT !.visible = TRUE] /\ UNCHANGED <<fb, device>>
    ELSE LET s == IF arrow.have_saved THEN [fb EXCEPT !.back[arrow.at] = arrow.saved] ELSE fb
         IN /\ arrow' = Placed(s, c)
            /\ fb' = [s EXCEPT !.back[c] = Arrow]
            /\ flush_rect({c} \cup (IF arrow.have_saved THEN {arrow.at} ELSE {}), fb')

(*------------------------------- the calls -------------------------------*)

\* text_begin: the outermost call hides a visible pointer, after the guard is unlocked
text_begin(t) ==
    LET outer == guard.depth = 0
    IN /\ guard' = [depth |-> guard.depth + 1,
                    redraw |-> IF outer THEN arrow.visible ELSE guard.redraw]
       /\ flag' = [flag EXCEPT ![t] = IF outer /\ arrow.visible THEN {arrow.at} ELSE {}]
\* text_end: the outermost call redraws what text_begin hid
text_end(t) ==
    LET depth == IF guard.depth = 0 THEN 0 ELSE guard.depth - 1
        last == depth = 0 /\ guard.redraw
    IN /\ guard' = [depth |-> depth, redraw |-> guard.redraw /\ ~last]
       /\ flag' = [flag EXCEPT ![t] = IF last THEN {arrow.at} ELSE {}]

Guarded(steps) == <<<<"text_begin">>, <<"hide?">>>> \o steps \o <<<<"text_end">>, <<"move?">>>>
\* _print, Console::write_str and clear_screen
PrintChar(ch) == Guarded(<<<<"write", ch>>, <<"flush">>>>)
write_str(ch) == Guarded(<<<<IF ch = "LF" THEN "write+flush" ELSE "write", ch>>>>)
clear_screen == Guarded(<<<<"clear">>, <<"flush">>>>)
\* one pass of shell_main: the mouse position m is read once, at its start
Pass(m, steps) == <<<<"hide_deferred">>>> \o steps \o <<<<"place_deferred", m>>, <<"flush">>>>
\* a frame of nano+, which keeps the pointer where it is
NanoFrame(c, v) == <<<<"hide_deferred">>, <<"paint", c, v>>, <<"where">>, <<"place_here">>, <<"flush">>>>
\* a frame of the settings panel or of paint; between frames they only move the pointer
PanelFrame(m, c, v) == <<<<"hide">>, <<"paint", c, v>>, <<"flush">>, <<"move_to", m>>>>

Chars == {"a", "LF", "BS", "CR"}
ShellCalls(m) ==
    {Pass(m, s) : s \in {<<>>, <<<<"status", "S">>>>, clear_screen}
                        \cup {PrintChar(ch) : ch \in Chars}
                        \cup {<<<<"status", "T">>>> \o PrintChar("LF")}}
    \cup {<<<<"move_to", m>>>>}
    \cup {PanelFrame(m, c, "p") : c \in {0, Rows * Cols}}
    \cup {NanoFrame(c, "n") : c \in {0, Rows * Cols}}
PrinterCalls == {PrintChar(ch) : ch \in {"b", "LF"}} \cup {write_str(ch) : ch \in {"b", "LF"}}

Call(t) ==
    /\ draw[t] = <<>> /\ drawCalls < MaxCalls
    /\ drawCalls' = drawCalls + 1
    /\ \E steps \in (IF t = "shell" THEN ShellCalls(mouse) ELSE PrinterCalls) :
          draw' = [draw EXCEPT ![t] = steps]
    /\ UNCHANGED <<fb, device, arrow, guard, flag, mouse, crossed>>

Run(t, op) ==
    LET Fb(s) == fb' = s /\ UNCHANGED <<device, arrow>>
    IN CASE op[1] = "write" -> Fb(write_char(fb, op[2]))
         [] op[1] = "write+flush" ->
                LET s == write_char(fb, op[2])
                IN fb' = [s EXCEPT !.dirty = <<>>] /\ flush_rect(Box(s.dirty), s) /\ UNCHANGED arrow
         [] op[1] = "paint" -> Fb(paint_cell(fb, op[2], op[3]))
         [] op[1] = "status" -> Fb(draw_status_bar(fb, op[2]))
         [] op[1] = "clear" -> Fb(clear(fb))
         [] op[1] = "flush" -> flush /\ UNCHANGED arrow
         [] op[1] = "hide" -> hide
         [] op[1] = "hide_deferred" -> hide_deferred
         [] op[1] = "place_deferred" -> place_deferred(op[2])
         [] op[1] = "place_here" -> \E c \in flag[t] : place_deferred(c)
         [] op[1] = "move_to" -> move_to(op[2])
         [] op[1] = "hide?" -> IF flag[t] = {} THEN UNCHANGED <<fb, device, arrow>> ELSE hide
         [] op[1] = "move?" -> IF flag[t] = {} THEN UNCHANGED <<fb, device, arrow>>
                               ELSE \E c \in flag[t] : move_to(c)
         [] OTHER -> UNCHANGED <<fb, device, arrow>>

\* the rest of a call that has hidden the pointer, or found it hidden, and has something
\* left to draw there, or the pointer to place without looking whether it is up
Drawing(steps) ==
    /\ steps # <<>> /\ steps[1][1] \notin {"text_begin", "hide_deferred", "hide"}
    /\ \E i \in DOMAIN steps : steps[i][1] \in {"write", "write+flush", "paint", "status",
                                                "clear", "place_deferred", "place_here"}
Puts(t, op) ==
    \/ op[1] \in {"place_deferred", "place_here", "move_to"}
    \/ op[1] = "move?" /\ flag[t] # {}

Step(t) ==
    /\ draw[t] # <<>>
    /\ draw' = [draw EXCEPT ![t] = Tail(@)]
    /\ LET op == draw[t][1]
       IN /\ Run(t, op)
          /\ CASE op[1] = "text_begin" -> text_begin(t)
               [] op[1] = "text_end" -> text_end(t)
               [] op[1] = "where" -> flag' = [flag EXCEPT ![t] = {arrow.at}] /\ UNCHANGED guard
               [] op[1] \in {"hide?", "move?", "place_here"} ->
                      flag' = [flag EXCEPT ![t] = {}] /\ UNCHANGED guard
               [] OTHER -> UNCHANGED <<guard, flag>>
          /\ crossed' = (crossed \/ (Puts(t, op) /\ \E u \in Threads : Drawing(draw'[u])))
    /\ UNCHANGED <<mouse, drawCalls>>

\* a mouse packet moved the pointer (irq_handler of drivers/ps2_mouse.rs clamps it to the
\* screen): it is drawn by the next pass
MouseMoves ==
    /\ \E c \in Cells \ {mouse} : mouse' = c
    /\ \A t \in Threads : draw[t] = <<>>
    /\ UNCHANGED <<fb, device, arrow, guard, draw, flag, crossed, drawCalls>>

\* before the shell's first pass, and after it: the pointer is up at the first cell
Init ==
    /\ \E up \in BOOLEAN :
          LET blank == [c \in Cells |-> Blank]
              shown == IF up THEN [blank EXCEPT ![0] = Arrow] ELSE blank
          IN /\ fb = [back |-> shown, drawn |-> blank, dirty |-> <<>>, col |-> 0, row |-> 0]
             /\ device = shown
             /\ arrow = [at |-> 0, saved |-> Blank, have_saved |-> up, visible |-> up]
    /\ guard = [depth |-> 0, redraw |-> FALSE]
    /\ draw = [t \in Threads |-> <<>>] /\ flag = [t \in Threads |-> {}]
    /\ mouse = 0 /\ crossed = FALSE /\ drawCalls = 0

Next == (\E t \in Threads : Call(t) \/ Step(t)) \/ MouseMoves

(*------------------------------- properties ------------------------------*)

Quiet == \A t \in DOMAIN draw : draw[t] = <<>>

Clean ==
    /\ fb.back = [c \in Cells |-> IF arrow.have_saved /\ arrow.at = c THEN Arrow ELSE fb.drawn[c]]
    /\ ~arrow.have_saved \/ arrow.saved = fb.drawn[arrow.at]
    /\ \A c \in Cells \ (Strip \cup Box(fb.dirty)) : device[c] = fb.back[c]

\* When no call is under way, the shadow buffer is what was drawn with the
\* pointer on top of it and nothing else, the pointer holds what is under
\* it, and the text area of the device differs from the shadow buffer only
\* where damage is still to be flushed (cursor.rs: hide, move_to,
\* place_deferred and text_begin/text_end), however the calls of the
\* threads overlap, as long as nobody draws the pointer while a call is
\* between hiding it and its last drawing or placing.
NoTrail == Quiet /\ ~crossed => Clean

\* The same of every overlap: text_begin and text_end wrap every console
\* text write, so that no writer draws glyphs under the visible arrow and
\* leaves its saved background stale (the comment above TextGuard).
NeverStale == Quiet => Clean

\* A flush pushes everything drawn since the last one: with no damage left
\* the device is the shadow buffer, the status strip included
\* (FramebufferWriter::flush).
FlushedIsShown == Quiet /\ fb.dirty = <<>> => device = fb.back
============================================================================
