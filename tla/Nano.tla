-------------------------------- MODULE Nano --------------------------------
(***************************************************************************)
(* The nano+ editor: its buffer with undo, selection, search and replace,  *)
(* the file sidebar, saving with a backup, the two-press quit guard, and   *)
(* which rows of the frame each key repaints. A text is a sequence of      *)
(* characters with "n" for the end of a line. What is typed into a prompt  *)
(* is chosen when it is committed; horizontal scrolling, the caret bar and *)
(* colours are left out. An index past the end of a line or of the buffer  *)
(* is a panic, and the editor's last state.                                *)
(***************************************************************************)
EXTENDS Integers, Sequences, FiniteSets, SequencesExt

CONSTANTS
    Letters,            \* what can be typed
    Values,             \* what can be typed into a prompt, as texts
    Disk0,              \* [Paths -> <<>> or <<text>>]: the files at the start
    Listing,            \* [directory -> its sorted entries], an entry is [path, is_dir]
    Root, Start,        \* the sidebar's directory and the file opened first
    MAX_LINE, MAX_FILE, MAX_DEPTH, UNDO_LIMIT, Rows, TabSize, Backup,
    MaxKeys

VARIABLES
    ed,         \* the Editor
    app,        \* the event loop: the pane with the focus, the sidebar, the mouse button
    frame,      \* what the rows of the frame show
    docs,       \* [Paths -> <<>> or <<text>>]
    torn,     \* paths whose last save failed after the file had been truncated
    asks        \* quit requests since the last edit

nanoVars == <<ed, app, frame, docs, torn, asks>>

-----------------------------------------------------------------------------
Split(text) ==
    LET ends == {0, Len(text) + 1} \cup {i \in DOMAIN text : text[i] = "n"}
        Nth(k) == CHOOSE e \in ends : Cardinality({f \in ends : f < e}) = k - 1
    IN  [k \in 1..(Cardinality(ends) - 1) |-> SubSeq(text, Nth(k) + 1, Nth(k + 1) - 1)]
text_of(lines) == FoldLeft(LAMBDA t, l : t \o <<"n">> \o l, Head(lines), Tail(lines))
\* sanitize_line: tabs become spaces, what is not printable ASCII a question mark
sanitize_line(l) == [i \in 1..(IF Len(l) < MAX_LINE THEN Len(l) ELSE MAX_LINE) |->
                        IF l[i] = "tab" THEN " " ELSE IF l[i] = "utf8" THEN "?" ELSE l[i]]
Read(text) == SubSeq(text, 1, IF Len(text) < MAX_FILE THEN Len(text) ELSE MAX_FILE)
Shown(text) == [k \in DOMAIN Split(text) |-> sanitize_line(Split(text)[k])]

Point(r, c) == [row |-> r, col |-> c]
Opened(path, lines) ==
    [path |-> path, lines |-> lines, clean |-> lines, row |-> 1, col |-> 0, top |-> 1, dirty |-> FALSE,
     undo |-> <<>>, redo |-> <<>>, prompt |-> "", hit |-> <<>>, quit_armed |-> FALSE, clipboard |-> <<>>,
     needle |-> <<>>, anchor |-> <<>>, head |-> <<>>, sel_clip |-> <<>>, panic |-> FALSE]
open_or_create(path) == Shown(Read(docs[path][1]))
reload(path) == [Opened(path, open_or_create(path)) EXCEPT
                    !.clipboard = ed.clipboard, !.prompt = ed.prompt, !.needle = ed.needle]

-----------------------------------------------------------------------------
\* a mutant of refresh_dirty: any keystroke makes the buffer modified
AfterEdit(e) == [e EXCEPT !.dirty = TRUE]
refresh_dirty(e) == [e EXCEPT !.dirty = e.lines # e.clean, !.quit_armed = @ /\ e.lines # e.clean]
mark_clean(e) == [e EXCEPT !.clean = e.lines, !.dirty = FALSE, !.quit_armed = FALSE]
ensure_visible(e) == [e EXCEPT !.top = IF e.row < @ THEN e.row ELSE IF e.row >= @ + Rows THEN e.row + 1 - Rows ELSE @]
snapshot(e) == [lines |-> e.lines, row |-> e.row, col |-> e.col]
checkpoint(e) == [e EXCEPT !.undo = Append(IF Len(@) = UNDO_LIMIT THEN Tail(@) ELSE @, snapshot(e)),
                           !.redo = <<>>, !.quit_armed = FALSE]
Lesser(a, b) == IF a < b THEN a ELSE b
Greater(a, b) == IF a < b THEN b ELSE a
Line(e) == e.lines[e.row]
restore(e, s) ==
    LET row == Lesser(s.row, Len(s.lines)) IN
    refresh_dirty(ensure_visible([e EXCEPT !.lines = s.lines, !.row = row, !.col = Lesser(s.col, Len(s.lines[row]))]))
undo(e) == IF e.undo = <<>> THEN e
           ELSE restore([e EXCEPT !.undo = Front(@), !.redo = Append(@, snapshot(e))], Last(e.undo))
redo(e) == IF e.redo = <<>> THEN e
           ELSE restore([e EXCEPT !.redo = Front(@), !.undo = Append(@, snapshot(e))], Last(e.redo))

Panic(e) == [e EXCEPT !.panic = TRUE]
insert(e, ch) ==
    IF e.panic \/ Len(Line(e)) >= MAX_LINE THEN e
    ELSE IF e.col > Len(Line(e)) THEN Panic(checkpoint(e))
    ELSE refresh_dirty(ensure_visible([checkpoint(e) EXCEPT !.lines[e.row] = InsertAt(@, e.col + 1, ch), !.col = @ + 1]))
Indent(l) == Cardinality({i \in DOMAIN l : \A j \in 1..i : l[j] = " "})
newline(e) ==
    LET indent == Indent(Line(e))
        next == [i \in 1..indent |-> " "] \o SubSeq(Line(e), e.col + 1, Len(Line(e)))
        cut == [checkpoint(e) EXCEPT !.lines[e.row] = SubSeq(@, 1, e.col)]
    IN  IF e.panic \/ e.col > Len(Line(e)) THEN Panic(e)
        ELSE refresh_dirty(ensure_visible([cut EXCEPT !.lines = InsertAt(@, e.row + 1, next), !.row = @ + 1, !.col = indent]))
\* backspace at the start of a line joins it to the one above if the two fit
backspace(e) ==
    LET above == e.lines[e.row - 1]
        fits == Len(above) + Len(Line(e)) <= MAX_LINE
        c == checkpoint(e)
    IN  IF e.col > Len(Line(e)) THEN Panic(e)
        ELSE IF e.col > 0
             THEN refresh_dirty([c EXCEPT !.lines[e.row] = RemoveAt(@, e.col), !.col = @ - 1])
        ELSE IF e.row = 1 THEN e
        ELSE IF fits
             THEN refresh_dirty(ensure_visible([c EXCEPT !.lines = [RemoveAt(@, e.row) EXCEPT ![e.row - 1] = above \o Line(e)],
                                                         !.row = @ - 1, !.col = Len(above)]))
        ELSE refresh_dirty(c)
delete(e) ==
    IF e.col < Len(Line(e)) THEN refresh_dirty([checkpoint(e) EXCEPT !.lines[e.row] = RemoveAt(@, e.col + 1)])
    ELSE IF e.row < Len(e.lines) /\ Len(Line(e)) + Len(e.lines[e.row + 1]) <= MAX_LINE
    THEN refresh_dirty([checkpoint(e) EXCEPT !.lines = [RemoveAt(@, e.row + 1) EXCEPT ![e.row] = Line(e) \o e.lines[e.row + 1]]])
    ELSE refresh_dirty(e)

At(e, row, col) == ensure_visible([e EXCEPT !.row = row, !.col = Lesser(col, Len(e.lines[row]))])
Move(e, k) ==
    CASE k = "Left" -> IF e.col > 0 THEN ensure_visible([e EXCEPT !.col = @ - 1])
                       ELSE IF e.row > 1 THEN At(e, e.row - 1, Len(e.lines[e.row - 1])) ELSE e
      [] k = "Right" -> IF e.col < Len(Line(e)) THEN At(e, e.row, e.col + 1)
                        ELSE IF e.row < Len(e.lines) THEN At(e, e.row + 1, 0) ELSE e
      [] k = "Up" -> IF e.row > 1 THEN At(e, e.row - 1, e.col) ELSE e
      [] k = "Down" -> IF e.row < Len(e.lines) THEN At(e, e.row + 1, e.col) ELSE e
      [] k = "Home" -> At(e, e.row, 0)
      [] k = "End" -> At(e, e.row, Len(Line(e)))
cut_line(e) ==
    LET rest == RemoveAt(e.lines, e.row)
        lines == IF rest = <<>> THEN << <<>> >> ELSE rest
    IN  refresh_dirty(At([checkpoint(e) EXCEPT !.lines = lines, !.clipboard = <<Line(e)>>],
                         Lesser(e.row, Len(lines)), e.col))
paste_line(e) ==
    IF e.clipboard = <<>> THEN e
    ELSE refresh_dirty(At([checkpoint(e) EXCEPT !.lines = InsertAt(@, e.row + 1, e.clipboard[1])], e.row + 1, 0))

-----------------------------------------------------------------------------
\* the selection: two inclusive positions in the order they were made
clear_selection(e) == [e EXCEPT !.anchor = <<>>, !.head = <<>>]
Before(p, q) == p.row < q.row \/ (p.row = q.row /\ p.col <= q.col)
has_selection(e) == e.anchor # <<>> /\ e.head # <<>> /\ e.anchor # e.head
sel_bounds(e) == IF Before(e.anchor[1], e.head[1]) THEN <<e.anchor[1], e.head[1]>> ELSE <<e.head[1], e.anchor[1]>>
select_all(e) ==
    LET last == Len(e.lines)
        col == IF e.lines[last] = <<>> THEN 0 ELSE Len(e.lines[last]) - 1
    IN  At([e EXCEPT !.anchor = <<Point(1, 0)>>, !.head = <<Point(last, col)>>], last, col)
Dangling(e) == has_selection(e) /\ sel_bounds(e)[2].row > Len(e.lines)
sel_text(e) ==
    LET a == sel_bounds(e)[1]
        b == sel_bounds(e)[2]
        upTo == SubSeq(e.lines[b.row], 1, Lesser(b.col + 1, Len(e.lines[b.row])))
    IN  IF a.row = b.row THEN SubSeq(upTo, a.col + 1, Len(upTo))
        ELSE text_of(<<SubSeq(e.lines[a.row], a.col + 1, Len(e.lines[a.row]))>>
                     \o SubSeq(e.lines, a.row + 1, b.row - 1) \o <<upTo>>)
delete_selection(e) ==
    LET a == sel_bounds(e)[1]
        b == sel_bounds(e)[2]
        ac == Lesser(a.col, Len(e.lines[a.row]))
        joined == SubSeq(e.lines[a.row], 1, ac) \o SubSeq(e.lines[b.row], Lesser(b.col + 1, Len(e.lines[b.row])) + 1, Len(e.lines[b.row]))
    IN  IF ~has_selection(e) THEN clear_selection(e)
        ELSE IF Dangling(e) THEN Panic(e)
        ELSE refresh_dirty(ensure_visible(clear_selection([checkpoint(e) EXCEPT
                 !.lines = SubSeq(@, 1, a.row - 1) \o <<joined>> \o SubSeq(@, b.row + 1, Len(@)),
                 !.row = a.row, !.col = ac])))
insert_text(e, text) ==
    FoldLeft(LAMBDA f, ch : IF ch = "n" THEN newline(f) ELSE insert(f, ch), delete_selection(e), text)

-----------------------------------------------------------------------------
Occurs(l, n, i) == i + Len(n) - 1 <= Len(l) /\ SubSeq(l, i, i + Len(n) - 1) = n
Hits(e, r, from, n) == {i \in from..Len(e.lines[r]) : Occurs(e.lines[r], n, i)}
First(S) == CHOOSE i \in S : \A j \in S : i <= j
\* find_next: from behind the caret to the end, then from the start to the caret's line
find_next(e, n) ==
    LET from == Lesser(e.col + 1, Len(Line(e))) + 1
        later == {r \in e.row..Len(e.lines) : Hits(e, r, IF r = e.row THEN from ELSE 1, n) # {}}
        again == {r \in 1..e.row : Hits(e, r, 1, n) # {}}
        r == IF later # {} THEN First(later) ELSE First(again)
        c == First(Hits(e, r, IF later # {} /\ r = e.row THEN from ELSE 1, n)) - 1
    IN  IF n = <<>> \/ (later = {} /\ again = {}) THEN e
        ELSE [At(e, r, c) EXCEPT !.hit = <<[row |-> r, col |-> c, len |-> Len(n)]>>]
RECURSIVE ReplaceFrom(_, _, _, _)
ReplaceFrom(l, n, v, i) == IF i > Len(l) THEN <<>>
                           ELSE IF Occurs(l, n, i) THEN v \o ReplaceFrom(l, n, v, i + Len(n))
                           ELSE <<l[i]>> \o ReplaceFrom(l, n, v, i + 1)
\* the caret's column is not looked at
replace_all(e, n, v) ==
    IF \A r \in DOMAIN e.lines : Hits(e, r, 1, n) = {} THEN e
    ELSE refresh_dirty([checkpoint(e) EXCEPT !.lines = [r \in DOMAIN @ |-> ReplaceFrom(@[r], n, v, 1)]])
Number(v) == IF v \in {<<"1">>, <<"2">>, <<"9">>} THEN (CASE v[1] = "1" -> 1 [] v[1] = "2" -> 2 [] v[1] = "9" -> 9) ELSE 0
commit_prompt(e, v) ==
    LET f == [e EXCEPT !.prompt = ""] IN
    CASE e.prompt = "Search" -> find_next(f, v)
      [] e.prompt = "Goto" -> IF Number(v) = 0 THEN f ELSE At(f, Lesser(Number(v), Len(f.lines)), f.col)
      [] e.prompt = "ReplaceFind" -> IF v = <<>> THEN f ELSE [f EXCEPT !.needle = v, !.prompt = "ReplaceWith"]
      [] e.prompt = "ReplaceWith" -> replace_all([f EXCEPT !.needle = <<>>], e.needle, v)

-----------------------------------------------------------------------------
\* rendering: what a row of the frame shows, and the rows each entry point repaints
selected_cols(e, r) ==
    LET a == sel_bounds(e)[1]
        b == sel_bounds(e)[2]
        from == IF r = a.row THEN a.col ELSE 0
        to == Lesser(IF r = b.row THEN b.col ELSE MAX_LINE, Len(e.lines[r]) - 1)
    IN  IF ~has_selection(e) \/ r < a.row \/ r > b.row \/ e.lines[r] = <<>> \/ from > to THEN <<>> ELSE <<from, to>>
paint_editor_row(e, r) ==
    IF r > Len(e.lines) THEN [text |-> <<"~">>, hit |-> <<>>, sel |-> <<>>]
    ELSE [text |-> e.lines[r], hit |-> SelectSeq(e.hit, LAMBDA h : h.row = r), sel |-> selected_cols(e, r)]
render_body(e, first, last) ==
    [frame EXCEPT !.rows = [vr \in 1..Rows |-> IF first <= vr /\ vr <= last THEN paint_editor_row(e, e.top + vr - 1) ELSE @[vr]]]
render_full(e) == [title |-> e.dirty, rows |-> [vr \in 1..Rows |-> paint_editor_row(e, e.top + vr - 1)]]
OnScreen(r, top) == IF r < top THEN 1 ELSE r - top + 1
\* after a key in the text: everything when a prompt opened or the view moved, else from the old
\* row to the new one, or to the bottom when lines came or went
AfterKey(old, e) ==
    IF e.panic THEN frame
    ELSE IF e.prompt # "" \/ e.top # old.top THEN render_full(e)
    ELSE render_body(e, OnScreen(Lesser(old.row, e.row), e.top),
                     IF Len(e.lines) # Len(old.lines) THEN Rows ELSE OnScreen(Greater(old.row, e.row), e.top))

-----------------------------------------------------------------------------
Step == app.pc = "edit" /\ ~ed.panic /\ app.keys < MaxKeys
Counted(a) == [a EXCEPT !.keys = @ + 1]

\* FileTree.walk: the entries of a directory, and behind an expanded one its own
RECURSIVE walk(_, _, _)
walk(dir, expanded, depth) ==
    LET there == SelectSeq(Listing[dir], LAMBDA x : x.is_dir \/ docs[x.path] # <<>>) IN
    IF depth > MAX_DEPTH THEN <<>>
    ELSE FoldLeft(LAMBDA out, x : out \o <<[path |-> x.path, is_dir |-> x.is_dir, depth |-> depth]>>
                      \o (IF x.is_dir /\ x.path \in expanded THEN walk(x.path, expanded, depth + 1) ELSE <<>>), <<>>, there)
On(a, path) == {i \in DOMAIN a.rows : a.rows[i].path = path}
\* the directory is read when it is rebuilt; the highlight stays on its path
rebuild(a) ==
    LET b == [a EXCEPT !.rows = walk(a.root, a.expanded, 0)]
        path == a.rows[a.cursor].path
    IN  [b EXCEPT !.cursor = IF On(b, path) # {} THEN First(On(b, path)) ELSE Lesser(@, Len(b.rows))]
FileTree(a, root) == [a EXCEPT !.tree = TRUE, !.root = root, !.expanded = {root}, !.cursor = 1, !.rows = walk(root, {root}, 0)]
Toggle(a, path) == rebuild([a EXCEPT !.expanded = IF path \in @ THEN @ \ {path} ELSE @ \cup {path}])
focus_tree_on(a) == IF On(a, ed.path) = {} THEN a ELSE [a EXCEPT !.cursor = First(On(a, ed.path))]
\* a directory opens or closes; a file is switched to unless the buffer is modified
Activate(a) ==
    LET row == a.rows[a.cursor] IN
    IF row.is_dir THEN app' = Counted(Toggle(a, row.path)) /\ UNCHANGED ed
    ELSE IF ed.dirty THEN app' = Counted(focus_tree_on(a)) /\ UNCHANGED ed
    ELSE ed' = reload(row.path) /\ app' = Counted([a EXCEPT !.pane = "Text"])

-----------------------------------------------------------------------------
Init ==
    /\ docs = Disk0 /\ ed = Opened(Start, open_or_create(Start))
    /\ app = focus_tree_on(FileTree([pc |-> "edit", pane |-> "Text", tree |-> TRUE, root |-> Root, expanded |-> {}, rows |-> <<>>,
                                     cursor |-> 1, left |-> FALSE, keys |-> 0], Root))
    /\ frame = render_full(ed) /\ torn = {} /\ asks = 0

Edits(e, k) ==
    CASE k \in Letters -> insert(delete_selection(e), k)
      [] k = "Enter" -> newline(delete_selection(e))
      [] k = "Backspace" -> IF has_selection(e) THEN delete_selection(e) ELSE backspace(clear_selection(e))
      [] k = "Delete" -> IF has_selection(e) THEN delete_selection(e) ELSE delete(clear_selection(e))
      [] k = "Tab" -> FoldLeft(LAMBDA f, i : insert(f, " "), delete_selection(e), [i \in 1..TabSize |-> i])
      [] k \in {"Left", "Right", "Up", "Down", "Home", "End"} -> Move(clear_selection(e), k)
      [] k = "^Z" -> undo(e)
      [] k = "^Y" -> redo(e)
      [] k = "^A" -> select_all(e)
      [] k = "^C" -> IF Dangling(e) THEN Panic(e)
                     ELSE IF has_selection(e) THEN [e EXCEPT !.sel_clip = sel_text(e)] ELSE [e EXCEPT !.clipboard = <<Line(e)>>]
      [] k = "^X" -> IF Dangling(e) THEN Panic(e)
                     ELSE IF has_selection(e) THEN delete_selection([e EXCEPT !.sel_clip = sel_text(e)]) ELSE cut_line(e)
      [] k = "^V" -> IF e.sel_clip = <<>> THEN paste_line(e) ELSE insert_text(e, e.sel_clip)
      [] k = "^F" -> [e EXCEPT !.prompt = "Search"]
      [] k = "^R" -> [e EXCEPT !.prompt = "ReplaceFind"]
      [] k = "^G" -> [e EXCEPT !.prompt = "Goto"]
Asks(e) == IF e.undo # ed.undo THEN 0 ELSE asks
Keys == Letters \cup {"Enter", "Backspace", "Delete", "Tab", "Left", "Right", "Up", "Down", "Home", "End",
                      "^Z", "^Y", "^A", "^C", "^X", "^V", "^F", "^R", "^G"}
TextKey(k) ==
    /\ Step /\ ed.prompt = "" /\ app.pane = "Text"
    /\ ed' = Edits(ed, k) /\ frame' = AfterKey(ed, ed') /\ app' = Counted(app) /\ asks' = IF k \in {"^Z", "^Y"} THEN asks ELSE Asks(ed')
    /\ UNCHANGED <<docs, torn>>
PromptKey(v, cancel) ==
    /\ Step /\ ed.prompt # ""
    /\ ed' = IF cancel THEN [ed EXCEPT !.prompt = ""] ELSE commit_prompt(ed, v)
    /\ frame' = render_full(ed') /\ app' = Counted(app) /\ asks' = Asks(ed')
    /\ UNCHANGED <<docs, torn>>

\* ^Q, or Escape in the text without a selection
Quit(esc) ==
    /\ Step /\ ed.prompt = "" /\ (~esc \/ (app.pane = "Text" /\ ~has_selection(ed)))
    /\ IF ed.dirty /\ ~ed.quit_armed
       THEN /\ ed' = [ed EXCEPT !.quit_armed = TRUE] /\ app' = Counted(app)
            /\ frame' = IF esc THEN AfterKey(ed, ed') ELSE render_full(ed')
       ELSE app' = [app EXCEPT !.pc = "closed"] /\ UNCHANGED <<ed, frame>>
    /\ asks' = asks + 1 /\ UNCHANGED <<docs, torn>>
Escape ==
    /\ Step /\ ed.prompt = "" /\ app.pane = "Text" /\ has_selection(ed)
    /\ ed' = clear_selection(ed) /\ frame' = AfterKey(ed, ed') /\ app' = Counted(app)
    /\ UNCHANGED <<docs, torn, asks>>

\* save: the backup, then truncate and write; a failure leaves the buffer as it is, and a write
\* that fails some beginning of the text in the file
save(io) ==
    LET text == text_of(ed.lines)
        old == docs[ed.path][1]
        backs == Backup /\ old # <<>>
        bak == IF backs THEN ((ed.path \o ".bak") :> <<Read(old)>>) @@ docs ELSE docs
    IN
    CASE backs /\ io = "backup" -> UNCHANGED <<docs, ed, torn>>
      [] Len(text) > MAX_FILE \/ io = "truncate" -> docs' = bak /\ UNCHANGED <<ed, torn>>
      [] io = "write" /\ text # <<>> ->
            /\ \E n \in 0..(Len(text) - 1) : docs' = [bak EXCEPT ![ed.path] = <<SubSeq(text, 1, n)>>]
            /\ torn' = torn \cup {ed.path} /\ UNCHANGED ed
      [] OTHER -> docs' = [bak EXCEPT ![ed.path] = <<text>>] /\ torn' = torn \ {ed.path} /\ ed' = mark_clean(ed)
Save(io) ==
    /\ Step /\ ed.prompt = "" /\ save(io)
    /\ frame' = render_full(ed') /\ app' = Counted(app) /\ UNCHANGED asks

\* ^B shows or hides the sidebar, ^T enters it
parent_dir(path) == CHOOSE d \in DOMAIN Listing : \E i \in DOMAIN Listing[d] : Listing[d][i].path = path
Sidebar ==
    /\ Step /\ ed.prompt = ""
    /\ app' = Counted(IF app.tree THEN [app EXCEPT !.tree = FALSE, !.pane = "Text"]
                      ELSE [FileTree(app, parent_dir(ed.path)) EXCEPT !.pane = "Tree"])
    /\ frame' = render_full(ed) /\ UNCHANGED <<ed, docs, torn, asks>>
EnterTree ==
    /\ Step /\ ed.prompt = "" /\ app.pane = "Text" /\ app.tree
    /\ app' = Counted([app EXCEPT !.pane = "Tree"]) /\ frame' = AfterKey(ed, ed) /\ UNCHANGED <<ed, docs, torn, asks>>
collapse_or_parent(a) ==
    LET row == a.rows[a.cursor]
        above == {i \in 1..(a.cursor - 1) : a.rows[i].is_dir /\ a.rows[i].depth + 1 = row.depth}
    IN  IF row.is_dir /\ row.path \in a.expanded THEN Toggle(a, row.path)
        ELSE IF above = {} THEN a
        ELSE [a EXCEPT !.cursor = CHOOSE i \in above : \A j \in above : j <= i]
TreeKey(k) ==
    /\ Step /\ ed.prompt = "" /\ app.pane = "Tree"
    /\ IF k = "Enter" THEN Activate(app)
       ELSE /\ app' = Counted(CASE k = "Up" -> [app EXCEPT !.cursor = IF @ > 1 THEN @ - 1 ELSE 1]
                                [] k = "Down" -> [app EXCEPT !.cursor = Lesser(@ + 1, Len(app.rows))]
                                [] k = "Left" -> collapse_or_parent(app)
                                [] k = "Tab" -> [app EXCEPT !.pane = "Text"])
            /\ UNCHANGED ed
    /\ frame' = IF k = "Enter" /\ app'.pane = "Text" THEN render_full(ed') ELSE AfterKey(ed, ed)
    /\ UNCHANGED <<docs, torn, asks>>

\* the mouse: a press places the caret and the anchor, a drag the head
Under(vr, cell) == LET r == Lesser(ed.top + vr - 1, Len(ed.lines)) IN Point(r, Lesser(cell, Len(ed.lines[r])))
Press(vr, cell) ==
    LET p == Under(vr, cell)
        e == At([clear_selection(ed) EXCEPT !.anchor = <<p>>, !.head = <<p>>], p.row, p.col)
    IN
    /\ Step /\ ~app.left /\ ed' = e
    /\ frame' = IF e.top # ed.top THEN render_full(e) ELSE render_body(e, OnScreen(Lesser(ed.row, e.row), e.top), OnScreen(Greater(ed.row, e.row), e.top))
    /\ app' = [Counted(app) EXCEPT !.left = TRUE] /\ UNCHANGED <<docs, torn, asks>>
Drag(vr, cell) ==
    LET p == Under(vr, cell)
        e == At([ed EXCEPT !.head = <<p>>], p.row, p.col)
        seen == {ed.row, p.row, ed.anchor[1].row} \cup {h.row : h \in ToSet(ed.head)}
    IN
    /\ Step /\ app.left /\ ed.anchor # <<>> /\ ed' = e
    /\ frame' = IF e.top # ed.top THEN render_full(e)
                ELSE render_body(e, OnScreen(First(seen), e.top), OnScreen(CHOOSE r \in seen : \A q \in seen : q <= r, e.top))
    /\ app' = Counted(app) /\ UNCHANGED <<docs, torn, asks>>
Release ==
    /\ Step /\ app.left /\ app' = [app EXCEPT !.left = FALSE]
    /\ ed' = IF has_selection(ed) THEN ed ELSE clear_selection(ed)
    /\ UNCHANGED <<frame, docs, torn, asks>>
PressTree(i) ==
    /\ Step /\ ~app.left /\ app.tree /\ i \in DOMAIN app.rows
    /\ Activate([app EXCEPT !.pane = "Tree", !.cursor = i, !.left = TRUE])
    /\ frame' = render_full(ed') /\ UNCHANGED <<docs, torn, asks>>
PressNothing ==
    /\ Step /\ ~app.left /\ app' = [Counted(app) EXCEPT !.left = TRUE] /\ UNCHANGED <<ed, frame, docs, torn, asks>>
Blink == Step /\ frame' = render_body(ed, ed.row - ed.top + 1, ed.row - ed.top + 1) /\ UNCHANGED <<ed, app, docs, torn, asks>>

Next ==
    \/ \E k \in Keys : TextKey(k)
    \/ \E v \in Values, cancel \in BOOLEAN : PromptKey(v, cancel)
    \/ \E esc \in BOOLEAN : Quit(esc)
    \/ Escape \/ Sidebar \/ EnterTree \/ PressNothing \/ Release \/ Blink
    \/ \E io \in {"ok", "backup", "truncate", "write"} : Save(io)
    \/ \E k \in {"Up", "Down", "Left", "Enter", "Tab"} : TreeKey(k)
    \/ \E vr \in 1..Rows, cell \in 0..MAX_LINE : Press(vr, cell) \/ Drag(vr, cell)
    \/ \E i \in 1..4 : PressTree(i)

-----------------------------------------------------------------------------
(* A buffer is marked modified exactly while its text differs from the text  *)
(* last saved or opened; an unmodified buffer shows the file, unless a save  *)
(* of it failed half-way; and the editor closes over unsaved text only when  *)
(* asked twice with no edit in between.                                      *)
EditsGuarded ==
    ~ed.panic =>
        /\ ed.dirty <=> (ed.lines # ed.clean)
        /\ (~ed.dirty /\ ed.path \notin torn) => Shown(Read(docs[ed.path][1])) = ed.lines
        /\ (app.pc = "closed" /\ ed.lines # ed.clean) => asks >= 2

(* nano.rs says of the quit guard that with the saved text back in the       *)
(* buffer there is nothing to lose: the file then holds that text.           *)
NothingToLose ==
    (~ed.panic /\ ~ed.dirty) => Shown(Read(docs[ed.path][1])) = ed.lines

(* nano.rs says each entry point repaints the smallest region that can have  *)
(* changed: after every event the frame shows the rows as they are.          *)
FrameCurrent ==
    (app.pc = "edit" /\ ~ed.panic) => frame.rows = render_full(ed).rows
=============================================================================
