------------------------------ MODULE Install -------------------------------
(***************************************************************************)
(* The package installer: plan_install orders the members of a data.tar,   *)
(* install_data_tar carries the plan out on ext2 through VFS calls, any of *)
(* which may find the disk full. Paths are sequences of components below   *)
(* the root of the installation; link targets are relative.                *)
(***************************************************************************)
EXTENDS Integers, Sequences, FiniteSets, SequencesExt

CONSTANTS
    Entries,        \* the members a package is made of: [kind, path, target]
    Existing,       \* paths of a file that is on disk before, <<>> for none
    MaxEntries, MaxLinks    \* members of a package; links a walk may follow

VARIABLES
    disc,       \* inode -> [kind, names, target, content]; 1 is the root
    planned, ops,   \* the operations of the plan, and those that are left
    deferredOps,\* hard links whose target was missing, and whether the pass got on
    installer,  \* "none", "plan", "retry", "ok", "failed"
    placed      \* what every operation carried out has put where, in order

installVars == <<disc, planned, ops, deferredOps, installer, placed>>

Dir(names) == [kind |-> "dir", names |-> names, target |-> <<>>, content |-> 0, live |-> TRUE]
NoNames == [n \in {} |-> 0]
NoneDeferred == [ops |-> <<>>, kept |-> <<>>, progressed |-> FALSE]

Init ==
    /\ disc = <<Dir(NoNames)>> /\ planned = <<>> /\ ops = <<>> /\ deferredOps = NoneDeferred
    /\ installer = "none" /\ placed = <<>>

-----------------------------------------------------------------------------
\* normalize_entry_path: <<>> is SkipUnsafe
normalize_entry_path(archived) ==
    LET step(s, c) ==
            CASE s.unsafe \/ c \in {"", "."} -> s
              [] c = ".." -> IF s.stack = <<>> THEN [s EXCEPT !.unsafe = TRUE]
                             ELSE [s EXCEPT !.stack = Front(@)]
              [] OTHER -> [s EXCEPT !.stack = Append(@, c)]
        end == FoldLeft(step, [stack |-> <<>>, unsafe |-> FALSE], archived)
    IN  IF end.unsafe THEN <<>> ELSE end.stack

\* the passes over the pending hard links: one is planned once its target is
RECURSIVE Settled(_, _, _)
Settled(plan, created, pending) ==
    LET step(s, op) ==
            IF op.target \in s.created
            THEN [s EXCEPT !.created = @ \cup {op.path}, !.plan = Append(@, op)]
            ELSE [s EXCEPT !.pending = Append(@, op)]
        pass == FoldLeft(step, [plan |-> plan, created |-> created, pending |-> <<>>], pending)
    IN  IF pass.pending = pending THEN plan \o pending
        ELSE Settled(pass.plan, pass.created, pass.pending)

\* plan_install: files and symlinks in order, then the hard links
plan_install(entries) ==
    LET ops0 == [k \in DOMAIN entries |->
                    [entries[k] EXCEPT !.path = normalize_entry_path(@),
                         !.target = IF entries[k].kind = "hard" THEN normalize_entry_path(@) ELSE @]]
        kept == SelectSeq(ops0, LAMBDA op :
                    op.path # <<>> /\ (op.kind \in {"link", "hard"} => op.target # <<>>))
        now == SelectSeq(kept, LAMBDA op : op.kind \in {"file", "link"})
    IN  Settled(now, {now[k].path : k \in DOMAIN now},
                SelectSeq(kept, LAMBDA op : op.kind = "hard"))

-----------------------------------------------------------------------------
\* lookup_path_walk from a directory (external, Files.tla): 0 is an error
RECURSIVE Walk(_, _, _, _, _)
Walk(d, ino, path, follow, links) ==
    IF path = <<>> THEN ino
    ELSE IF d[ino].kind # "dir" \/ Head(path) \notin DOMAIN d[ino].names THEN 0
    ELSE LET child == d[ino].names[Head(path)]
             more == Tail(path)
         IN  IF d[child].kind = "link" /\ (follow \/ more # <<>>)
             THEN IF links = 0 THEN 0
                  ELSE Walk(d, ino, d[child].target \o more, follow, links - 1)
             ELSE Walk(d, child, more, follow, links)
Lookup(d, path, follow) == Walk(d, 1, path, follow, MaxLinks)

\* an entry for a new inode, and the entry of an inode that is there
Enter(d, dir, name, ino) == [d EXCEPT ![dir].names = (name :> ino) @@ @]
Create(d, dir, name, node) == Enter(Append(d, node), dir, name, Len(d) + 1)
\* unlink: the inode is released with its last name
Unlink(d, dir, name) ==
    LET ino == d[dir].names[name]
        others == {<<i, n>> \in (DOMAIN d) \X {"a", "b"} :
                     n \in DOMAIN d[i].names /\ d[i].names[n] = ino /\ <<i, n>> # <<dir, name>>}
        left == [d EXCEPT ![dir].names = [n \in DOMAIN @ \ {name} |-> @[n]]]
    IN  IF others = {} THEN [left EXCEPT ![ino].live = FALSE] ELSE left

\* resolve_parent: walk to each parent through links, making the ones that are missing;
\* the directory is 0 when that fails
RECURSIVE resolve_parent(_, _, _, _)
resolve_parent(d, dir, path, k) ==
    LET child == Lookup(d, SubSeq(path, 1, k), TRUE) IN
    IF k = Len(path) THEN [disc |-> d, dir |-> IF d[dir].kind = "dir" THEN dir ELSE 0]
    ELSE IF child # 0 THEN resolve_parent(d, child, path, k + 1)
    ELSE IF d[dir].kind # "dir" \/ path[k] \in DOMAIN d[dir].names THEN [disc |-> d, dir |-> 0]
    ELSE resolve_parent(Create(d, dir, path[k], Dir(NoNames)), Len(d) + 1, path, k + 1)

Blocked(p, name) == name \in DOMAIN p.disc[p.dir].names /\ p.disc[p.disc[p.dir].names[name]].kind = "dir"
Cleared(p, name) == IF name \in DOMAIN p.disc[p.dir].names THEN Unlink(p.disc, p.dir, name) ELSE p.disc

Log(op, p, ino) == Append(placed, [op |-> op, dir |-> p.dir, name |-> Last(op.path), ino |-> ino])

\* install_one and install_symlink. The disk may be full: after the parents were made,
\* after the old entry was removed, or (for a file) after a part was written.
Replace(op, p, node) ==
    LET name == Last(op.path) IN
    CASE p.dir = 0 -> disc' = p.disc /\ installer' = "failed" /\ UNCHANGED placed
      [] Blocked(p, name) -> disc' = p.disc /\ placed' = Log(op, p, 0) /\ UNCHANGED installer
      [] OTHER ->
            \/ /\ disc' = Create(Cleared(p, name), p.dir, name, node)
               /\ placed' = Log(op, p, Len(p.disc) + 1) /\ UNCHANGED installer
            \/ /\ disc' \in {p.disc, Cleared(p, name)}
               /\ installer' = "failed" /\ UNCHANGED placed

install_file_or_link ==
    /\ installer = "plan" /\ ops # <<>> /\ Head(ops).kind \in {"file", "link"}
    /\ LET op == Head(ops) IN
        Replace(op, resolve_parent(disc, 1, op.path, 1),
            [kind |-> op.kind, names |-> NoNames, target |-> op.target,
             content |-> Len(placed) + 1, live |-> TRUE])
    /\ ops' = Tail(ops)
    /\ UNCHANGED <<planned, deferredOps>>

\* install_hardlink: the target is looked up before the old entry is removed
Linked(op) ==
    LET target == Lookup(disc, op.target, FALSE)
        p == resolve_parent(disc, 1, op.path, 1)
        name == Last(op.path)
    IN  CASE disc[target].kind = "dir" -> placed' = Log(op, p, 0) /\ UNCHANGED <<disc, installer>>
          [] p.dir = 0 -> disc' = p.disc /\ installer' = "failed" /\ UNCHANGED placed
          [] Blocked(p, name) -> disc' = p.disc /\ placed' = Log(op, p, 0) /\ UNCHANGED installer
          [] OTHER ->
                \/ /\ disc' = Enter(Cleared(p, name), p.dir, name, target)
                   /\ placed' = Log(op, p, target) /\ UNCHANGED installer
                \/ /\ disc' \in {p.disc, Cleared(p, name)}
                   /\ installer' = "failed" /\ UNCHANGED placed

Missing(op) == op.kind = "hard" /\ Lookup(disc, op.target, FALSE) = 0

install_hardlink ==
    /\ installer = "plan" /\ ops # <<>> /\ Head(ops).kind = "hard"
    /\ IF Missing(Head(ops))
       THEN /\ deferredOps' = [deferredOps EXCEPT !.ops = Append(@, Head(ops))]
            /\ UNCHANGED <<disc, installer, placed>>
       ELSE Linked(Head(ops)) /\ UNCHANGED deferredOps
    /\ ops' = Tail(ops) /\ UNCHANGED planned

\* a mutant of PlanDone: the deferred hard links are not tried again
NoRetry ==
    /\ installer = "plan" /\ ops = <<>> /\ installer' = "ok"
    /\ UNCHANGED <<disc, planned, ops, deferredOps, placed>>
PlanDone ==
    /\ installer = "plan" /\ ops = <<>> /\ installer' = "retry"
    /\ UNCHANGED <<disc, planned, ops, deferredOps, placed>>

\* the loop over the deferred hard links
retry_hardlink ==
    /\ installer = "retry" /\ deferredOps.ops # <<>>
    /\ LET op == Head(deferredOps.ops)
           rest == [deferredOps EXCEPT !.ops = Tail(@)]
       IN  IF Missing(op)
           THEN /\ deferredOps' = [rest EXCEPT !.kept = Append(@, op)]
                /\ UNCHANGED <<disc, installer, placed>>
           ELSE Linked(op) /\ deferredOps' = [rest EXCEPT !.progressed = TRUE]
    /\ UNCHANGED <<planned, ops>>

PassDone ==
    /\ installer = "retry" /\ deferredOps.ops = <<>>
    /\ IF deferredOps.kept # <<>> /\ deferredOps.progressed
       THEN deferredOps' = [NoneDeferred EXCEPT !.ops = deferredOps.kept] /\ UNCHANGED installer
       ELSE installer' = "ok" /\ UNCHANGED deferredOps
    /\ UNCHANGED <<disc, planned, ops, placed>>

\* the disk before the package: empty, or with a file of an earlier one
Before(path) ==
    LET p == resolve_parent(<<Dir(NoNames)>>, 1, path, 1) IN
    IF path = <<>> THEN <<Dir(NoNames)>>
    ELSE Create(p.disc, p.dir, Last(path), [Dir(NoNames) EXCEPT !.kind = "file"])

install_data_tar ==
    /\ installer = "none" /\ installer' = "plan"
    /\ \E before \in Existing, n \in 1 .. MaxEntries : \E entries \in [1 .. n -> Entries] :
        disc' = Before(before) /\ planned' = plan_install(entries) /\ ops' = plan_install(entries)
    /\ UNCHANGED <<deferredOps, placed>>

Next ==
    \/ install_data_tar \/ install_file_or_link \/ install_hardlink
    \/ PlanDone \/ retry_hardlink \/ PassDone

-----------------------------------------------------------------------------
\* a hard link that replaces the last name of its own target
OntoItself(k) ==
    /\ placed[k].op.kind = "hard" /\ placed[k].ino # 0
    /\ ~disc[placed[k].ino].live

\* An installation that reports success has put every file where its path leads, with its
\* own content, unless a later member went to the same place; it has made every hard link
\* another name of its target, leaving out only those whose target exists nowhere; and no
\* name is left that leads to a released inode (plan_install, install_data_tar). A hard
\* link that leads to the very entry it names is the exception: see the README.
InstalledAsPacked ==
    installer = "ok" =>
        /\ \A k \in {l \in DOMAIN placed : placed[l].ino # 0} :
            \/ \E j \in k + 1 .. Len(placed) :
                  placed[j].dir = placed[k].dir /\ placed[j].name = placed[k].name
            \/ /\ disc[placed[k].dir].names[placed[k].name] = placed[k].ino
               /\ placed[k].op.kind = "file" => disc[placed[k].ino].content = k
        /\ \A k \in DOMAIN planned :
               Missing(planned[k]) \/ \E l \in DOMAIN placed : placed[l].op = planned[k]
        /\ \A i \in DOMAIN disc : \A n \in DOMAIN disc[i].names :
               disc[disc[i].names[n]].live \/ \E k \in DOMAIN placed : OntoItself(k)
============================================================================
