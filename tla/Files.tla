------------------------------- MODULE Files -------------------------------
(***************************************************************************)
(* Path names and regular files: vfs/mod.rs and vfs/link_walk.rs (the tree *)
(* of nodes and the walk that follows symbolic links), vfs/ramfs.rs (what  *)
(* a directory does with its entries) and the calls of                     *)
(* arch/x86_64/linux/io_sys.rs that name a file: open, rename, mkdir,      *)
(* unlink, rmdir, chdir, and read, write, lseek, getdents64 on what is     *)
(* open.                                                                   *)
(*                                                                         *)
(* A call is several steps: everything it only reads comes first, in one   *)
(* step, and pins the nodes it found; every change of the tree is a step   *)
(* of its own, on the pinned node, because each takes the lock of one      *)
(* directory or file and lets go of it.  Names, not text, are the          *)
(* components of a path; a file holds a short sequence of bytes.           *)
(***************************************************************************)
EXTENDS Integers, FiniteSets, Sequences, SequencesExt, FiniteSetsExt

CONSTANTS
  Proc,               \* processes
  Fd,                 \* descriptor numbers of a process
  Name,               \* names a directory may hold
  UserPath,           \* paths the processes use: [absolute, path]
  FirstTree,          \* the nodes there are at first; node 1 is the root
  Calls,              \* the calls the processes make
  SYMLOOP_MAX,        \* links one walk follows
  MAX_EXPANDED_BYTES, \* components one walk reads, links included
  MaxLen,             \* bound on the length of a file
  MaxCalls,           \* bound on the calls made
  IoErrors            \* whether the file system may fail

VARIABLES
  tree,               \* [node -> what it is]; a removed node stays while used
  cwd,                \* [Proc -> the working directory, a path]
  openFiles,          \* [Proc -> [Fd -> OpenObject or Closed]]
  pathCall,           \* [Proc -> the call the process is in]
  wins,               \* [<<dir, name>> -> exclusive creations reported]
  removed,            \* [<<dir, name>> -> entries removed]
  callsMade

fileVars == <<tree, cwd, openFiles, pathCall, wins, removed, callsMade>>

None == 0
Root == 1
Hole == 0
Idle == [at |-> "idle"]
Closed == [kind |-> "closed"]

RamDir == [kind |-> "dir", ents |-> [n \in {} |-> None]]
RamFile == [kind |-> "file", data |-> <<>>]

is_directory(n) == tree[n].kind = "dir"
is_symlink(n) == tree[n].kind = "link"

\* VfsNode::lookup: only a directory has entries
lookup(n, name) ==
  IF is_directory(n) /\ name \in DOMAIN tree[n].ents THEN tree[n].ents[name]
                                                    ELSE None

(* link_walk::resolve.  The walk keeps the directories it came through, so *)
(* that ".." leaves a directory reached by a link the way it came in.      *)
RECURSIVE WalkFrom(_, _, _, _, _)
WalkFrom(pending, stack, links, expanded, follow) ==
  IF pending = <<>> THEN [node |-> Last(stack), err |-> "none"]
  ELSE LET comp == Head(pending)
           rest == Tail(pending)
           child == lookup(Last(stack), comp)
           Failed(e) == [node |-> None, err |-> e]
  IN CASE comp = ".." ->
            WalkFrom(rest, IF Len(stack) > 1 THEN Front(stack) ELSE stack,
                     links, expanded, follow)
       [] comp # ".." /\ child = None -> Failed("NotFound")
       [] comp # ".." /\ child # None /\ is_symlink(child)
          /\ (follow \/ rest # <<>>) ->
            LET target == tree[child].target
                size == expanded + Len(target.path)
            IN IF links + 1 > SYMLOOP_MAX THEN Failed("TooManyLinks")
               ELSE IF target.path = <<>> THEN Failed("NotFound")
               ELSE IF size > MAX_EXPANDED_BYTES THEN Failed("TooLong")
               ELSE WalkFrom(target.path \o rest,
                             IF target.absolute THEN <<Root>> ELSE stack,
                             links + 1, size, follow)
       [] OTHER -> IF rest # <<>> /\ ~is_directory(child)
                   THEN Failed("NotDir")
                   ELSE WalkFrom(rest, Append(stack, child), links, expanded,
                                 follow)

walk(path, follow) == WalkFrom(path, <<Root>>, 0, Len(path), follow)

\* vfs::lookup_path: the plain descent, which no link takes anywhere
lookup_path(path) ==
  FoldLeft(LAMBDA n, name : IF n = None THEN None ELSE lookup(n, name),
           Root, path)

\* resolve_path: ".." is taken off the text of the path, before any walk
resolve_path(p, user) ==
  FoldLeft(LAMBDA s, c : IF c # ".." THEN Append(s, c)
                         ELSE IF s = <<>> THEN s ELSE Front(s),
           <<>>, IF user.absolute THEN user.path ELSE cwd[p] \o user.path)

NewNode == Cardinality(DOMAIN tree) + 1

\* a directory gains an entry for a node that did not exist
WithChild(dir, name, node) ==
  [n \in DOMAIN tree \cup {NewNode} |->
     CASE n = NewNode -> node
       [] n = dir -> [tree[n] EXCEPT !.ents =
            [m \in DOMAIN @ \cup {name} |-> IF m = name THEN NewNode ELSE @[m]]]
       [] OTHER -> tree[n]]

CanCreate(dir, name) == is_directory(dir) /\ lookup(dir, name) = None
\* Mutant: an entry of that name is overwritten
OverwriteNode(dir, name, node) == is_directory(dir) /\ tree' = WithChild(dir, name, node)
create_node(dir, name, node) == /\ CanCreate(dir, name)
                                /\ tree' = WithChild(dir, name, node)

CanRemove(dir, name) ==
  LET n == lookup(dir, name)
  IN n # None /\ (is_directory(n) => DOMAIN tree[n].ents = {})
remove(dir, name) ==
  /\ CanRemove(dir, name)
  /\ tree' = [tree EXCEPT ![dir].ents =
                [m \in DOMAIN @ \ {name} |-> @[m]]]
  /\ removed' = [removed EXCEPT ![dir, name] = @ + 1]

Bump == callsMade < MaxCalls /\ callsMade' = callsMade + 1
Goto(p, c) == pathCall' = [pathCall EXCEPT ![p] = c]
Return(p) == Goto(p, Idle)
Starts(p, name) == name \in Calls /\ pathCall[p] = Idle /\ Bump

(***************************************************************************)
(* open_path and open_resolved                                             *)
(***************************************************************************)
OpenFound(p, path, excl, trunc, node) ==
  /\ ~excl
  /\ Goto(p, [at |-> IF trunc /\ ~is_directory(node) THEN "trunc" ELSE "open",
              path |-> path, node |-> node, excl |-> FALSE, key |-> None])

OpenMissing(p, path, excl) ==
  LET dir == walk(Front(path), TRUE)
  IN /\ path # <<>> /\ dir.err = "none"
     /\ Goto(p, [at |-> "create", path |-> path, dir |-> dir.node,
                 name |-> Last(path), excl |-> excl])

\* a call that can only fail changes nothing and is left out
open_path(p, user, creat, excl, trunc) ==
  LET path == resolve_path(p, user)
      found == walk(path, TRUE)
  IN /\ Starts(p, "open")
     /\ ~(creat /\ excl /\ walk(path, FALSE).err = "none")
     /\ \/ found.err = "none" /\ OpenFound(p, path, creat /\ excl, trunc, found.node)
        \/ found.err = "NotFound" /\ creat /\ OpenMissing(p, path, excl)
     /\ UNCHANGED <<tree, cwd, openFiles, wins, removed>>

open_truncate(p) ==
  LET c == pathCall[p]
  IN /\ c.at = "trunc"
     /\ tree' = [tree EXCEPT ![c.node].data = <<>>]
     /\ Goto(p, [c EXCEPT !.at = "open"])
     /\ UNCHANGED <<cwd, openFiles, wins, removed, callsMade>>

open_create(p) ==
  LET c == pathCall[p]
  IN /\ c.at = "create"
     /\ create_node(c.dir, c.name, RamFile)
     /\ Goto(p, [at |-> "open", path |-> c.path, node |-> NewNode,
                 excl |-> c.excl, key |-> <<c.dir, c.name>>])
     /\ UNCHANGED <<cwd, openFiles, wins, removed, callsMade>>

\* an entry of that name exists by now, or the disk failed: EIO
open_create_fails(p) ==
  LET c == pathCall[p]
  IN /\ c.at = "create"
     /\ ~CanCreate(c.dir, c.name) \/ IoErrors
     /\ Return(p)
     /\ UNCHANGED <<tree, cwd, openFiles, wins, removed, callsMade>>

OpenObject(path, n) ==
  IF is_directory(n)
  THEN [kind |-> "dir", path |-> path, children |-> DOMAIN tree[n].ents]
  ELSE [kind |-> "file", node |-> n, offset |-> 0]

\* the path is walked again: what it names now is what is opened
open_resolved(p) ==
  LET c == pathCall[p]
      found == walk(c.path, TRUE)
      free == {f \in Fd : openFiles[p][f] = Closed}
  IN /\ c.at = "open"
     /\ Return(p)
     /\ IF found.err = "none" /\ free # {}
        THEN /\ openFiles' = [openFiles EXCEPT ![p][Min(free)] =
                                OpenObject(c.path, found.node)]
             /\ wins' = IF c.excl THEN [wins EXCEPT ![c.key] = @ + 1] ELSE wins
        ELSE UNCHANGED <<openFiles, wins>>
     /\ UNCHANGED <<tree, cwd, removed, callsMade>>

(***************************************************************************)
(* rename_paths: the contents are copied to the new name                   *)
(***************************************************************************)
rename_paths(p, old, new, noreplace) ==
  LET from == resolve_path(p, old)
      to == resolve_path(p, new)
      node == lookup_path(from)
      ndir == walk(Front(to), TRUE)
      odir == walk(Front(from), TRUE)
  IN /\ Starts(p, "rename")
     /\ from # <<>> /\ to # <<>> /\ from # to
     /\ node # None /\ ~is_directory(node)
     /\ ~(noreplace /\ walk(to, FALSE).err = "none")
     /\ ndir.err = "none" /\ odir.err = "none"
     /\ Goto(p, [at |-> "replace", ndir |-> ndir.node, nname |-> Last(to),
                 odir |-> odir.node, oname |-> Last(from), target |-> None,
                 data |-> IF is_symlink(node) THEN <<>> ELSE tree[node].data])
     /\ UNCHANGED <<tree, cwd, openFiles, wins, removed>>

rename_replace(p) ==
  LET c == pathCall[p]
  IN /\ c.at = "replace"
     /\ Goto(p, [c EXCEPT !.at = "make"])
     /\ IF lookup(c.ndir, c.nname) # None THEN remove(c.ndir, c.nname)
                                          ELSE UNCHANGED <<tree, removed>>
     /\ UNCHANGED <<cwd, openFiles, wins, callsMade>>

rename_create(p) ==
  LET c == pathCall[p]
  IN /\ c.at = "make"
     /\ create_node(c.ndir, c.nname, RamFile)
     /\ Goto(p, [c EXCEPT !.at = "fill", !.target = NewNode])
     /\ UNCHANGED <<cwd, openFiles, wins, removed, callsMade>>

\* Mutant: the contents are never written
RenameUnwritten(p) ==
  LET c == pathCall[p]
  IN /\ c.at = "fill"
     /\ Goto(p, [c EXCEPT !.at = "unlink"])
     /\ UNCHANGED <<tree, cwd, openFiles, wins, removed, callsMade>>
rename_write(p) ==
  LET c == pathCall[p]
  IN /\ c.at = "fill"
     /\ tree' = [tree EXCEPT ![c.target].data = c.data]
     /\ Goto(p, [c EXCEPT !.at = "unlink"])
     /\ UNCHANGED <<cwd, openFiles, wins, removed, callsMade>>

\* the write stopped part of the way: the new name keeps what was written
rename_write_fails(p) ==
  LET c == pathCall[p]
  IN /\ IoErrors /\ c.at = "fill" /\ c.data # <<>>
     /\ \E k \in 0..Len(c.data) - 1 :
          tree' = [tree EXCEPT ![c.target].data = SubSeq(c.data, 1, k)]
     /\ Return(p)
     /\ UNCHANGED <<cwd, openFiles, wins, removed, callsMade>>

rename_unlink(p) ==
  LET c == pathCall[p]
  IN /\ c.at = "unlink"
     /\ remove(c.odir, c.oname)
     /\ Goto(p, [c EXCEPT !.at = "done"])
     /\ UNCHANGED <<cwd, openFiles, wins, callsMade>>

rename_returns(p) ==
  /\ pathCall[p].at = "done"
  /\ Return(p)
  /\ UNCHANGED <<tree, cwd, openFiles, wins, removed, callsMade>>

rename_fails(p) ==
  LET c == pathCall[p]
  IN /\ \/ /\ c.at = "replace"
           /\ lookup(c.ndir, c.nname) # None
           /\ ~CanRemove(c.ndir, c.nname) \/ IoErrors
        \/ c.at = "make" /\ (~CanCreate(c.ndir, c.nname) \/ IoErrors)
        \/ c.at = "unlink" /\ (~CanRemove(c.odir, c.oname) \/ IoErrors)
     /\ Return(p)
     /\ UNCHANGED <<tree, cwd, openFiles, wins, removed, callsMade>>

(***************************************************************************)
(* mkdir, unlink, rmdir                                                    *)
(***************************************************************************)
sys_mkdir(p, user) ==
  LET path == resolve_path(p, user)
      dir == walk(Front(path), TRUE)
  IN /\ Starts(p, "mkdir")
     /\ path # <<>> /\ lookup_path(path) = None /\ dir.err = "none"
     /\ Goto(p, [at |-> "mkdir", dir |-> dir.node, name |-> Last(path)])
     /\ UNCHANGED <<tree, cwd, openFiles, wins, removed>>

sys_unlink(p, user, wantDir) ==
  LET path == resolve_path(p, user)
      node == lookup_path(path)
      dir == walk(Front(path), TRUE)
  IN /\ Starts(p, IF wantDir THEN "rmdir" ELSE "unlink")
     /\ path # <<>> /\ node # None /\ is_directory(node) = wantDir
     /\ dir.err = "none"
     /\ Goto(p, [at |-> "remove", dir |-> dir.node, name |-> Last(path)])
     /\ UNCHANGED <<tree, cwd, openFiles, wins, removed>>

mkdir_create(p) ==
  LET c == pathCall[p]
  IN /\ c.at = "mkdir"
     /\ create_node(c.dir, c.name, RamDir)
     /\ Return(p)
     /\ UNCHANGED <<cwd, openFiles, wins, removed, callsMade>>

\* what is removed is what has the name now
unlink_remove(p) ==
  LET c == pathCall[p]
  IN /\ c.at = "remove"
     /\ remove(c.dir, c.name)
     /\ Return(p)
     /\ UNCHANGED <<cwd, openFiles, wins, callsMade>>

entry_fails(p) ==
  LET c == pathCall[p]
  IN /\ \/ c.at = "mkdir" /\ (~CanCreate(c.dir, c.name) \/ IoErrors)
        \/ c.at = "remove" /\ (~CanRemove(c.dir, c.name) \/ IoErrors)
     /\ Return(p)
     /\ UNCHANGED <<tree, cwd, openFiles, wins, removed, callsMade>>

(***************************************************************************)
(* Calls on what is open, and the working directory                        *)
(***************************************************************************)
OpenAs(p, f, kind) == openFiles[p][f].kind = kind

\* RamFile::write at the offset of the descriptor; a gap reads as zeros
sys_write(p, f) ==
  /\ Starts(p, "write") /\ OpenAs(p, f, "file")
  /\ LET o == openFiles[p][f]
     IN /\ o.offset < MaxLen
        /\ tree' = [tree EXCEPT ![o.node].data =
             [i \in 1..Max({Len(@), o.offset + 1}) |->
                IF i = o.offset + 1 THEN p
                ELSE IF i <= Len(@) THEN @[i] ELSE Hole]]
        /\ openFiles' = [openFiles EXCEPT ![p][f].offset = @ + 1]
  /\ UNCHANGED <<cwd, pathCall, wins, removed>>

\* plan_read: as much as the file has behind the offset
sys_read(p, f) ==
  /\ Starts(p, "read") /\ OpenAs(p, f, "file")
  /\ openFiles' = [openFiles EXCEPT ![p][f].offset =
       @ + Min({1, Max({0, Len(tree[openFiles[p][f].node].data) - @})})]
  /\ UNCHANGED <<tree, cwd, pathCall, wins, removed>>

sys_lseek(p, f, to) ==
  /\ Starts(p, "lseek") /\ OpenAs(p, f, "file")
  /\ openFiles' = [openFiles EXCEPT ![p][f].offset = to]
  /\ UNCHANGED <<tree, cwd, pathCall, wins, removed>>

\* getdents64 hands out the list that was read when the directory was opened
sys_getdents64(p, f) ==
  /\ Starts(p, "getdents") /\ OpenAs(p, f, "dir")
  /\ openFiles[p][f].children # {}
  /\ \E c \in openFiles[p][f].children :
       openFiles' = [openFiles EXCEPT ![p][f].children = @ \ {c}]
  /\ UNCHANGED <<tree, cwd, pathCall, wins, removed>>

sys_close(p, f) ==
  /\ Starts(p, "close") /\ openFiles[p][f] # Closed
  /\ openFiles' = [openFiles EXCEPT ![p][f] = Closed]
  /\ UNCHANGED <<tree, cwd, pathCall, wins, removed>>

sys_chdir(p, user) ==
  LET path == resolve_path(p, user)
      found == walk(path, TRUE)
  IN /\ Starts(p, "chdir") /\ found.err = "none" /\ is_directory(found.node)
     /\ cwd' = [cwd EXCEPT ![p] = path]
     /\ UNCHANGED <<tree, openFiles, pathCall, wins, removed>>

\* the path the directory was opened by, whatever it names now
sys_fchdir(p, f) ==
  /\ Starts(p, "chdir") /\ OpenAs(p, f, "dir")
  /\ cwd' = [cwd EXCEPT ![p] = openFiles[p][f].path]
  /\ UNCHANGED <<tree, openFiles, pathCall, wins, removed>>

Init ==
  /\ tree = FirstTree
  /\ cwd = [p \in Proc |-> <<>>]
  /\ openFiles = [p \in Proc |-> [f \in Fd |-> Closed]]
  /\ pathCall = [p \in Proc |-> Idle]
  /\ wins = [k \in (1..Cardinality(DOMAIN FirstTree) + MaxCalls) \X Name |-> 0]
  /\ removed = wins
  /\ callsMade = 0

Next ==
  \E p \in Proc :
    \/ \E u \in UserPath, creat, excl, trunc \in BOOLEAN :
         open_path(p, u, creat, excl, trunc)
    \/ open_truncate(p)
    \/ open_create(p)
    \/ open_create_fails(p)
    \/ open_resolved(p)
    \/ \E u, v \in UserPath, nr \in BOOLEAN : rename_paths(p, u, v, nr)
    \/ rename_replace(p)
    \/ rename_create(p)
    \/ rename_write(p)
    \/ rename_write_fails(p)
    \/ rename_unlink(p)
    \/ rename_returns(p)
    \/ rename_fails(p)
    \/ \E u \in UserPath : sys_mkdir(p, u)
    \/ \E u \in UserPath, d \in BOOLEAN : sys_unlink(p, u, d)
    \/ mkdir_create(p)
    \/ unlink_remove(p)
    \/ entry_fails(p)
    \/ \E f \in Fd : \/ sys_write(p, f)
                     \/ sys_read(p, f)
                     \/ \E to \in 0..MaxLen : sys_lseek(p, f, to)
                     \/ sys_getdents64(p, f)
                     \/ sys_close(p, f)
                     \/ sys_fchdir(p, f)
    \/ \E u \in UserPath : sys_chdir(p, u)

Spec == Init /\ [][Next]_fileVars

(***************************************************************************)
(* Properties                                                              *)
(***************************************************************************)

\* open with O_CREAT and O_EXCL is how programs take a lock file: however
\* the look-up and the creation of several processes interleave, no more of
\* them are told they created a name than the name was free times, that is
\* once, and once more for each time its entry was removed.
OneCreatorPerName == \A k \in DOMAIN wins : wins[k] <= removed[k] + 1

Holds(dir, name, data) ==
  LET n == lookup(dir, name)
  IN n # None /\ tree[n].kind = "file" /\ tree[n].data = data

\* rename copies the file and removes the old name last: while one process
\* works alone, and whichever of its steps fails, the contents are under the
\* old name or whole under the new one from the first change to the return.
\* The two must be different entries: rename_paths compares the paths as text,
\* and a file renamed onto itself through a linked directory is removed.
RenameKeepsContents ==
  \A p \in Proc :
    LET c == pathCall[p]
    IN (/\ c.at \in {"replace", "make", "fill", "unlink", "done"}
        /\ <<c.odir, c.oname>> # <<c.ndir, c.nname>>)
       => \/ Holds(c.odir, c.oname, c.data)
          \/ Holds(c.ndir, c.nname, c.data)
=============================================================================
