------------------------------- MODULE Creds -------------------------------
(***************************************************************************)
(* Identities and permissions: arch/x86_64/linux/cred.rs (the six ids of a *)
(* process and the rules for changing them), the set*id calls of misc.rs,  *)
(* and the checks io_sys.rs makes at the edge of the system calls (chmod,  *)
(* chown, creation, removal, stat), for one file of an ext2 disk           *)
(* and a few processes.  An id of None stands for the argument -1, a mode  *)
(* is the set of <<class, access>> pairs it grants.                        *)
(***************************************************************************)
EXTENDS Integers, FiniteSets

CONSTANTS
  CredProc,         \* processes; the first is there at first, as root
  CredUid, CredGid,         \* ids, 0 among them
  Mode,             \* modes the processes ask for
  DirMode,          \* the mode of the directory the file is in
  Umask,            \* the pairs the creation mask takes away
  MaxCredOps        \* bound on the calls made

VARIABLES
  creds,            \* [CredProc -> ids, or Absent]
  inode,            \* the file: owner and mode, or Missing
  mode_overrides,   \* [CredProc -> {the mode recorded for the inode}, or {}]
  owned,            \* [CredProc -> uids it had when it gave up root, or {}]
  credOps

credVars == <<creds, inode, mode_overrides, owned, credOps>>

None == -1
Missing == [there |-> FALSE]
Absent == [uid |-> None]
ROOT == [uid |-> 0, gid |-> 0, euid |-> 0, egid |-> 0, suid |-> 0, sgid |-> 0]

Alive(p) == creds[p] # Absent
Or(id, old) == IF id = None THEN old ELSE id

\* Creds::may: root needs some execute bit, and passes the rest
may(c, mode, owner, access) ==
  IF c.euid = 0
  THEN access \in {"r", "w"} \/ \E cl \in {"u", "g", "o"} : <<cl, "x">> \in mode
  ELSE LET cl == IF c.euid = owner.uid THEN "u"
                 ELSE IF c.egid = owner.gid THEN "g" ELSE "o"
       IN <<cl, access>> \in mode

may_chmod(c, owner) == c.euid \in {0, owner.uid}
may_chown(c) == c.euid = 0

(***************************************************************************)
(* The rules for changing ids: the set of credentials a call can end with  *)
(***************************************************************************)
setuid(c, id) ==
  IF c.euid = 0 THEN {[c EXCEPT !.uid = id, !.euid = id, !.suid = id]}
  ELSE IF id \in {c.uid, c.suid} THEN {[c EXCEPT !.euid = id, !.suid = id]}
  ELSE {}

setgid(c, id) ==
  IF c.euid = 0 THEN {[c EXCEPT !.gid = id, !.egid = id, !.sgid = id]}
  ELSE IF id \in {c.gid, c.sgid} THEN {[c EXCEPT !.egid = id, !.sgid = id]}
  ELSE {}

\* Mutant: the new effective id is not checked against the old ones
SetreuidAny(c, uid, euid) ==
  IF c.euid # 0 /\ uid \notin {None, c.uid, c.suid} THEN {}
  ELSE {[c EXCEPT !.uid = Or(uid, @), !.euid = Or(euid, @),
                  !.suid = Or(euid, c.euid)]}
setreuid(c, uid, euid) ==
  LET e == Or(euid, c.euid)
      u == Or(uid, c.uid)
  IN IF c.euid # 0 /\ ~( /\ uid \in {None, c.uid, c.suid}
                         /\ euid \in {None, c.uid, c.euid, c.suid})
     THEN {}
     ELSE {[c EXCEPT !.uid = u, !.euid = e,
                     !.suid = IF uid # None \/ (euid # None /\ e # u) THEN e
                              ELSE @]}

setregid(c, gid, egid) ==
  LET e == Or(egid, c.egid)
      g == Or(gid, c.gid)
  IN IF c.euid # 0 /\ ~( /\ gid \in {None, c.gid, c.sgid}
                         /\ egid \in {None, c.gid, c.egid, c.sgid})
     THEN {}
     ELSE {[c EXCEPT !.gid = g, !.egid = e,
                     !.sgid = IF gid # None \/ (egid # None /\ e # g) THEN e
                              ELSE @]}

setresuid(c, uid, euid, suid) ==
  IF c.euid # 0 /\ ~({uid, euid, suid} \subseteq {None, c.uid, c.euid, c.suid})
  THEN {}
  ELSE {[c EXCEPT !.uid = Or(uid, @), !.euid = Or(euid, @), !.suid = Or(suid, @)]}

setresgid(c, gid, egid, sgid) ==
  IF c.euid # 0 /\ ~({gid, egid, sgid} \subseteq {None, c.gid, c.egid, c.sgid})
  THEN {}
  ELSE {[c EXCEPT !.gid = Or(gid, @), !.egid = Or(egid, @), !.sgid = Or(sgid, @)]}

CredCall(p) == Alive(p) /\ credOps < MaxCredOps /\ credOps' = credOps + 1

Uids(c) == {c.uid, c.euid, c.suid}

\* what a process can still become is settled when it gives up root
Settled(p, c) == IF owned[p] = {} /\ 0 \notin Uids(c) THEN Uids(c) ELSE owned[p]

commit_creds(p, allowed) ==
  /\ CredCall(p)
  /\ \E c \in allowed : /\ creds' = [creds EXCEPT ![p] = c]
                        /\ owned' = [owned EXCEPT ![p] = Settled(p, c)]
  /\ UNCHANGED <<inode, mode_overrides>>

sys_setuid(p) == \E id \in CredUid : commit_creds(p, setuid(creds[p], id))
sys_setgid(p) == \E id \in CredGid : commit_creds(p, setgid(creds[p], id))
sys_setreuid(p) ==
  \E u, e \in CredUid \cup {None} : commit_creds(p, setreuid(creds[p], u, e))
sys_setregid(p) ==
  \E g, e \in CredGid \cup {None} : commit_creds(p, setregid(creds[p], g, e))
sys_setresuid(p) ==
  \E u, e, s \in CredUid \cup {None} : commit_creds(p, setresuid(creds[p], u, e, s))
sys_setresgid(p) ==
  \E g, e, s \in CredGid \cup {None} : commit_creds(p, setresgid(creds[p], g, e, s))

\* fork copies the whole state of the process
fork(p, q) ==
  /\ CredCall(p) /\ ~Alive(q)
  /\ creds' = [creds EXCEPT ![q] = creds[p]]
  /\ mode_overrides' = [mode_overrides EXCEPT ![q] = mode_overrides[p]]
  /\ owned' = [owned EXCEPT ![q] = owned[p]]
  /\ UNCHANGED inode

(***************************************************************************)
(* The checks of io_sys.rs                                                 *)
(***************************************************************************)
\* apply_node_mode writes the inode and records the override as well
apply_node_mode(p, mode) ==
  /\ inode' = [inode EXCEPT !.mode = mode]
  /\ mode_overrides' = [mode_overrides EXCEPT ![p] = {mode}]

sys_chmod(p, mode) ==
  /\ CredCall(p) /\ inode.there /\ may_chmod(creds[p], inode.owner)
  /\ apply_node_mode(p, mode)
  /\ UNCHANGED <<creds, owned>>

sys_chown(p, uid, gid) ==
  /\ CredCall(p) /\ inode.there /\ may_chown(creds[p])
  /\ inode' = [inode EXCEPT !.owner = [uid |-> Or(uid, @.uid), gid |-> Or(gid, @.gid)]]
  /\ UNCHANGED <<creds, mode_overrides, owned>>

\* check_dir_mutation on the directory of the file, which root owns
check_dir_mutation(p) ==
  \A a \in {"w", "x"} : may(creds[p], DirMode, [uid |-> 0, gid |-> 0], a)

\* the override first, the inode only where there is none
stat_mode_for(p) == IF mode_overrides[p] = {} THEN {inode.mode} ELSE mode_overrides[p]

\* stamp_creation_owner and the mode of a file that open makes
create_file(p, requested) ==
  /\ CredCall(p) /\ ~inode.there /\ check_dir_mutation(p)
  /\ inode' = [there |-> TRUE, mode |-> requested \ Umask,
               owner |-> [uid |-> creds[p].euid, gid |-> creds[p].egid]]
  /\ mode_overrides' = [mode_overrides EXCEPT ![p] = {requested \ Umask}]
  /\ UNCHANGED <<creds, owned>>

\* the number of the inode is free for the next file
sys_unlink(p) ==
  /\ CredCall(p) /\ inode.there /\ check_dir_mutation(p)
  /\ inode' = Missing
  /\ UNCHANGED <<creds, mode_overrides, owned>>

CredInit ==
  /\ creds = [p \in CredProc |-> IF p = 1 THEN ROOT ELSE Absent]
  /\ inode = Missing
  /\ mode_overrides = [p \in CredProc |-> {}]
  /\ owned = [p \in CredProc |-> {}]
  /\ credOps = 0

CredNext ==
  \E p \in CredProc :
    \/ sys_setuid(p)
    \/ sys_setgid(p)
    \/ sys_setreuid(p)
    \/ sys_setregid(p)
    \/ sys_setresuid(p)
    \/ sys_setresgid(p)
    \/ \E q \in CredProc : fork(p, q)
    \/ \E m \in Mode : sys_chmod(p, m) \/ create_file(p, m)
    \/ \E u \in CredUid \cup {None}, g \in CredGid \cup {None} : sys_chown(p, u, g)
    \/ sys_unlink(p)

CredSpec == CredInit /\ [][CredNext]_credVars

(***************************************************************************)
(* Properties                                                              *)
(***************************************************************************)

\* Whatever chain of set*id calls and forks follows, a process none of whose
\* three user ids is 0 any more never has a user id again other than the ones
\* it had when the last 0 went: the saved id is a way back only while it is
\* kept.
GivenUpForGood ==
  \A p \in CredProc : owned[p] # {} => Uids(creds[p]) \subseteq owned[p]

\* stat_mode_for (io_sys.rs): "real files answer from their inode, which is
\* what the permission checks use, so stat can no longer disagree with
\* access"; what stat reports to a process is the mode of the inode.
StatAgreesWithAccess ==
  \A p \in CredProc : Alive(p) /\ inode.there => stat_mode_for(p) = {inode.mode}
=============================================================================
