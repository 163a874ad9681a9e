-------------------------------- MODULE Apt ---------------------------------
(***************************************************************************)
(* apt: update binds an index to a signed Release, install plans a         *)
(* transaction over that index and binds every .deb to it. The shell runs  *)
(* one command at a time; while it does, mirrors are being synchronised,   *)
(* so every request may be answered from any snapshot the mirror has, with *)
(* a damaged body, or not at all. A digest is the bytes it was made of; a  *)
(* signature is the text that was signed (OpenPgp.tla has its checking).   *)
(***************************************************************************)
EXTENDS PackageIndex

CONSTANTS
    Graphs, Heads,              \* dependencies and headers the archive may publish
    MAX_RELEASE_LINES, MAX_RELEASE_ENTRIES, MAX_SKEW,
    MaxNow, MaxCommands

VARIABLES
    mirrors,    \* host -> the snapshots it has
    cfg,        \* CONFIG: host and suite
    index,      \* INDEX: <<>> or <<[records, tables, basis]>>
    installed,  \* INSTALLED
    wallClock,
    apt,        \* the command being run
    unpacked,   \* everything written to /mnt so far, in order
    commands

aptVars == <<mirrors, cfg, index, installed, wallClock, apt, unpacked, commands>>

AptIdle == [op |-> "idle"]
NoMirrors == [h \in {} |-> {}]

Init ==
    /\ mirrors = NoMirrors
    /\ cfg = [host |-> "a", suite |-> "stable"]
    /\ index = <<>> /\ installed = {} /\ wallClock = 0
    /\ apt = AptIdle /\ unpacked = <<>> /\ commands = 0

\* what a request for one of the bodies may be answered with
Replies(bodies) ==
    {[kind |-> "body", body |-> b] : b \in bodies}
        \cup {[kind |-> k] : k \in {"404", "NoNetwork", "error"}}

\* what the archive publishes: a Release, the index it lists and the revision of the .debs
Date(at) == [kind |-> IF at < 0 THEN "Malformed" ELSE "Parsed", at |-> at]
Snapshot(rev, head, depends) ==
    LET stanza(p) == [package |-> p, depends |-> depends[p], provides |-> IF p = 1 THEN <<>> ELSE <<4>>,
                      filename |-> "deb", size |-> 1,
                      sha256 |-> IF p = head.bare THEN <<>> ELSE <<[pkg |-> p, rev |-> rev]>>]
        records == <<stanza(1), stanza(2), stanza(3)>>
        entry(path, digest) ==
            [key |-> "entry", value |-> [path |-> path, digest |-> digest, size |-> 3]]
    IN  [rev |-> rev, suite |-> head.suite, from |-> head.date, until |-> head.until,
         records |-> records,
         text |-> <<[key |-> "Suite", value |-> head.suite],
                    [key |-> "Date", value |-> Date(head.date)],
                    [key |-> "Valid-Until", value |-> Date(head.until)],
                    [key |-> "Architectures", value |-> {"amd64", "arm64"}],
                    [key |-> "MD5Sum"], entry("Packages.gz", <<>>),
                    [key |-> "SHA256"], entry("Packages.gz", records), entry("Packages", records),
                    [key |-> "SHA512"], entry("Packages.xz", <<>>)>>]

Publish ==
    /\ mirrors = NoMirrors
    /\ \E head \in Heads, depends \in Graphs :
        LET old == Snapshot(1, [suite |-> "stable", date |-> 0, until |-> 1, bare |-> 0], depends)
        IN  mirrors' = [a |-> {old, Snapshot(2, head, depends)}, b |-> {old}]
    /\ UNCHANGED <<cfg, index, installed, wallClock, apt, unpacked, commands>>

Tick ==
    /\ wallClock < MaxNow /\ apt = AptIdle /\ mirrors # NoMirrors
    /\ wallClock' = wallClock + 1
    /\ UNCHANGED <<mirrors, cfg, index, installed, apt, unpacked, commands>>

Command == apt = AptIdle /\ mirrors # NoMirrors /\ commands < MaxCommands /\ commands' = commands + 1

set_mirror ==
    /\ Command
    /\ \E h \in DOMAIN mirrors \ {cfg.host} : cfg' = [cfg EXCEPT !.host = h]
    /\ UNCHANGED <<mirrors, index, installed, wallClock, apt, unpacked>>

set_suite ==
    /\ Command
    /\ \E s \in {"stable", "testing"} \ {cfg.suite} : cfg' = [cfg EXCEPT !.suite = s]
    /\ UNCHANGED <<mirrors, index, installed, wallClock, apt, unpacked>>

-----------------------------------------------------------------------------
\* parse_release: a list of digests belongs to the header before it
parse_release(text) ==
    LET none == [kind |-> "Absent", at |-> 0]
        empty == [truncated |-> Len(text) > MAX_RELEASE_LINES, names |-> {}, date |-> none,
                  valid_until |-> none, architectures |-> {}, sha256 |-> <<>>, in_sha256 |-> FALSE]
        line(r, l) ==
            CASE l.key = "entry" ->
                    IF r.in_sha256 /\ Len(r.sha256) < MAX_RELEASE_ENTRIES
                    THEN [r EXCEPT !.sha256 = Append(@, l.value)] ELSE r
              [] l.key \in {"Suite", "Codename"} -> [r EXCEPT !.in_sha256 = FALSE, !.names = @ \cup {l.value}]
              [] l.key = "Date" -> [r EXCEPT !.in_sha256 = FALSE, !.date = l.value]
              [] l.key = "Valid-Until" -> [r EXCEPT !.in_sha256 = FALSE, !.valid_until = l.value]
              [] l.key = "Architectures" -> [r EXCEPT !.in_sha256 = FALSE, !.architectures = l.value]
              [] OTHER -> [r EXCEPT !.in_sha256 = (l.key = "SHA256")]
    IN  FoldLeft(line, empty, SubSeq(text, 1, IF Len(text) < MAX_RELEASE_LINES
                                              THEN Len(text) ELSE MAX_RELEASE_LINES))

\* sha256_for: the first entry of that path
sha256_for(release, path) ==
    SelectSeq(release.sha256, LAMBDA e : e.path = path)

matches_suite(release, suite) == release.names = {} \/ suite \in release.names

check_release_policy(c, release, now) ==
    /\ ~release.truncated
    /\ matches_suite(release, c.suite)
    /\ release.architectures = {} \/ release.architectures \cap {"amd64", "all"} # {}
    /\ release.date.kind # "Malformed" /\ release.date.at <= now + MAX_SKEW
    /\ release.valid_until.kind # "Malformed"
    /\ release.valid_until.kind = "Parsed" => now <= release.valid_until.at

verify_index_body(body, entry) == body.size = entry.size /\ body.records = entry.digest

\* a mutant of verify_package_body: the digest of another revision is accepted
SamePackage(body, stanza) == body.size = stanza.size /\ body.pkg = stanza.package
verify_package_body(body, stanza) ==
    body.size = stanza.size /\ <<[pkg |-> body.pkg, rev |-> body.rev]>> = stanza.sha256

\* fetch_signed_release: a text some signature is about, or nothing. A clear-signed
\* document that does not verify is not made up for by the detached signature.
fetch_signed_release(inrelease, gpg, release) ==
    CASE inrelease.kind = "body" ->
            IF inrelease.body.sig = inrelease.body.text THEN <<inrelease.body.text>> ELSE <<>>
      [] inrelease.kind = "NoNetwork" -> <<>>
      [] OTHER -> IF gpg.kind = "body" /\ release.kind = "body" /\ gpg.body = release.body
                  THEN <<release.body>> ELSE <<>>

Served == mirrors[apt.cfg.host]
Candidates == <<"Packages.gz", "Packages.xz", "Packages">>

update ==
    /\ Command
    /\ apt' = [op |-> "release", cfg |-> cfg, now |-> wallClock]
    /\ UNCHANGED <<mirrors, cfg, index, installed, wallClock, unpacked>>

\* update clears INDEX whatever update_verified failed with
UpdateFails == apt' = AptIdle /\ index' = <<>>

\* update_verified up to the policy checks
ReleaseFetched ==
    /\ apt.op = "release"
    /\ LET texts == {s.text : s \in Served}
           documents == {[text |-> t, sig |-> t] : t \in texts}
                            \cup {[text |-> Front(t), sig |-> t] : t \in texts}
       IN  \E text \in {fetch_signed_release(inrelease, gpg, release) : inrelease \in Replies(documents),
                            gpg \in Replies(texts), release \in Replies(texts)} :
           LET parsed == parse_release(text[1]) IN
           IF text = <<>> \/ ~check_release_policy(apt.cfg, parsed, apt.now) THEN UpdateFails
           ELSE /\ apt' = [op |-> "index", cfg |-> apt.cfg, now |-> apt.now, release |-> parsed,
                           text |-> text[1], left |-> Candidates]
                /\ UNCHANGED index
    /\ UNCHANGED <<mirrors, cfg, installed, wallClock, unpacked, commands>>

\* the loop of update_verified: one variant of the index; decoding may still fail
IndexFetched ==
    /\ apt.op = "index"
    /\ IF apt.left = <<>> THEN UpdateFails
       ELSE LET entry == sha256_for(apt.release, Head(apt.left))
                next == [apt EXCEPT !.left = Tail(@)]
            IN  IF entry = <<>> THEN apt' = next /\ UNCHANGED index
                ELSE \E reply \in Replies({[records |-> s.records, size |-> 3] : s \in Served}
                               \cup {[records |-> <<>>, size |-> n] : n \in {2, 3}}),
                        decodes \in BOOLEAN :
                     CASE reply.kind = "NoNetwork" -> UpdateFails
                       [] reply.kind # "body" -> apt' = next /\ UNCHANGED index
                       [] ~verify_index_body(reply.body, entry[1]) -> UpdateFails
                       [] ~decodes -> apt' = next /\ UNCHANGED index
                       [] OTHER -> /\ index' = <<[tables |-> finish(reply.body.records),
                                                  basis |-> [text |-> apt.text, suite |-> apt.cfg.suite,
                                                             now |-> apt.now]]>>
                                   /\ apt' = AptIdle
    /\ UNCHANGED <<mirrors, cfg, installed, wallClock, unpacked, commands>>

-----------------------------------------------------------------------------
\* choose_alternative: one that is installed, else the first the index has
choose_alternative(idx, alts, already) ==
    LET here == SelectSeq(alts, LAMBDA a : a \in already)
        known == SelectSeq(alts, LAMBDA a : contains(idx, a))
    IN  SubSeq(here \o known, 1, IF here \o known = <<>> THEN 0 ELSE 1)

\* enter: resolve a name and push the frame of its package, unless it is being visited,
\* was visited or is installed
enter(idx, v, name, already) ==
    LET r == get_provider(idx, name)
        real == idx.records[r].package
        chosen == FlattenSeq([g \in DOMAIN idx.records[r].depends |->
                                choose_alternative(idx, idx.records[r].depends[g], already)])
    IN  IF r = 0 THEN v
        ELSE IF real \in already \cup v.visited \cup v.on_stack THEN v
        ELSE [v EXCEPT !.on_stack = @ \cup {real},
                       !.stack = Append(@, [real |-> real,
                                            deps |-> SelectSeq(chosen, LAMBDA d : d \notin already)])]

\* a mutant of popped: a package is ordered when its first dependency is
PoppedEarly(v) ==
    LET real == Head(v.stack).real IN
    [v EXCEPT !.stack = Front(@), !.on_stack = @ \ {Last(v.stack).real},
              !.visited = @ \cup {real},
              !.order = IF real \in v.visited THEN @ ELSE Append(@, real)]
\* a frame without dependencies left: its package is next in the order
popped(v) ==
    LET real == Last(v.stack).real IN
    [v EXCEPT !.stack = Front(@), !.on_stack = @ \ {real},
              !.visited = @ \cup {real},
              !.order = IF real \in v.visited THEN @ ELSE Append(@, real)]

\* visit: depth first with the frames on an explicit stack
RECURSIVE visit(_, _, _)
visit(idx, v, already) ==
    IF v.stack = <<>> THEN v.order
    ELSE LET top == Last(v.stack)
             below == [v EXCEPT !.stack = Append(Front(@), [top EXCEPT !.deps = Tail(@)])]
         IN  IF top.deps = <<>> THEN visit(idx, popped(v), already)
             ELSE visit(idx, enter(idx, below, Head(top.deps), already), already)

resolve_install(idx, target, already) ==
    IF target \in already \/ ~contains(idx, target) THEN <<>>
    ELSE visit(idx, enter(idx, [stack |-> <<>>, on_stack |-> {}, visited |-> {}, order |-> <<>>],
                          target, already), already)

\* install: the plan over the index as it is now
install ==
    /\ Command /\ index # <<>>
    /\ \E name \in 1 .. 4 :
        LET idx == index[1].tables
            plan == resolve_install(idx, name, installed)
        IN  /\ plan # <<>>
            /\ apt' = [op |-> "install", cfg |-> cfg, idx |-> index[1],
                       targets |-> [k \in DOMAIN plan |-> idx.records[get_provider(idx, plan[k])]]]
    /\ UNCHANGED <<mirrors, cfg, index, installed, wallClock, unpacked>>

\* the .debs of a snapshot, and one that was damaged on the way
Debs(s) ==
    {[pkg |-> r.package, rev |-> s.rev, size |-> 1] : r \in Range(s.records)}
        \cup {[pkg |-> r.package, rev |-> 0, size |-> 1] : r \in Range(s.records)}

\* the loop of install: fetch, verify and unpack one package. Unpacking (Install.tla)
\* may fail; the packages before it stay installed.
TargetInstalled ==
    /\ apt.op = "install"
    /\ LET t == Head(apt.targets) IN
       IF t.filename = "" \/ t.sha256 = <<>>
       THEN apt' = AptIdle /\ UNCHANGED <<installed, unpacked>>
       ELSE \E reply \in Replies({d \in UNION {Debs(s) : s \in Served} : d.pkg = t.package}),
               unpacks \in BOOLEAN :
            IF reply.kind # "body" \/ ~unpacks
            THEN apt' = AptIdle /\ UNCHANGED <<installed, unpacked>>
            ELSE IF ~verify_package_body(reply.body, t)
            THEN apt' = AptIdle /\ UNCHANGED <<installed, unpacked>>
            ELSE /\ installed' = installed \cup {t.package}
                 /\ unpacked' = Append(unpacked, [body |-> reply.body, idx |-> apt.idx])
                 /\ apt' = IF Len(apt.targets) = 1 THEN AptIdle
                           ELSE [apt EXCEPT !.targets = Tail(@)]
    /\ UNCHANGED <<mirrors, cfg, index, wallClock, commands>>

Next ==
    \/ Publish \/ Tick \/ set_mirror \/ set_suite
    \/ update \/ ReleaseFetched \/ IndexFetched
    \/ install \/ TargetInstalled

-----------------------------------------------------------------------------
\* Whatever mirrors answer and whenever they change, every package on disk is one that a
\* snapshot of the archive published, found through an index that the signed Release of
\* that snapshot lists; and when that index was accepted, the Release was in force and of
\* the suite asked for (fetch_signed_release, check_release_policy, verify_index_body,
\* verify_package_body).
OnlyPublished ==
    \A k \in DOMAIN unpacked :
        LET u == unpacked[k] IN
        \E h \in DOMAIN mirrors : \E s \in mirrors[h] :
            /\ s.text = u.idx.basis.text /\ s.records = u.idx.tables.records
            /\ u.body.rev = s.rev
            /\ s.suite = u.idx.basis.suite
            /\ s.from <= u.idx.basis.now + MAX_SKEW /\ u.idx.basis.now <= s.until

\* the packages that members of S lead to through their dependencies
RECURSIVE Needs(_, _)
Needs(idx, S) ==
    LET names == UNION {UNION {Range(d[g]) : g \in DOMAIN d} :
                            d \in {idx.records[get(idx, p)].depends : p \in S}}
        more == S \cup {idx.records[get_provider(idx, n)].package :
                            n \in {m \in names : contains(idx, m)}}
    IN  IF more = S THEN S ELSE Needs(idx, more)

\* Packages are unpacked dependencies first, over all commands, failures and new indexes:
\* when a package is unpacked, each group of its dependencies that the index can satisfy
\* has an alternative unpacked before it, unless that alternative itself depends on the
\* package (resolve_install, and install, which remembers what was installed before).
DependenciesFirst ==
    \A k \in DOMAIN unpacked :
        LET idx == unpacked[k].idx.tables
            pkg == unpacked[k].body.pkg
            before == {unpacked[j].body.pkg : j \in 1 .. k - 1}
            depends == idx.records[get(idx, pkg)].depends
        IN  \A g \in DOMAIN depends :
                LET reals == {idx.records[get_provider(idx, depends[g][a])].package :
                                a \in {b \in DOMAIN depends[g] : contains(idx, depends[g][b])}}
                IN  \/ reals = {}
                    \/ \E q \in reals : q \in before \/ pkg \in Needs(idx, {q})
============================================================================
