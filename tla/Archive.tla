------------------------------ MODULE Archive -------------------------------
(***************************************************************************)
(* From the bytes of a .deb to the entries of its data.tar: the ar         *)
(* container, the choice of members, the capped decompression and the tar  *)
(* reader, against the writer of the same repository. Characters are their *)
(* codes; a tar archive is a sequence of blocks of BLOCK bytes, a header   *)
(* block being a record, and an ar archive a sequence of cells whose       *)
(* headers take one cell each. A compressed payload is one cell, after the *)
(* fields of its gzip header if it has one.                                *)
(***************************************************************************)
EXTENDS Integers, Sequences, FiniteSets, SequencesExt

CONSTANTS
    TarPaths, TarContents,          \* what members are made of
    NAME_MAX, PREFIX_MAX, BLOCK,    \* sizes of the header fields and of a block
    MAX_DECOMPRESSED, MaxMembers

VARIABLES
    packed,     \* the members that were packed, <<>> before that
    deb,        \* the bytes that arrived
    intact,     \* all of them did, and the data is within the limit
    unpackedAs  \* what parse_ar .. read_tar made of them

archiveVars == <<packed, deb, intact, unpackedAs>>

Slash == 47
NUL == 0
Nothing == [result |-> "none", entries |-> <<>>]
Refused == [result |-> "error", entries |-> <<>>]

Init == packed = <<>> /\ deb = <<>> /\ intact = FALSE /\ unpackedAs = Nothing

-----------------------------------------------------------------------------
\* tar.rs, the writer

Blocks(n) == (n + BLOCK - 1) \div BLOCK
append_padded(data) ==
    [b \in 1 .. Blocks(Len(data)) |->
        [block |-> "data", bytes |-> [i \in 1 .. BLOCK |->
            IF (b - 1) * BLOCK + i <= Len(data) THEN data[(b - 1) * BLOCK + i] ELSE NUL]]]

\* write_common and sign_header: fields longer than their place are cut off
Header(flag, name, prefix, link, size) ==
    LET cut(s, n) == SubSeq(s, 1, IF Len(s) > n THEN n ELSE Len(s)) IN
    [block |-> "header", flag |-> flag, size |-> size, prefix |-> cut(prefix, PREFIX_MAX),
     name |-> cut(name, NAME_MAX), link |-> cut(link, NAME_MAX)]

\* long_path_split: at the last slash, if both parts fit
long_path_split(path, format) ==
    LET cuts == {i \in DOMAIN path : path[i] = Slash}
        at == CHOOSE i \in cuts : \A j \in cuts : j <= i
    IN  IF format = "GnuLongName" \/ cuts = {} THEN <<>>
        ELSE IF at = Len(path) \/ Len(path) - at > NAME_MAX \/ at - 1 > PREFIX_MAX THEN <<>>
        ELSE <<[prefix |-> SubSeq(path, 1, at - 1), name |-> SubSeq(path, at + 1, Len(path))]>>

LongLink(flag, name) ==
    <<Header(flag, <<>>, <<>>, <<>>, Len(name) + 1)>> \o append_padded(Append(name, NUL))

\* one member of write_tar_members
Written(m, format) ==
    LET long == Len(m.path) > NAME_MAX
        split == IF long THEN long_path_split(m.path, format) ELSE <<>>
        name == IF split # <<>> THEN split[1].name ELSE m.path
        prefix == IF split # <<>> THEN split[1].prefix ELSE <<>>
    IN  (IF long /\ split = <<>> THEN LongLink("L", m.path) ELSE <<>>)
        \o (IF Len(m.target) > NAME_MAX THEN LongLink("K", m.target) ELSE <<>>)
        \o <<Header(m.flag, name, prefix, m.target, Len(m.content))>>
        \o append_padded(m.content)

\* a writer of the pax format (external): long names are records of an "x" header, a
\* record being its length, its key (1: path, 2: linkpath), the value and a line feed
PaxRecord(key, value) == <<Len(value) + 3, key>> \o value \o <<10>>
PaxWritten(m) ==
    LET records == (IF Len(m.path) > NAME_MAX THEN PaxRecord(1, m.path) ELSE <<>>)
                       \o (IF Len(m.target) > NAME_MAX THEN PaxRecord(2, m.target) ELSE <<>>)
    IN  (IF records # <<>> THEN <<Header("x", <<>>, <<>>, <<>>, Len(records))>> \o append_padded(records)
         ELSE <<>>)
        \o <<Header(m.flag, m.path, <<>>, m.target, Len(m.content))>> \o append_padded(m.content)

\* the same with the link target of the first member in a "g" header (external): only a
\* link elsewhere has a record of its own
PaxGlobal(ms) ==
    LET shared == ms[1].target
        own(m) == IF m.target \in {<<>>, shared} THEN <<>> ELSE PaxRecord(2, m.target)
        long(m) == IF Len(m.path) > NAME_MAX THEN PaxRecord(1, m.path) ELSE <<>>
        extension(flag, records) ==
            IF records = <<>> THEN <<>>
            ELSE <<Header(flag, <<>>, <<>>, <<>>, Len(records))>> \o append_padded(records)
    IN  extension("g", IF shared = <<>> THEN <<>> ELSE PaxRecord(2, shared))
        \o FlattenSeq([k \in DOMAIN ms |->
            extension("x", long(ms[k]) \o own(ms[k]))
            \o <<Header(ms[k].flag, ms[k].path, <<>>, <<>>, Len(ms[k].content))>>
            \o append_padded(ms[k].content)])

write_tar_members(ms, format) ==
    (IF format = "pax global" THEN PaxGlobal(ms)
     ELSE FlattenSeq([k \in DOMAIN ms |->
            IF format = "pax" THEN PaxWritten(ms[k]) ELSE Written(ms[k], format)]))
        \o <<[block |-> "zero"], [block |-> "zero"]>>

-----------------------------------------------------------------------------
\* tar.rs, the reader

nul_trim(field) ==
    SubSeq(field, 1, CHOOSE n \in 0 .. Len(field) :
        (n = 0 \/ field[n] # NUL) /\ \A i \in n + 1 .. Len(field) : field[i] = NUL)

\* parse_pax_records: path and linkpath, each absent or one value
RECURSIVE parse_pax_records(_, _, _)
parse_pax_records(content, pos, found) ==
    IF pos > Len(content) THEN found
    ELSE IF content[pos] = NUL THEN parse_pax_records(content, pos + 1, found)
    ELSE parse_pax_records(content, pos + content[pos],
            [found EXCEPT ![content[pos + 1]] = <<SubSeq(content, pos + 2, pos + content[pos] - 2)>>])

\* effective_path: the prefix of the header goes before the path
effective_path(e) == IF e.prefix = <<>> THEN e.path ELSE e.prefix \o <<Slash>> \o e.path

\* read_tar from a block on: a name or link of an extension header is used up by the
\* next entry, one of a global header stays; ctx has next_path and next_link, global those
RECURSIVE read_tar(_, _, _, _, _)
read_tar(buf, off, ctx, global, entries) ==
    LET h == buf[off]
        blocks == SubSeq(buf, off + 1, off + Blocks(h.size))
        content == SubSeq(FlattenSeq([k \in DOMAIN blocks |-> blocks[k].bytes]), 1, h.size)
        next == off + 1 + Blocks(h.size)
        or(k, field) ==
            IF ctx[k] # <<>> THEN ctx[k][1] ELSE IF global[k] # <<>> THEN global[k][1] ELSE field
        entry == [flag |-> h.flag, prefix |-> h.prefix, content |-> content,
                  path |-> or(1, h.name),
                  target |-> IF h.flag \notin {"1", "2"} THEN <<>> ELSE or(2, h.link)]
    IN  IF off > Len(buf) THEN [result |-> "ok", entries |-> entries]
        ELSE IF h.block = "zero" THEN [result |-> "ok", entries |-> entries]
        ELSE IF h.block # "header" THEN Refused
        ELSE IF next - 1 > Len(buf) THEN Refused
        ELSE CASE h.flag = "L" -> read_tar(buf, next, [ctx EXCEPT ![1] = <<nul_trim(content)>>], global, entries)
               [] h.flag = "K" -> read_tar(buf, next, [ctx EXCEPT ![2] = <<nul_trim(content)>>], global, entries)
               [] h.flag = "x" -> read_tar(buf, next, parse_pax_records(content, 1, ctx), global, entries)
               [] h.flag = "g" -> read_tar(buf, next, ctx, parse_pax_records(content, 1, global), entries)
               [] OTHER -> read_tar(buf, next, <<<<>>, <<>>>>, global, Append(entries, entry))

-----------------------------------------------------------------------------
\* deb.rs. An ar archive as dpkg-deb writes it: members of odd length are padded
ArMember(name, data) ==
    <<[ar |-> name, size |-> Len(data)]>> \o data \o (IF Len(data) % 2 = 1 THEN <<[ar |-> "pad"]>> ELSE <<>>)
\* a gzip writer (external): the fixed part of the header, then the fields its flags announce
Cell(v) == [ar |-> "byte", of |-> v]
GzipHeader(flags) ==
    <<[ar |-> "gzip", of |-> flags]>>
        \o (IF "FEXTRA" \in flags THEN <<Cell(1), Cell(97)>> ELSE <<>>)
        \o (IF "FNAME" \in flags THEN <<Cell(97), Cell(NUL)>> ELSE <<>>)
        \o (IF "FCOMMENT" \in flags THEN <<Cell(NUL)>> ELSE <<>>)
        \o (IF "FHCRC" \in flags THEN <<Cell(97)>> ELSE <<>>)
GzipFlags == {"FEXTRA", "FNAME", "FCOMMENT", "FHCRC"}
DataNames == {"data.tar", "data.tar.xz", "data.tar.gz"}
Deb(suffix, flags, tar) ==
    <<[ar |-> "magic"]>> \o ArMember("debian-binary", <<[ar |-> "2.0"]>>)
        \o ArMember("control.tar", <<[ar |-> "control"]>>)
        \o ArMember(suffix, IF suffix = "data.tar" THEN tar
                            ELSE (IF suffix = "data.tar.gz" THEN GzipHeader(flags) ELSE <<>>)
                                 \o <<[ar |-> "z", of |-> tar]>>)

\* a mutant of ar_next: no padding
NextUnpadded(end, size) == end
\* where the next header is
ar_next(end, size) == IF size % 2 = 1 THEN end + 1 ELSE end

\* parse_ar: the members, or <<>> for an error
RECURSIVE parse_ar(_, _, _)
parse_ar(buf, pos, members) ==
    IF pos > Len(buf) THEN members
    ELSE IF "size" \notin DOMAIN buf[pos] THEN <<>>
    ELSE LET end == pos + 1 + buf[pos].size IN
         IF end - 1 > Len(buf) THEN <<>>
         ELSE parse_ar(buf, ar_next(end, buf[pos].size),
                  Append(members, [name |-> buf[pos].ar, data |-> SubSeq(buf, pos + 1, end - 1)]))

\* locate_members: exactly one of each
locate_members(members) ==
    LET named(S) == SelectSeq(members, LAMBDA m : m.name \in S) IN
    IF /\ Len(named({"debian-binary"})) = 1 /\ Len(named({"control.tar"})) = 1
       /\ Len(named(DataNames)) = 1
    THEN named(DataNames) ELSE <<>>

\* skip_cstring: the cell after the next NUL; 0 is an error, here and below
skip_cstring(data, pos) ==
    LET ends == {i \in pos .. Len(data) : data[i].ar = "byte" /\ data[i].of = NUL}
    IN  IF pos = 0 \/ ends = {} THEN 0 ELSE 1 + CHOOSE i \in ends : \A j \in ends : i <= j
\* gzip_payload_offset: past the optional fields, in their order
gzip_payload_offset(data) ==
    LET flags == data[1].of
        extra == IF "FEXTRA" \notin flags THEN 2
                 ELSE IF Len(data) < 2 THEN 0 ELSE 3 + data[2].of
        name == IF "FNAME" \in flags THEN skip_cstring(data, extra) ELSE extra
        comment == IF "FCOMMENT" \in flags THEN skip_cstring(data, name) ELSE name
        pos == IF "FHCRC" \in flags /\ comment # 0 THEN comment + 1 ELSE comment
    IN  IF pos > Len(data) THEN 0 ELSE pos

\* compression_of and decompress_bytes_capped: all of it, or an error above the limit
decompress_data(m) ==
    LET at == IF m.name = "data.tar.gz" THEN gzip_payload_offset(m.data) ELSE 1
        out == IF m.name = "data.tar" THEN m.data ELSE m.data[at].of
    IN  IF at = 0 THEN <<>> ELSE IF Len(out) > MAX_DECOMPRESSED THEN <<>> ELSE <<out>>

\* the steps of apt::install from the downloaded bytes to the entries
unpack(buf) ==
    LET members == IF buf = <<>> THEN <<>> ELSE parse_ar(buf, 2, <<>>)
        data == locate_members(members)
        tar == decompress_data(data[1])
    IN  IF data = <<>> THEN Refused
        ELSE IF tar = <<>> THEN Refused
        ELSE read_tar(tar[1], 1, <<<<>>, <<>>>>, <<<<>>, <<>>>>, <<>>)

-----------------------------------------------------------------------------
Members ==
    {[flag |-> "0", path |-> p, content |-> c, target |-> <<>>] : p \in TarPaths, c \in TarContents}
        \cup {[flag |-> "2", path |-> p, content |-> <<>>, target |-> t] : p \in TarPaths, t \in TarPaths}

\* A package is built and its first n cells arrive
Arrive ==
    /\ packed = <<>>
    /\ \E k \in 1 .. MaxMembers : \E ms \in [1 .. k -> Members] :
       \E format \in {"UstarPrefix", "GnuLongName", "pax", "pax global"}, suffix \in DataNames :
       \E flags \in (IF suffix = "data.tar.gz" /\ k = 1 THEN SUBSET GzipFlags ELSE {{}}) :
        LET tar == write_tar_members(ms, format)
            whole == Deb(suffix, flags, tar)
        IN  /\ packed' = ms
            /\ \E n \in {0, 2, 4, 6} :
                /\ n < Len(whole) /\ deb' = SubSeq(whole, 1, Len(whole) - n)
                /\ intact' = (n = 0 /\ Len(tar) <= MAX_DECOMPRESSED)
    /\ UNCHANGED unpackedAs

Unpack ==
    /\ packed # <<>> /\ unpackedAs = Nothing
    /\ unpackedAs' = unpack(deb)
    /\ UNCHANGED <<packed, deb, intact>>

Next == Arrive \/ Unpack

-----------------------------------------------------------------------------
\* the components of a path, as normalize_entry_path sees them
Normal(path) == IF path # <<>> /\ path[1] = Slash THEN Tail(path) ELSE path

\* Unpacking a package gives back the members that were packed, in order and with their
\* full names, link targets and contents, whichever of the long-name formats was used.
\* A file that lost its end is never unpacked as a shorter package, and only such a file
\* or one above the limit is refused
\* (parse_ar, locate_members, decompress_bytes_capped, read_tar, write_tar_members).
ExactOrRefused ==
    /\ unpackedAs.result = "error" => ~intact
    /\ unpackedAs.result = "ok" =>
        LET es == unpackedAs.entries IN
        /\ Len(es) = Len(packed)
        /\ \A k \in DOMAIN es :
            /\ es[k].flag = packed[k].flag
            /\ Normal(effective_path(es[k])) = Normal(packed[k].path)
            /\ es[k].target = packed[k].target /\ es[k].content = packed[k].content
============================================================================
