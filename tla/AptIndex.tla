------------------------------ MODULE AptIndex ------------------------------
(***************************************************************************)
(* The streaming parser of a Packages file. The decompressor hands the     *)
(* text over in chunks that may end anywhere; StanzaParser keeps the       *)
(* unfinished line in carry and the unfinished stanza in its builder, and  *)
(* the index is built from the stanzas it emits. A text is a sequence of   *)
(* tokens: "nl", "cr", "sp" (a leading blank), keys ending in ":", the     *)
(* separators "," and "|", and the letters of names.                       *)
(***************************************************************************)
EXTENDS PackageIndex

CONSTANTS
    Lines,      \* the pieces a text is made of, without their line feed
    MaxLines,
    MAX_INDEX_STREAM_BYTES

VARIABLES
    text, pos,          \* the text that was compressed and how much of it was pushed
    decoding,           \* "no", "running", "ok" or "failed"
    carry, stanza,      \* StanzaParser: carry and builder
    emitted             \* the records of the PackageIndexBuilder

stanzaVars == <<text, pos, decoding, carry, stanza, emitted>>

Fields == {"Package:", "Depends:", "Pre-Depends:", "Provides:"}
Keys == Fields \cup {"Tag:"}
Letters == <<",", "|", "a", "b">>

\* the text of a sequence of lines; the last one need not be terminated
Joined(ls, terminated) ==
    FoldLeftDomain(LAMBDA t, i :
        t \o ls[i] \o (IF i < Len(ls) \/ terminated THEN <<"nl">> ELSE <<>>), <<>>, ls)
Texts ==
    {Joined(ls, terminated) : ls \in UNION {[1 .. n -> Lines] : n \in 1 .. MaxLines},
                              terminated \in BOOLEAN}

Cleared == [fields |-> [f \in Fields |-> <<>>], cur |-> "none", any |-> FALSE]

Init ==
    /\ text = <<>> /\ pos = 0 /\ decoding = "no"
    /\ carry = <<>> /\ stanza = Cleared /\ emitted = <<>>

-----------------------------------------------------------------------------
\* the place of a name in the byte order of names
Rank(name) == FoldLeft(LAMBDA n, c : 5 * n + CHOOSE k \in DOMAIN Letters : Letters[k] = c, 0, name)

\* split on a separator, leaving empty pieces out
Split(value, sep) ==
    LET cuts == {0, Len(value) + 1} \cup {i \in DOMAIN value : value[i] = sep}
        next(i) == CHOOSE j \in cuts : j > i /\ \A k \in cuts : k > i => j <= k
        starts == Ascending({i \in cuts : i <= Len(value) /\ next(i) > i + 1})
    IN  [k \in DOMAIN starts |-> SubSeq(value, starts[k] + 1, next(starts[k]) - 1)]

parse_depends(value) ==
    LET groups == Split(value, ",")
        alts(g) == [k \in DOMAIN Split(g, "|") |-> Rank(Split(g, "|")[k])]
    IN  SelectSeq([k \in DOMAIN groups |-> alts(groups[k])], LAMBDA g : g # <<>>)
parse_provides(value) == [k \in DOMAIN Split(value, ",") |-> Rank(Split(value, ",")[k])]

\* push_stanza: a stanza with a package name becomes a record
push_stanza(fields) ==
    IF fields["Package:"] = <<>> THEN <<>>
    ELSE <<[package |-> Rank(fields["Package:"]),
            depends |-> parse_depends(fields["Pre-Depends:"]) \o parse_depends(fields["Depends:"]),
            provides |-> parse_provides(fields["Provides:"])]>>

\* StanzaBuilder::feed
feed(b, line) ==
    IF Head(line) = "sp"
    THEN IF b.cur \in Fields THEN [b EXCEPT !.fields[b.cur] = @ \o Tail(line)] ELSE b
    ELSE IF Head(line) \notin Keys THEN b
    ELSE LET cur == Head(line) IN
         [fields |-> IF cur \in Fields THEN [b.fields EXCEPT ![cur] = Tail(line)] ELSE b.fields,
          cur |-> cur, any |-> TRUE]

\* process_line: a blank line ends the stanza
process_line(p, raw) ==
    LET line == IF raw # <<>> /\ Last(raw) = "cr" THEN Front(raw) ELSE raw IN
    IF line # <<>> THEN [p EXCEPT !.stanza = feed(p.stanza, line)]
    ELSE IF ~p.stanza.any THEN p
    ELSE [p EXCEPT !.emitted = @ \o push_stanza(p.stanza.fields), !.stanza = Cleared]

\* a mutant of push_with: the end of a chunk ends the line
PushWholeLines(p, chunk) ==
    LET step(q, token) ==
            IF token = "nl" THEN [process_line(q, q.carry) EXCEPT !.carry = <<>>]
            ELSE [q EXCEPT !.carry = Append(@, token)]
        r == FoldLeft(step, p, chunk)
    IN  IF r.carry = <<>> THEN r ELSE [process_line(r, r.carry) EXCEPT !.carry = <<>>]
\* push_with: complete lines are processed, the rest is carried over
push_with(p, chunk) ==
    LET step(q, token) ==
            IF token = "nl" THEN [process_line(q, q.carry) EXCEPT !.carry = <<>>]
            ELSE [q EXCEPT !.carry = Append(@, token)]
    IN  FoldLeft(step, p, chunk)

\* finish_with: the carried line, then the last stanza
finish_with(p) ==
    LET q == IF p.carry = <<>> THEN p ELSE process_line(p, p.carry)
    IN  IF q.stanza.any THEN q.emitted \o push_stanza(q.stanza.fields) ELSE q.emitted

Parser == [carry |-> carry, stanza |-> stanza, emitted |-> emitted]

\* stream_parse_index: a verified body is decompressed
stream_parse_index ==
    /\ decoding = "no" /\ decoding' = "running"
    /\ text' \in Texts
    /\ UNCHANGED <<pos, carry, stanza, emitted>>

\* decompress_stream hands the next chunk, of any size, to push_view, unless the total
\* would pass the limit
emit(end) == end > MAX_INDEX_STREAM_BYTES
push_view ==
    /\ decoding = "running" /\ pos < Len(text)
    /\ \E end \in pos + 1 .. Len(text) :
        LET p == push_with(Parser, SubSeq(text, pos + 1, end)) IN
        IF emit(end) THEN decoding' = "failed" /\ UNCHANGED <<pos, carry, stanza, emitted>>
        ELSE /\ pos' = end
             /\ carry' = p.carry /\ stanza' = p.stanza /\ emitted' = p.emitted
             /\ UNCHANGED decoding
    /\ UNCHANGED text

\* stream_inflate, stream_xz and stream_zstd stop at the end of the stream, and at an error
\* or a stall of the decoder wherever it is; the index is built only in the first case
StreamEnds ==
    /\ decoding = "running"
    /\ \/ pos = Len(text) /\ decoding' = "ok"
       \/ decoding' = "failed"
    /\ UNCHANGED <<text, pos, carry, stanza, emitted>>

Next == stream_parse_index \/ push_view \/ StreamEnds

-----------------------------------------------------------------------------
\* What a Packages file means, without a parser: its lines, cut at the blank ones
LinesOf(t) ==
    LET nl == {0, Len(t) + 1} \cup {i \in DOMAIN t : t[i] = "nl"}
        ends == Ascending(nl)
        raw == [k \in 1 .. Len(ends) - 1 |-> SubSeq(t, ends[k] + 1, ends[k + 1] - 1)]
    IN  [k \in DOMAIN raw |->
            IF raw[k] # <<>> /\ Last(raw[k]) = "cr" THEN Front(raw[k]) ELSE raw[k]]

\* the value of a field in the lines from .. to: its last line and what continues it
ValueOf(ls, from, to, f) ==
    LET at == {k \in from .. to : ls[k] # <<>> /\ Head(ls[k]) = f}
        k0 == CHOOSE k \in at : \A j \in at : j <= k
        more == {k \in k0 + 1 .. to :
                    /\ Head(ls[k]) = "sp"
                    /\ \A j \in k0 + 1 .. k : Head(ls[j]) \notin Keys}
    IN  IF at = {} THEN <<>>
        ELSE Tail(ls[k0]) \o FlattenSeq([i \in 1 .. Cardinality(more) |->
                                            Tail(ls[Ascending(more)[i]])])

\* the records of a text: one for each run of lines between blank ones that has a package
RecordsOf(t) ==
    LET ls == LinesOf(t)
        starts == {a \in DOMAIN ls : ls[a] # <<>> /\ (a = 1 \/ ls[a - 1] = <<>>)}
        end(a) == CHOOSE b \in a .. Len(ls) :
                      /\ \A k \in a .. b : ls[k] # <<>>
                      /\ b = Len(ls) \/ ls[b + 1] = <<>>
        at == Ascending({a \in starts : ValueOf(ls, a, end(a), "Package:") # <<>>})
        value(k, f) == ValueOf(ls, at[k], end(at[k]), f)
    IN  [k \in DOMAIN at |->
            [package |-> Rank(value(k, "Package:")),
             depends |-> parse_depends(value(k, "Pre-Depends:")) \o parse_depends(value(k, "Depends:")),
             provides |-> parse_provides(value(k, "Provides:"))]]

\* the package a name stands for: the last one of that name, else the first providing it
Provider(rs, name) ==
    LET real == {i \in DOMAIN rs : rs[i].package = name}
        virtual == {i \in DOMAIN rs : \E k \in DOMAIN rs[i].provides : rs[i].provides[k] = name}
    IN  IF real # {} THEN CHOOSE i \in real : \A j \in real : j <= i
        ELSE IF virtual # {} THEN CHOOSE i \in virtual : \A j \in virtual : i <= j
        ELSE 0

\* However the decompressor cuts the text into chunks, and only if it delivered all of a
\* text within the limit, the index the parser builds from
\* it resolves every name to the stanza the text gives it: the last package of that name
\* or else the first one that provides it, with the dependencies written there
\* (decompress_stream, StanzaParser::push_with, finish_with, PackageIndexBuilder::finish).
IndexOfText ==
    decoding = "ok" =>
        LET rs == finish_with(Parser)
            index == finish(rs)
        IN  /\ rs = RecordsOf(text) /\ Len(text) <= MAX_INDEX_STREAM_BYTES
            /\ \A name \in {Rank(<<"a">>), Rank(<<"b">>)} : get_provider(index, name) = Provider(rs, name)
============================================================================
