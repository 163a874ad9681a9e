------------------------------- MODULE OpenPgp -------------------------------
(***************************************************************************)
(* Verification of the signed Release: framing of a clear-signed message,  *)
(* armor, packets, key blocks and the policy of pinned keys. Cryptography  *)
(* is symbolic: a digest is what was hashed, a signature names its digest  *)
(* and its maker. Between signing and verifying, lines are lost, changed   *)
(* or rewritten by transports.                                             *)
(***************************************************************************)
EXTENDS Integers, Sequences, FiniteSets, SequencesExt

CONSTANTS CLOCK_FLOOR, MAX_SKEW, MAX_SIGNATURES, MAX_PACKETS, BLOCK, MaxNow

VARIABLES
    holder,     \* what the keyholder's block says: <<>> or <<choices>>
    letter,     \* what was signed: [text, sigs, form]
    arrived,    \* the lines or packets that arrived, and whether they are the signer's
    verdict     \* of the verification

pgpVars == <<holder, letter, arrived, verdict>>

NotYet == [result |-> "none"]
Init == holder = <<>> /\ letter = <<>> /\ arrived = <<>> /\ verdict = NotYet

-----------------------------------------------------------------------------
\* Sha1: a block is compressed once BLOCK units are there, whatever the calls of update
Sha1 == [h |-> <<>>, block |-> <<>>, total |-> 0]
update(s, data) ==
    LET all == s.block \o data
        full == (Len(all) \div BLOCK) * BLOCK
    IN  [h |-> s.h \o SubSeq(all, 1, full), block |-> SubSeq(all, full + 1, Len(all)),
         total |-> s.total + Len(data)]
finish(s) ==
    LET one == update(s, <<128>>)
        zeros == [i \in 1..(BLOCK - 1 - Len(one.block)) |-> 0]
    IN  update(update(one, zeros), <<s.total>>).h
v4_fingerprint(body) == finish(update(update(update(Sha1, <<153>>), <<Len(body)>>), body))

\* parse_public_key: the body as <<id, created, algo, size>>
parse_public_key(body) ==
    [fingerprint |-> v4_fingerprint(body), body |-> body, id |-> body[1], created |-> body[2],
     algo |-> body[3], bits |-> body[4]]

\* v4_digest, and what is hashed in front of it for each kind of signature
v4_digest(alg, parts, hashed) == [alg |-> alg, parts |-> parts, hashed |-> hashed]
key_digest(alg, key, hashed) == v4_digest(alg, <<"key", key>>, hashed)
key_pair_digest(alg, primary, sub, hashed) == v4_digest(alg, <<"key", primary, "key", sub>>, hashed)
certification_digest(alg, key, uid, hashed) == v4_digest(alg, <<"key", key, "uid", uid>>, hashed)

HashAlgo == {8, 9, 10}
ALGO_RSA == 1
ALGO_ECDSA == 19
ALGO_EDDSA == 22

\* signature_bytes and verify_material: one number for RSA, two for the others
signature_bytes(key, mpis) == Len(mpis) = IF key.algo = ALGO_RSA THEN 1 ELSE 2
verify_material(key, digest, mpis) ==
    /\ signature_bytes(key, mpis)
    /\ key.algo = ALGO_RSA => key.bits \in 2048..4096
    /\ key.algo = ALGO_ECDSA => key.bits \in {256, 384}
    /\ mpis[1] = [by |-> key.id, of |-> digest]

-----------------------------------------------------------------------------
\* parse_subpackets: of one type the last one counts
Subpacket(area, ty) ==
    LET found == SelectSeq(area, LAMBDA s : s.ty = ty)
    IN  IF found = <<>> THEN <<>> ELSE <<found[Len(found)].v>>
parse_signature(body) ==
    LET keyid == Subpacket(body.hashed.area, 16) IN
    [sig_type |-> body.hashed.sig_type, pub_algo |-> body.hashed.pub_algo,
     hash_algo |-> body.hashed.hash_algo, hashed_portion |-> body.hashed,
     created |-> Subpacket(body.hashed.area, 2), key_expiry |-> Subpacket(body.hashed.area, 9),
     key_flags |-> Subpacket(body.hashed.area, 27), issuer_fpr |-> Subpacket(body.hashed.area, 33),
     issuer_keyid |-> IF keyid = <<>> THEN Subpacket(body.unhashed, 16) ELSE keyid,
     left16 |-> body.left16, mpis |-> body.mpis]

\* packets: the packets up to the first that cannot be read, which fails the whole
Readable(binary) == Len(binary) <= MAX_PACKETS /\ \A i \in DOMAIN binary : binary[i].form \in {"new", "old"}

SIG_BINARY == 0
SIG_TEXT == 1
SIG_GENERIC_CERT == 16
SIG_POSITIVE_CERT == 19
SIG_SUBKEY_BINDING == 24
SIG_DIRECT_KEY == 31
SIG_KEY_REVOCATION == 32
SIG_SUBKEY_REVOCATION == 40

\* parse_key_block: certifications count before the first subkey, the first binding of a
\* subkey counts, revocations all do
parse_key_block(block) ==
    LET onLast(b, f(_)) ==
            IF b.subkeys = <<>> THEN b
            ELSE [b EXCEPT !.subkeys[Len(b.subkeys)] = f(@)]
        signature(b, sig) ==
            CASE sig.sig_type \in SIG_GENERIC_CERT..SIG_POSITIVE_CERT \cup {SIG_DIRECT_KEY} ->
                    IF b.subkeys = <<>> THEN [b EXCEPT !.certifications = Append(@, sig)] ELSE b
              [] sig.sig_type = SIG_SUBKEY_BINDING ->
                    onLast(b, LAMBDA s : IF s.binding = <<>> THEN [s EXCEPT !.binding = <<sig>>] ELSE s)
              [] sig.sig_type = SIG_KEY_REVOCATION -> [b EXCEPT !.revocations = Append(@, sig)]
              [] sig.sig_type = SIG_SUBKEY_REVOCATION ->
                    onLast(b, LAMBDA s : [s EXCEPT !.revocations = Append(@, sig)])
              [] OTHER -> b
        packet(b, p) ==
            CASE p.tag = 6 -> [b EXCEPT !.malformed = @ \/ b.primary # <<>>,
                                        !.primary = <<parse_public_key(p.body)>>]
              [] p.tag = 13 -> [b EXCEPT !.uids = Append(@, p.body)]
              [] p.tag = 14 -> [b EXCEPT !.malformed = @ \/ b.primary = <<>>,
                                         !.subkeys = Append(@, [key |-> parse_public_key(p.body),
                                                                binding |-> <<>>, revocations |-> <<>>])]
              [] p.tag = 2 -> signature(b, parse_signature(p.body))
              [] OTHER -> b
    IN  FoldLeft(packet, [malformed |-> ~Readable(block), primary |-> <<>>, uids |-> <<>>,
                          certifications |-> <<>>, subkeys |-> <<>>, revocations |-> <<>>], block)

-----------------------------------------------------------------------------
\* a line is a word, the dash escape before it and the blanks after it; v is what a
\* header, a data line or a checksum carries
Line(word, v) == [dash |-> FALSE, word |-> word, trail |-> "", v |-> v]
Is(line, word) == ~line.dash /\ line.word = word

\* dearmor: the packets between the marker lines; the checksum is optional
dearmor(lines) ==
    LET start == [state |-> 0, data |-> <<>>, crc |-> <<>>, bad |-> FALSE]
        step(a, l) ==
            CASE a.state = 0 -> IF Is(l, "BEGIN_SIG") THEN [a EXCEPT !.state = 1]
                                ELSE [a EXCEPT !.bad = @ \/ ~Is(l, "")]
              [] a.state = 1 -> IF Is(l, "") THEN [a EXCEPT !.state = 2]
                                ELSE [a EXCEPT !.bad = @ \/ ~Is(l, "header")]
              [] a.state = 2 -> CASE Is(l, "END_SIG") -> [a EXCEPT !.state = 3]
                                  [] Is(l, "") -> a
                                  [] Is(l, "crc") -> [a EXCEPT !.bad = @ \/ a.crc # <<>>, !.crc = <<l.v>>]
                                  [] Is(l, "data") -> [a EXCEPT !.data = @ \o l.v]
                                  [] OTHER -> [a EXCEPT !.bad = TRUE]
              [] a.state = 3 -> [a EXCEPT !.bad = @ \/ ~Is(l, "")]
        end == FoldLeft(step, start, lines)
    IN  IF end.bad \/ end.state # 3 \/ (end.crc # <<>> /\ end.crc[1] # end.data)
        THEN <<>> ELSE <<end.data>>

First(lines, from, T(_)) ==
    LET at == {i \in from..Len(lines) : T(lines[i])}
    IN  IF at = {} THEN 0 ELSE CHOOSE i \in at : \A j \in at : i <= j

\* a mutant of SigStart: the line is looked at with its dash escape removed
SigStartUnescaped(lines, from) == First(lines, from, LAMBDA l : l.word = "BEGIN_SIG")
\* parse_clearsigned: the text ends at the first line that is the marker as it stands
SigStart(lines, from) == First(lines, from, LAMBDA l : Is(l, "BEGIN_SIG"))
parse_clearsigned(lines) ==
    LET begin == First(lines, 1, LAMBDA l : ~Is(l, ""))
        blank == First(lines, begin + 1, LAMBDA l : ~Is(l, "header"))
        sig == SigStart(lines, blank + 1)
    IN  IF \/ begin = 0 \/ (begin # 0 /\ ~Is(lines[begin], "BEGIN_MSG"))
           \/ blank = 0 \/ (blank # 0 /\ ~Is(lines[blank], "")) \/ sig = 0
        THEN <<>>
        ELSE <<[headers |-> SubSeq(lines, begin + 1, blank - 1),
                text |-> SubSeq(lines, blank + 1, sig - 1),
                signature |-> SubSeq(lines, sig, Len(lines))]>>

\* canonical_text: without dash escapes and blanks at the ends of lines
canonical_text(text) == IF text = <<>> THEN <<"">> ELSE [i \in DOMAIN text |-> text[i].word]
declared_hashes(headers) == UNION {headers[i].v : i \in DOMAIN headers} \cap HashAlgo

-----------------------------------------------------------------------------
\* expiry_of: zero stands for no expiry
expiry_of(created, expiry) == IF expiry = <<>> \/ expiry = <<0>> THEN <<>> ELSE <<created + expiry[1]>>

Earlier(a, b) == CASE a = <<>> -> b [] b = <<>> -> a [] OTHER -> IF a[1] < b[1] THEN a ELSE b

\* certified: the certifications of the primary key by itself that verify, the earliest
\* expiry and the first flags among them
certified(block) ==
    LET primary == block.primary[1]
        good(c) ==
            /\ c.hash_algo \in HashAlgo
            /\ LET digests == IF c.sig_type = SIG_DIRECT_KEY
                              THEN {key_digest(c.hash_algo, primary.body, c.hashed_portion)}
                              ELSE {certification_digest(c.hash_algo, primary.body, u, c.hashed_portion) :
                                        u \in ToSet(block.uids)}
               IN  \E d \in digests : d = c.left16 /\ verify_material(primary, d, c.mpis)
        merge(best, c) ==
            [expires |-> Earlier(best.expires, expiry_of(primary.created, c.key_expiry)),
             flags |-> IF best.flags = <<>> THEN c.key_flags ELSE best.flags, any |-> TRUE]
    IN  FoldLeft(merge, [expires |-> <<>>, flags |-> <<>>, any |-> FALSE],
                 SelectSeq(block.certifications, good))

\* check_revocations: a revocation the primary key made; others are passed over
Revoked(revocations, primary, sub) ==
    \E i \in DOMAIN revocations :
        LET r == revocations[i] IN
        /\ r.hash_algo \in HashAlgo
        /\ verify_material(primary, IF sub = <<>>
                                    THEN key_digest(r.hash_algo, primary.body, r.hashed_portion)
                                    ELSE key_pair_digest(r.hash_algo, primary.body, sub[1], r.hashed_portion),
                           r.mpis)

SubkeyOf(block, fpr) == SelectSeq(block.subkeys, LAMBDA s : s.key.fingerprint = fpr)

\* validate_block: the block is the pinned one, certified, not revoked, in its lifetime,
\* and so are its pinned subkeys bound
validate_block(pinned, block, now) ==
    /\ ~block.malformed /\ block.primary # <<>>
    /\ LET primary == block.primary[1]
           cert == certified(block)
       IN  /\ primary.fingerprint = pinned.fingerprint
           /\ <<primary.created, primary.bits, primary.algo>> = <<pinned.created, pinned.bits, pinned.algo>>
           /\ pinned.label \in ToSet(block.uids)
           /\ cert.any /\ pinned.expires = cert.expires
           /\ ~Revoked(block.revocations, primary, <<>>)
           /\ \A want \in ToSet(pinned.subkeys) :
                LET subs == SubkeyOf(block, want) IN
                /\ subs # <<>> /\ subs[1].binding # <<>>
                /\ LET sub == subs[1]
                       binding == sub.binding[1]
                   IN  /\ binding.hash_algo \in HashAlgo
                       /\ verify_material(primary, key_pair_digest(binding.hash_algo, primary.body,
                                              sub.key.body, binding.hashed_portion), binding.mpis)
                       /\ ~Revoked(sub.revocations, primary, <<sub.key.body>>)
           /\ now + MAX_SKEW >= pinned.created
           /\ cert.expires # <<>> => now <= cert.expires[1]

\* locate: the pinned key, or its pinned subkey, a signature says it is by
locate(pinned, sig) ==
    LET named == IF sig.issuer_fpr # <<>> THEN sig.issuer_fpr ELSE sig.issuer_keyid
    IN  {f \in {pinned.fingerprint} \cup ToSet(pinned.subkeys) : named = <<f>>}

\* verify_with_pinned, for the key of fingerprint fpr
verify_with_pinned(pinned, fpr, sig, parts, now) ==
    LET block == parse_key_block(pinned.block) IN
    /\ validate_block(pinned, block, now)
    /\ LET sub == SubkeyOf(block, fpr)
           cert == certified(block)
           key == IF fpr = pinned.fingerprint THEN block.primary[1] ELSE sub[1].key
           expires == IF fpr = pinned.fingerprint THEN cert.expires
                      ELSE expiry_of(key.created, sub[1].binding[1].key_expiry)
           flags == IF fpr = pinned.fingerprint THEN cert.flags ELSE sub[1].binding[1].key_flags
           digest == v4_digest(sig.hash_algo, parts, sig.hashed_portion)
       IN  /\ flags # <<FALSE>>
           /\ expires # <<>> => now <= expires[1]
           /\ now + MAX_SKEW >= key.created
           /\ sig.created # <<>> =>
                /\ sig.created[1] <= now + MAX_SKEW
                /\ sig.created[1] + MAX_SKEW >= key.created
                /\ expires # <<>> => sig.created[1] <= expires[1] + MAX_SKEW
           /\ sig.pub_algo = key.algo
           /\ sig.hash_algo \in HashAlgo
           /\ sig.left16 = digest
           /\ verify_material(key, digest, sig.mpis)

\* verify_stream: no signature may be of another kind, none by a pinned key may be bad,
\* and one is by a pinned key
verify_stream(pinned, binary, parts, expected, declared, now) ==
    /\ Readable(binary)
    /\ LET tagged == SelectSeq(binary, LAMBDA p : p.tag = 2)
           sigs == [i \in DOMAIN tagged |-> parse_signature(tagged[i].body)]
       IN  /\ Len(sigs) \in 1..MAX_SIGNATURES
           /\ \A i \in DOMAIN sigs :
                /\ sigs[i].sig_type = expected
                /\ declared # <<>> => sigs[i].hash_algo \in declared[1] \cap HashAlgo
                /\ \A f \in locate(pinned, sigs[i]) : verify_with_pinned(pinned, f, sigs[i], parts, now)
           /\ \E i \in DOMAIN sigs : locate(pinned, sigs[i]) # {}

check_clock(now) == now >= CLOCK_FLOOR

\* verify_detached and verify_clearsigned: what is handed on with the verdict is the text
Refused(now) == [result |-> "refused", now |-> now]
verify_detached(pinned, signature, data, now) ==
    LET binary == IF signature # <<>> /\ "word" \in DOMAIN signature[1] THEN dearmor(signature)
                  ELSE IF signature = <<>> THEN <<>> ELSE <<signature>>
    IN  IF /\ check_clock(now) /\ binary # <<>>
           /\ verify_stream(pinned, binary[1], data, SIG_BINARY, <<>>, now)
        THEN [result |-> "ok", now |-> now, text |-> data] ELSE Refused(now)
verify_clearsigned(pinned, lines, now) ==
    LET cs == parse_clearsigned(lines)
        binary == IF cs = <<>> THEN <<>> ELSE dearmor(cs[1].signature)
    IN  IF /\ check_clock(now) /\ binary # <<>>
           /\ verify_stream(pinned, binary[1], canonical_text(cs[1].text), SIG_TEXT,
                            <<declared_hashes(cs[1].headers)>>, now)
        THEN [result |-> "ok", now |-> now, text |-> canonical_text(cs[1].text)] ELSE Refused(now)
-----------------------------------------------------------------------------
\* the keys: a pinned primary P with its pinned subkey S, and a stranger's Q
Body(k, h) == <<k, IF k = "S" THEN 2 ELSE 1, IF k = "S" THEN ALGO_EDDSA ELSE ALGO_RSA,
                CASE k = "S" -> 255 [] k = "P" -> h.bits [] OTHER -> 4096>>
FprOf(k, h) == v4_fingerprint(Body(k, h))

\* a signature by k with the given subpackets
Signed(k, h, sig_type, hash, area, unhashed, parts) ==
    LET hashed == [sig_type |-> sig_type, pub_algo |-> Body(k, h)[3], hash_algo |-> hash, area |-> area]
        digest == v4_digest(hash, parts, hashed)
        value == [by |-> k, of |-> digest]
    IN  [tag |-> 2, form |-> "new",
         body |-> [hashed |-> hashed, unhashed |-> unhashed, left16 |-> digest,
                   mpis |-> IF k = "S" THEN <<value, value>> ELSE <<value>>]]
Sub(ty, v) == IF v = <<>> THEN <<>> ELSE <<[ty |-> ty, v |-> v[1]]>>

\* a keyholder's choices: who certified, revoked and bound, with what expiry and flags
Standard == [bits |-> 4096, certBy |-> "P", expires |-> <<>>, flags |-> <<>>, direct |-> <<>>,
             revokedBy |-> "", boundBy |-> "P", subExpires |-> <<>>, subFlags |-> <<TRUE>>,
             subRevokedBy |-> ""]
Holders ==
    {Standard, [Standard EXCEPT !.bits = 1024], [Standard EXCEPT !.certBy = "Q"],
     [Standard EXCEPT !.direct = <<2>>, !.expires = <<1>>],
     [Standard EXCEPT !.flags = <<FALSE>>], [Standard EXCEPT !.subFlags = <<FALSE>>],
     [Standard EXCEPT !.subExpires = <<1>>]}
    \cup {[Standard EXCEPT !.expires = e] : e \in {<<0>>, <<1>>, <<2>>}}
    \cup {[Standard EXCEPT !.revokedBy = k] : k \in {"P", "Q", "S"}}
    \cup {[Standard EXCEPT !.boundBy = k] : k \in {"", "Q", "S"}}
    \cup {[Standard EXCEPT !.subRevokedBy = k] : k \in {"P", "Q", "S"}}

Block(h) ==
    LET P == Body("P", h)
        S == Body("S", h)
        by(k, type, area, parts) == IF k = "" THEN <<>> ELSE <<Signed(k, h, type, 10, area, <<>>, parts)>>
    IN  <<[tag |-> 6, form |-> "old", body |-> P]>>
        \o by(h.revokedBy, SIG_KEY_REVOCATION, <<>>, <<"key", P>>)
        \o (IF h.direct = <<>> THEN <<>> ELSE by("P", SIG_DIRECT_KEY, Sub(9, h.direct), <<"key", P>>))
        \o <<[tag |-> 13, form |-> "old", body |-> <<"label">>]>>
        \o by("Q", SIG_GENERIC_CERT, Sub(9, <<1>>), <<"key", P, "uid", <<"label">>>>)
        \o by(h.certBy, SIG_POSITIVE_CERT, Sub(9, h.expires) \o Sub(27, h.flags), <<"key", P, "uid", <<"label">>>>)
        \o <<[tag |-> 14, form |-> "old", body |-> S]>>
        \o by(h.boundBy, SIG_SUBKEY_BINDING, Sub(9, h.subExpires) \o Sub(27, h.subFlags), <<"key", P, "key", S>>)
        \o by(h.subRevokedBy, SIG_SUBKEY_REVOCATION, <<>>, <<"key", P, "key", S>>)

\* PinnedKey: as the build records it from the block
Pinned(h) ==
    [label |-> <<"label">>, fingerprint |-> FprOf("P", h), algo |-> ALGO_RSA, bits |-> h.bits, created |-> 1,
     expires |-> Earlier(expiry_of(1, h.expires), expiry_of(1, h.direct)), block |-> Block(h),
     subkeys |-> <<FprOf("S", h)>>]

-----------------------------------------------------------------------------
Ordinary(k) == [by |-> k, sig_type |-> SIG_TEXT, hash |-> 8, created |-> 2, issuer |-> 33]
SigShapes ==
    {Ordinary(k) : k \in {"P", "S", "Q"}}
    \cup {[Ordinary("P") EXCEPT !.sig_type = SIG_BINARY], [Ordinary("P") EXCEPT !.hash = 2],
          [Ordinary("Q") EXCEPT !.hash = 2], [Ordinary("P") EXCEPT !.created = 4],
          [Ordinary("S") EXCEPT !.created = 0], [Ordinary("S") EXCEPT !.issuer = 16],
          [Ordinary("P") EXCEPT !.issuer = 0]}
Letters ==
    {[text |-> t, sigs |-> <<Ordinary("P")>>] : t \in UNION {[1..n -> {"a", "", "-x", "BEGIN_SIG"}] : n \in 0..2}}
    \cup {[text |-> <<"a">>, sigs |-> s] : s \in UNION {[1..n -> SigShapes] : n \in 1..2}}

\* what the signer sends; in the detached forms a text signature becomes a binary one
Packets(h, l, form) ==
    LET one(s) ==
            LET type == IF form = "clear" THEN s.sig_type ELSE 1 - s.sig_type IN
            Signed(s.by, h, type, s.hash, Sub(2, <<s.created>>) \o
                   (IF s.issuer = 33 THEN Sub(33, <<FprOf(s.by, h)>>) ELSE <<>>),
                   IF s.issuer = 16 THEN Sub(16, <<FprOf(s.by, h)>>) ELSE <<>>,
                   IF l.text = <<>> /\ form = "clear" THEN <<"">> ELSE l.text)
    IN  [i \in DOMAIN l.sigs |-> one(l.sigs[i])]
Armor(ps) ==
    <<Line("BEGIN_SIG", {}), Line("", {})>> \o [i \in DOMAIN ps |-> Line("data", <<ps[i]>>)]
        \o <<Line("crc", ps), Line("END_SIG", {})>>
Clear(h, l) ==
    <<Line("BEGIN_MSG", {}), Line("header", {s.hash : s \in ToSet(l.sigs)}), Line("", {})>>
        \o [i \in DOMAIN l.text |-> [Line(l.text[i], {}) EXCEPT !.dash = l.text[i] \in {"-x", "BEGIN_SIG"}]]
        \o Armor(Packets(h, l, "clear"))

Sign ==
    /\ holder = <<>>
    /\ \E h \in Holders, l \in Letters, form \in {"clear", "armored", "binary"} :
        /\ h = Standard \/ (l.text = <<"a">> /\ Len(l.sigs) = 1)
        /\ holder' = <<h>> /\ letter' = [text |-> l.text, sigs |-> l.sigs, form |-> form]
        /\ arrived' = [intact |-> TRUE, text |-> l.text,
                       lines |-> CASE form = "clear" -> Clear(h, l)
                                   [] form = "armored" -> Armor(Packets(h, l, form))
                                   [] OTHER -> Packets(h, l, form)]
    /\ UNCHANGED verdict

\* a transport may end lines with blanks; what loses, changes or repeats a line damages them
Transport ==
    /\ holder = <<Standard>> /\ verdict = NotYet /\ arrived.intact
    /\ \/ /\ letter.form # "binary" /\ arrived.lines[1].trail = ""
          /\ arrived' = [arrived EXCEPT !.lines = [i \in DOMAIN @ |-> [@[i] EXCEPT !.trail = "\r"]]]
       \/ \E i \in DOMAIN arrived.lines :
            /\ \E lines \in {SubSeq(arrived.lines, 1, i - 1) \o SubSeq(arrived.lines, i + 1, Len(arrived.lines)),
                             SubSeq(arrived.lines, 1, i - 1),
                             SubSeq(arrived.lines, 1, i) \o SubSeq(arrived.lines, i, Len(arrived.lines))} :
                arrived' = [arrived EXCEPT !.intact = FALSE, !.lines = lines]
       \/ /\ letter.form = "clear" /\ letter.text # <<>>
          /\ arrived' = [arrived EXCEPT !.intact = FALSE, !.lines[4].word = "b"]
       \/ /\ letter.form # "clear"
          /\ arrived' = [arrived EXCEPT !.intact = FALSE, !.text = Append(@, "b")]
    /\ UNCHANGED <<holder, letter, verdict>>

Verify ==
    /\ holder # <<>> /\ verdict = NotYet
    /\ \E now \in 0..MaxNow :
        verdict' = IF letter.form = "clear" THEN verify_clearsigned(Pinned(holder[1]), arrived.lines, now)
                   ELSE verify_detached(Pinned(holder[1]), arrived.lines, arrived.text, now)
    /\ UNCHANGED <<holder, letter, arrived>>

Next == Sign \/ Transport \/ Verify

-----------------------------------------------------------------------------
\* the keyholder's key k may sign at that time
Usable(k, now) ==
    LET h == holder[1]
        within(created, e) == now + MAX_SKEW >= created /\ (e = <<>> \/ e = <<0>> \/ now <= created + e[1])
    IN  /\ h.bits >= 2048 /\ h.certBy = "P" /\ h.revokedBy # "P"
        /\ h.boundBy = "P" /\ h.subRevokedBy # "P"
        /\ within(1, h.expires) /\ within(1, h.direct)
        /\ k = "P" => h.flags # <<FALSE>>
        /\ k = "S" => h.subFlags # <<FALSE>> /\ within(2, h.subExpires)
Trusted(s, now) ==
    /\ s.by \in {"P", "S"} /\ s.issuer # 0 /\ Usable(s.by, now)
    /\ s.sig_type = SIG_TEXT /\ s.hash \in HashAlgo /\ s.created \in 1..(now + MAX_SKEW)

\* A text is verified only if it is the text that was signed, by a pinned key that was
\* certified, bound, unrevoked and unexpired at that time; and what such a key signed is
\* verified whatever it contains, however its lines end, and whoever else signed it
VerifiedIsSigned ==
    verdict # NotYet =>
        LET sigs == ToSet(letter.sigs)
            now == verdict.now
            good == \E s \in sigs : Trusted(s, now)
        IN  /\ verdict.result = "ok" =>
                    /\ good /\ now >= CLOCK_FLOOR
                    /\ verdict.text = letter.text \/ (letter.text = <<>> /\ verdict.text = <<"">>)
            /\ (arrived.intact /\ now >= CLOCK_FLOOR /\ good
                    /\ \A s \in sigs : Trusted(s, now) \/ s = Ordinary("Q")) => verdict.result = "ok"
=============================================================================
