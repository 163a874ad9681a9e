--------------------------------- MODULE Tls ---------------------------------
(***************************************************************************)
(* Server authentication of an HTTPS fetch: the chain walk over the        *)
(* certificates a server sends, the host name, the CertificateVerify       *)
(* signature, and the point at which the request is sent. Keys and         *)
(* signatures are symbolic. The TLS library is external: it calls the      *)
(* verifier when the messages arrive, and may finish without them.         *)
(***************************************************************************)
EXTENDS Integers, Sequences, FiniteSets

CONSTANTS
    Messages,       \* sequences of names of Certs a server may send
    Anchors,        \* [subject, type, id]
    Hosts,          \* the hosts fetch for, as labels
    Held,           \* sets of keys a server may hold
    Times, CLOCK_FLOOR

VARIABLES
    fetch,      \* [host, now, message, held]
    walk,       \* verify_chain: [pc, certs, used, current, error]
    verifier,   \* KernelVerifier: [leaf_key, transcript]
    VERIFIED_HANDSHAKES, auth_before,
    shown,      \* the CertificateVerify that was accepted
    request     \* "none", "sent" or "refused"

tlsVars == <<fetch, walk, verifier, VERIFIED_HANDSHAKES, auth_before, shown, request>>

Init ==
    /\ fetch = [host |-> <<>>, now |-> 0, message |-> <<>>, held |-> {}]
    /\ walk = [pc |-> "idle", certs |-> <<>>, used |-> {}, current |-> 0, error |-> "none"]
    /\ verifier = [leaf_key |-> {}, transcript |-> "none"]
    /\ VERIFIED_HANDSHAKES = 0 /\ auth_before = 0 /\ shown = {} /\ request = "none"

-----------------------------------------------------------------------------
(* Certificates as the DER reader sees them: an element is [tag, of, val], of  *)
(* its children; octets the reader cannot frame are one BROKEN element. Names, *)
(* numbers and keys are values; a signature names the key it was made with and *)
(* the element it was made over.                                               *)

Leaf(tag, val) == [tag |-> tag, of |-> <<>>, val |-> val]
Node(tag, of) == [tag |-> tag, of |-> of, val |-> ""]
Broken == Leaf("BROKEN", "")
Nothing == Leaf("NONE", "")

\* der_tlv, der_expect: the first element of what is left, if it can be framed
der_tlv(s) == IF s = <<>> THEN Broken ELSE s[1]
IsTag(s, tag) == der_tlv(s).tag = tag
Tail1(s) == IF s = <<>> THEN <<>> ELSE SubSeq(s, 2, Len(s))
Framed(s, n) == Len(s) >= n /\ \A i \in 1..n : s[i].tag # "BROKEN"
From(s, n) == SubSeq(s, n, Len(s))

\* the fields of a TBSCertificate after the optional version
Positional(tbs) == IF IsTag(tbs.of, "[0]") THEN Tail1(tbs.of) ELSE tbs.of

version_from_der(v) == v.val \in {"v1", "v2", "v3"}

SpkiOf(spki, alg, bits) ==
    LET params == Tail1(alg.of)
        type == CASE der_tlv(alg.of).val = "ecPublicKey" /\ IsTag(params, "OID") ->
                        IF params[1].val \in {"p256", "p384"} THEN params[1].val ELSE "unsupported"
                  [] der_tlv(alg.of).val \in {"rsa", "ed25519"} -> der_tlv(alg.of).val
                  [] OTHER -> "unsupported"
        readable == /\ spki.tag = "SEQ" /\ alg.tag = "SEQ" /\ IsTag(alg.of, "OID") /\ bits.tag = "BITS"
                    /\ der_tlv(alg.of).val = "ecPublicKey" => IsTag(params, "OID")
                    /\ (type = "unsupported" \/ bits.val # "misshapen")
    IN  IF readable THEN {[type |-> type, id |-> bits.val]} ELSE {}
parse_spki(spki) == SpkiOf(spki, der_tlv(spki.of), der_tlv(Tail1(spki.of)))

TbsOf(tbs, f) ==
    LET readable ==
            /\ tbs.tag = "SEQ"
            /\ IsTag(tbs.of, "[0]") => (IsTag(tbs.of[1].of, "INT") /\ version_from_der(tbs.of[1].of[1]))
            /\ Framed(f, 6)
            /\ f[1].tag = "INT" /\ f[2].tag = "SEQ" /\ IsTag(f[2].of, "OID") /\ f[3].tag = "SEQ"
            /\ f[4].tag = "SEQ" /\ IsTag(f[4].of, "TIME") /\ IsTag(Tail1(f[4].of), "TIME")
            /\ f[5].tag = "SEQ"
    IN  IF readable
        THEN {[tbs |-> tbs, sig_alg_der |-> f[2], sig_alg |-> f[2].of[1].val, issuer |-> f[3], subject |-> f[5],
               not_before |-> f[4].of[1].val, not_after |-> f[4].of[2].val,
               key |-> k] : k \in parse_spki(f[6])}
        ELSE {}
parse_tbs(tbs) == TbsOf(tbs, Positional(tbs))

\* parse_certificate: the two names of the signature algorithm must agree
parse_certificate(c) ==
    IF c.tag = "SEQ" /\ Framed(c.of, 3) /\ c.of[3].tag = "BITS" /\ c.of[3].val # "misshapen"
    THEN {[tbs |-> p.tbs, sig_alg |-> p.sig_alg, issuer |-> p.issuer, subject |-> p.subject,
           not_before |-> p.not_before, not_after |-> p.not_after, key |-> p.key, signature |-> c.of[3]] :
             p \in {q \in parse_tbs(c.of[1]) : Len(c.of) = 3 /\ c.of[2] = q.sig_alg_der}}
    ELSE {}

\* behind the six fields and the unique identifiers; Nothing, Broken or the octets
PastIds(past) ==
    LET ids == {i \in 0..Len(past) : \A j \in 1..i : past[j].tag \in {"[1]", "[2]"}}
    IN  From(past, 1 + (CHOOSE i \in ids : \A j \in ids : j <= i))
ExtensionValue(ext) ==
    LET rest == IF IsTag(Tail1(ext.of), "BOOL") THEN From(ext.of, 3) ELSE Tail1(ext.of)
    IN  IF ext.tag # "SEQ" \/ ~IsTag(ext.of, "OID") \/ ~IsTag(rest, "OCTETS") THEN Broken ELSE rest[1]
ExtensionIn(exts, oid) ==
    LET at == {i \in DOMAIN exts.of : exts.of[i].tag # "SEQ" \/ ~IsTag(exts.of[i].of, "OID") \/ exts.of[i].of[1].val = oid}
    IN  IF exts.tag # "SEQ" THEN Broken ELSE IF at = {} THEN Nothing
        ELSE ExtensionValue(exts.of[CHOOSE i \in at : \A j \in at : i <= j])
ExtensionAmong(cur, oid) ==
    IF cur = <<>> THEN Nothing ELSE IF cur[1].tag = "BROKEN" THEN Broken
    ELSE IF cur[1].tag # "[3]" THEN Nothing ELSE ExtensionIn(der_tlv(cur[1].of), oid)
find_extension(cert, oid) == ExtensionAmong(PastIds(From(Positional(cert.tbs), 7)), oid)

\* san_names and its iterator: an entry that cannot be framed voids the whole list
SanEntries(octets) ==
    IF octets.tag = "OCTETS" /\ Len(octets.of) = 1 /\ octets.of[1].tag = "SEQ"
       /\ \A i \in DOMAIN octets.of[1].of : octets.of[1].of[i].tag # "BROKEN"
    THEN {octets.of[1].of[i] : i \in DOMAIN octets.of[1].of} ELSE {}

\* parse_basic_constraints: a set with the answer, empty on an error
parse_basic_constraints(octets) ==
    LET seq == der_tlv(octets.of) IN
    IF seq.tag # "SEQ" THEN {}
    ELSE IF seq.of = <<>> THEN {FALSE}
    ELSE IF seq.of[1].tag = "BOOL" /\ seq.of[1].val \in {"ff", "00"} THEN {seq.of[1].val = "ff"} ELSE {}

-----------------------------------------------------------------------------
\* how an issuer writes a certificate with the fields given; flaw is what is wrong with it
Oid(v) == Leaf("OID", v)
Extension(oid, critical, body) ==
    Node("SEQ", <<Oid(oid)>> \o (IF critical THEN <<Leaf("BOOL", "ff")>> ELSE <<>>) \o <<Node("OCTETS", <<body>>)>>)
Spki(type, id) ==
    Node("SEQ", <<Node("SEQ", IF type \in {"p256", "p384"} THEN <<Oid("ecPublicKey"), Oid(type)>> ELSE <<Oid(type), Leaf("NULL", "")>>),
                  Leaf("BITS", id)>>)
Written(x) ==
    LET alg(v) == Node("SEQ", <<Oid(v)>>)
        name(v) == Node("SEQ", <<Leaf("UTF8", v)>>)
        constraints == CASE x.ca = "yes" -> <<Extension("basicConstraints", TRUE, Node("SEQ", <<Leaf("BOOL", "ff"), Leaf("INT", "0")>>))>>
                         [] x.ca = "no" -> <<Extension("basicConstraints", FALSE, Node("SEQ", <<>>))>>
                         [] x.ca = "bad" -> <<Extension("basicConstraints", TRUE, Node("SEQ", <<Leaf("BOOL", "01")>>))>>
                         [] OTHER -> <<>>
        sans == IF x.sans = <<>> THEN <<>>
                ELSE <<Extension("subjectAltName", FALSE,
                        Node("SEQ", x.sans \o (IF x.flaw = "san" THEN <<Broken>> ELSE <<>>)))>>
        tbs == Node("SEQ",
                 (IF x.flaw = "version" THEN <<>> ELSE <<Node("[0]", <<Leaf("INT", "v3")>>)>>)
                 \o <<Leaf("INT", "serial"), alg(x.alg), name(x.issuer),
                      Node("SEQ", <<Leaf("TIME", x.from), Leaf("TIME", x.to)>>), name(x.subject), Spki(x.type, x.key)>>
                 \o (IF x.flaw = "ids" THEN <<Leaf("[1]", "id")>> ELSE <<>>)
                 \o (IF sans \o constraints = <<>> THEN <<>> ELSE <<Node("[3]", <<Node("SEQ", sans \o constraints)>>)>>))
        signed == IF x.flaw = "tampered" THEN [tbs EXCEPT !.val = "before"] ELSE tbs
    IN  Node("SEQ", <<tbs, alg(IF x.flaw = "algorithm" THEN "other" ELSE x.alg),
                      [tag |-> "BITS", of |-> <<signed>>, val |-> x.signer]>>
                    \o (IF x.flaw = "trailing" THEN <<Leaf("INT", "extra")>> ELSE <<>>))

-----------------------------------------------------------------------------
Dns(labels) == [tag |-> "dNSName", of |-> labels, val |-> ""]
Ip(octets) == [tag |-> "iPAddress", of |-> octets, val |-> ""]

\* the certificates servers send: leaves for host.org, an intermediate I in several
\* versions, the root; X is a root the kernel does not know
Certs ==
    LET leaf == [subject |-> "H", issuer |-> "I", key |-> "kh", type |-> "p256", signer |-> "ki",
                 alg |-> "sha256rsa", ca |-> "absent", sans |-> <<Dns(<<"host", "org">>)>>,
                 from |-> 2, to |-> 6, flaw |-> "none"]
        ca == [subject |-> "I", issuer |-> "R", key |-> "ki", type |-> "rsa", signer |-> "kr",
               alg |-> "ecdsa256", ca |-> "yes", sans |-> <<>>, from |-> 1, to |-> 8, flaw |-> "none"]
        direct == [leaf EXCEPT !.issuer = "R", !.signer = "kr", !.alg = "ecdsa256"]
    IN  [leaf |-> leaf,
         wild |-> [direct EXCEPT !.key = "kw", !.type = "rsa", !.ca = "no", !.flaw = "ids",
                                 !.sans = <<Dns(<<"*", "org">>), Ip(<<"1", "2", "1", "2">>)>>],
         bad_san |-> [direct EXCEPT !.flaw = "san"],
         other |-> [leaf EXCEPT !.subject = "L", !.key = "kl", !.sans = <<Dns(<<"l", "org">>)>>],
         sub |-> [direct EXCEPT !.issuer = "L", !.signer = "kl"],
         tampered |-> [leaf EXCEPT !.key = "kl", !.flaw = "tampered"],
         algs |-> [leaf EXCEPT !.flaw = "algorithm"],
         ca |-> ca,
         rotated |-> [ca EXCEPT !.key = "kj", !.to = 4, !.flaw = "version"],
         bad_ca |-> [ca EXCEPT !.ca = "bad"],
         cross |-> [ca EXCEPT !.issuer = "X", !.signer = "kx", !.alg = "sha512rsa"],
         root |-> [ca EXCEPT !.subject = "R", !.key = "kr", !.type = "p256", !.to = 9]]

-----------------------------------------------------------------------------
\* host names: labels; "HOST" is "host" in the other case, "w*" a label with a star in it
Lower(l) == IF l = "HOST" THEN "host" ELSE l
is_ascii_name(n) == \A i \in DOMAIN n : n[i] # "non-ascii"
strip_trailing_dot(n) == IF Len(n) > 1 /\ n[Len(n)] = "" THEN SubSeq(n, 1, Len(n) - 1) ELSE n
labels_eq(a, b) == Len(a) = Len(b) /\ \A i \in DOMAIN a : Lower(a[i]) = Lower(b[i])
Starred(n) == \E i \in DOMAIN n : n[i] \in {"*", "w*"}
hostname_matches(h0, s0) ==
    LET h == strip_trailing_dot(h0)
        s == strip_trailing_dot(s0)
    IN  /\ is_ascii_name(h) /\ is_ascii_name(s)
        /\ (\A i \in DOMAIN h : h[i] # "") /\ (\A i \in DOMAIN s : s[i] # "")
        /\ ~Starred(h)
        /\ IF s[1] = "*" THEN Len(h) = Len(s) /\ labels_eq(Tail1(h), Tail1(s))
           ELSE ~Starred(s) /\ labels_eq(h, s)
\* "1" and "2" stand for the numbers up to 255
is_ip_literal(h) == Len(h) = 4 /\ \A i \in DOMAIN h : h[i] \in {"1", "2"}

Covers(entries, host) ==
    IF is_ip_literal(host) THEN \E san \in entries : san.tag = Ip(<<>>).tag /\ san.of = host
    ELSE \E san \in entries : san.tag = Dns(<<>>).tag /\ hostname_matches(host, san.of)
authorize_hostname(leaf, host) == Covers(SanEntries(find_extension(leaf, "subjectAltName")), host)

\* signatures: which key an algorithm goes with; "weak" is an RSA key below 2048 bits
KeyType(alg) == CASE alg \in {"sha256rsa", "sha512rsa", "rsa_pss_rsae"} -> "rsa"
                  [] alg = "ecdsa256" -> "p256" [] alg = "ecdsa384" -> "p384" [] alg = "ed25519" -> "ed25519"
                  [] OTHER -> "none"
Verifies(alg, body, sig, key) ==
    /\ key.type = KeyType(alg) /\ ~(key.type = "rsa" /\ key.id = "weak")
    /\ sig.val = key.id /\ sig.of = <<body>>
verify_certificate_signature(cert, key) ==
    IF KeyType(cert.sig_alg) = "none" \/ cert.sig_alg = "rsa_pss_rsae" THEN "UnsupportedAlg"
    ELSE IF key.type # KeyType(cert.sig_alg) THEN "KeyTypeMismatch"
    ELSE IF Verifies(cert.sig_alg, cert.tbs, cert.signature, key) THEN "Ok" ELSE "VerifyFailed"
tls13_scheme(s) == s \in {"ecdsa256", "ecdsa384", "ed25519", "rsa_pss_rsae"}

-----------------------------------------------------------------------------
\* https_get up to the Certificate message, or to the end of a handshake without one
Handshake ==
    /\ walk.pc = "idle" /\ request = "none"
    /\ auth_before' = VERIFIED_HANDSHAKES
    /\ \E h \in Hosts, n \in Times, c \in Messages, k \in Held :
        /\ fetch' = [host |-> h, now |-> n, message |-> c, held |-> k]
        /\ walk' = [walk EXCEPT !.pc = IF c = <<>> THEN "finished" ELSE "parse"]
    /\ UNCHANGED <<verifier, VERIFIED_HANDSHAKES, shown, request>>

CaOf(e) ==
    IF e.tag = "OCTETS" THEN parse_basic_constraints(e) ELSE IF e.tag = "NONE" THEN {FALSE} ELSE {}

is_ca(cert) == CaOf(find_extension(cert, "basicConstraints"))

Fail(e) == walk' = [walk EXCEPT !.pc = "failed", !.error = e]
check_validity(c, now) ==
    IF now > c.not_after THEN "Expired" ELSE IF now < c.not_before THEN "NotYetValid" ELSE "Ok"

\* verify_chain, start: the clock gate, every certificate readable and within its dates
Parse ==
    /\ walk.pc = "parse"
    /\ \E read \in {[i \in DOMAIN fetch.message |-> parse_certificate(Written(Certs[fetch.message[i]]))]} :
       LET certs == [i \in DOMAIN read |-> CHOOSE c \in read[i] : TRUE]
           dated == {i \in DOMAIN read : check_validity(certs[i], fetch.now) # "Ok"}
       IN  IF fetch.now < CLOCK_FLOOR THEN Fail("Clock")
           ELSE IF \E i \in DOMAIN read : read[i] = {} THEN Fail("IncompleteChain")
           ELSE IF dated # {}
           THEN Fail(check_validity(certs[CHOOSE i \in dated : \A j \in dated : i <= j], fetch.now))
           ELSE walk' = [walk EXCEPT !.pc = "walk", !.certs = certs, !.used = {1}, !.current = 1]
    /\ UNCHANGED <<fetch, verifier, VERIFIED_HANDSHAKES, auth_before, shown, request>>

\* a mutant of Refusal: any certificate may issue
AnyIssuer(cand, cur) == verify_certificate_signature(cur, cand.key)
\* why a candidate by name is not the issuer
Refusal(cand, cur) ==
    IF TRUE \notin is_ca(cand) THEN IF is_ca(cand) = {} THEN "IncompleteChain" ELSE "NotCa"
    ELSE verify_certificate_signature(cur, cand.key)

First(S) == CHOOSE i \in S : \A j \in S : i <= j

\* verify_chain, one round: the first of the message's certificates that issued the
\* current one, else an anchor
Round ==
    /\ walk.pc = "walk"
    /\ LET cur == walk.certs[walk.current]
           named == {i \in DOMAIN walk.certs \ walk.used : walk.certs[i].subject = cur.issuer}
           good == {i \in named : Refusal(walk.certs[i], cur) = "Ok"}
           anchors == {a \in Anchors : Node("SEQ", <<Leaf("UTF8", a.subject)>>) = cur.issuer}
           answers == {verify_certificate_signature(cur, [type |-> a.type, id |-> a.id]) : a \in anchors}
       IN  IF good # {}
           THEN walk' = [walk EXCEPT !.used = @ \union {First(good)}, !.current = First(good)]
           ELSE IF "Ok" \in answers THEN walk' = [walk EXCEPT !.pc = "chained"]
           ELSE IF named # {} THEN Fail(Refusal(walk.certs[First(named)], cur))
           ELSE IF anchors # {} THEN \E e \in answers : Fail(e)
           ELSE Fail("NoAnchor")
    /\ UNCHANGED <<fetch, verifier, VERIFIED_HANDSHAKES, auth_before, shown, request>>

\* authenticate_server after the chain, and what verify_certificate keeps
Authorize ==
    /\ walk.pc = "chained"
    /\ LET leaf == walk.certs[1] IN
       IF ~authorize_hostname(leaf, fetch.host)
       THEN Fail("HostnameMismatch") /\ UNCHANGED <<verifier, VERIFIED_HANDSHAKES>>
       ELSE IF leaf.key.type = "unsupported"
       THEN Fail("UnsupportedLeafKey") /\ UNCHANGED <<verifier, VERIFIED_HANDSHAKES>>
       ELSE /\ verifier' = [leaf_key |-> {leaf.key}, transcript |-> "this"]
            /\ VERIFIED_HANDSHAKES' = VERIFIED_HANDSHAKES + 1
            /\ walk' = [walk EXCEPT !.pc = "verify"]
    /\ UNCHANGED <<fetch, auth_before, shown, request>>

\* verify_signature
verify_signature(s) ==
    \E k \in verifier.leaf_key :
        tls13_scheme(s.scheme) /\ Verifies(s.scheme, verifier.transcript, [val |-> s.key, of |-> <<s.over>>], k)

CertificateVerify ==
    /\ walk.pc = "verify"
    /\ \E key \in fetch.held, scheme \in {"ecdsa256", "rsa_pss_rsae", "sha256rsa"}, over \in {"this", "earlier"} :
        LET s == [key |-> key, scheme |-> scheme, over |-> over] IN
        IF verify_signature(s) THEN walk' = [walk EXCEPT !.pc = "finished"] /\ shown' = {s}
        ELSE Fail("InvalidSignature") /\ UNCHANGED shown
    /\ UNCHANGED <<fetch, verifier, VERIFIED_HANDSHAKES, auth_before, request>>

\* https_get after open(): the request, if a certificate was verified meanwhile
Request ==
    /\ walk.pc \in {"finished", "failed"} /\ request = "none"
    /\ request' = IF walk.pc = "finished" /\ VERIFIED_HANDSHAKES # auth_before THEN "sent" ELSE "refused"
    /\ UNCHANGED <<fetch, walk, verifier, VERIFIED_HANDSHAKES, auth_before, shown>>

Next == Handshake \/ Parse \/ Round \/ Authorize \/ CertificateVerify \/ Request

-----------------------------------------------------------------------------
\* what the fields say, without the reader: who issued what, under which name
Sound(x) == x.flaw \in {"none", "version", "ids", "san"}
Issued(x, y) ==     \* y issued x
    /\ x.issuer = y.subject /\ x.signer = y.key /\ x.flaw # "tampered"
    /\ KeyType(x.alg) = y.type /\ x.alg # "rsa_pss_rsae" /\ ~(y.type = "rsa" /\ y.key = "weak")
Rooted(x) == \E a \in Anchors : Issued(x, [subject |-> a.subject, key |-> a.id, type |-> a.type])
Names(x) == IF x.flaw = "san" THEN {} ELSE {x.sans[i] : i \in DOMAIN x.sans}
Under(host, san) ==
    LET h == SelectSeq(host, LAMBDA l : l # "")
        s == SelectSeq(san.of, LAMBDA l : l # "")
    IN  IF is_ip_literal(host) THEN san = Ip(host)
        ELSE /\ san.tag = Dns(<<>>).tag /\ Len(h) = Len(s)
             /\ \A i \in DOMAIN h : Lower(h[i]) = Lower(s[i]) \/ (i = 1 /\ s[1] = "*")
             /\ ~\E i \in DOMAIN s : s[i] = "*" /\ i > 1
X(i) == Certs[fetch.message[i]]
Dated(x) == x.from <= fetch.now /\ fetch.now <= x.to
Paths == {p \in UNION {[1..n -> DOMAIN fetch.message] : n \in 1..Len(fetch.message)} :
            p[1] = 1 /\ \A i, j \in DOMAIN p : i # j => p[i] # p[j]}
Trusted(p) ==
    /\ \A i \in DOMAIN p : Sound(X(p[i])) /\ Dated(X(p[i]))
    /\ \A i \in 2..Len(p) : Issued(X(p[i - 1]), X(p[i])) /\ X(p[i]).ca = "yes"
    /\ Rooted(X(p[Len(p)]))
\* a message that is a path in order, each name once, sent by the holder of the leaf's key
Honest ==
    /\ fetch.message # <<>> /\ fetch.now >= CLOCK_FLOOR
    /\ Trusted([i \in DOMAIN fetch.message |-> i])
    /\ \A i, j \in DOMAIN fetch.message : i # j => X(i).subject # X(j).subject
    /\ \E san \in Names(X(1)) : Under(fetch.host, san)

\* the request is sent only to a server that holds the key of a certificate for that host,
\* used in this very handshake, which an anchor vouches for through certificates allowed to
\* issue and within their dates, on a clock that was set; and a server whose message is such
\* a path in order is refused only over its CertificateVerify
AuthenticatedServer ==
    /\ request = "sent" =>
        /\ fetch.now >= CLOCK_FLOOR
        /\ \E p \in Paths : Trusted(p)
        /\ \E san \in Names(X(1)) : Under(fetch.host, san)
        /\ \E s \in shown : s.key = X(1).key /\ s.key \in fetch.held /\ s.over = "this"
    /\ (request = "refused" /\ Honest) => walk.error = "InvalidSignature"

\* certificates behind a complete path do not matter: with or without them the chain is
\* accepted, as the head of tls_chain.rs says
ExtraIgnored ==
    (walk.pc = "failed" /\ fetch.message # <<>> /\ fetch.now >= CLOCK_FLOOR) =>
        walk.error \in {"HostnameMismatch", "UnsupportedLeafKey", "InvalidSignature"}
        \/ ~\E n \in 1..(Len(fetch.message) - 1) : Trusted([i \in 1..n |-> i])
=============================================================================
