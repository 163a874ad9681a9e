------------------------------- MODULE MCNet -------------------------------
(*****************************************************************************)
(* Small instances of the network and user-level components that do not      *)
(* share state. A behaviour runs the component that part names; the others   *)
(* rest in their initial state, so that the state spaces add up and do not   *)
(* multiply. The DHCP client is extended and not instantiated: the property  *)
(* LeaseSound that the run checks is the one of the module Dhcp.             *)
(*****************************************************************************)
EXTENDS Dhcp

CONSTANT Parts    \* the components a run checks

VARIABLES
    part,
    entries, inflight, pending, now, sentTo, hop, asked,
    nextIdent, datagrams, net, bufs, clock, dispatched,
    text, pos, decoding, carry, stanza, emitted,
    mirrors, cfg, index, installed, wallClock, apt, unpacked, commands,
    packed, deb, intact, unpackedAs,
    disc, planned, ops, deferredOps, installer, placed,
    holder, letter, arrived, verdict,
    fetch, walk, verifier, VERIFIED_HANDSHAKES, auth_before, shown, request,
    peer, tcp, get, clockTick, lastRead,
    udpSocks, next_eph, lookup, datagram, queries, pings, pinger, answered,
    tcpSocks, eph, objects, proc, conns, lost, mixed

arpVars == <<entries, inflight, pending, now, sentTo, hop, asked>>
ipVars == <<nextIdent, datagrams, net, bufs, clock, dispatched>>
aptIndexVars == <<text, pos, decoding, carry, stanza, emitted>>
aptVars == <<mirrors, cfg, index, installed, wallClock, apt, unpacked, commands>>
archiveVars == <<packed, deb, intact, unpackedAs>>
installVars == <<disc, planned, ops, deferredOps, installer, placed>>
openPgpVars == <<holder, letter, arrived, verdict>>
tlsVars == <<fetch, walk, verifier, VERIFIED_HANDSHAKES, auth_before, shown, request>>
fetchVars == <<peer, tcp, get, clockTick, lastRead>>
resolverVars == <<udpSocks, next_eph, lookup, datagram, queries, pings, pinger, answered>>
inetSockVars == <<tcpSocks, eph, objects, proc, conns, lost, mixed>>

ArpV4 == INSTANCE Arp WITH
    Family <- "v4", Ip <- {"a", "b", "c"}, Moves <- 1, CacheSize <- 2, PendingCap <- 2,
    EntryTtl <- 2, PendingTtl <- 2, RequestRetry <- 1, MaxRequests <- 1, MaxFrames <- 2,
    MaxNow <- 2
NdpV6 == INSTANCE Arp WITH
    Family <- "v6", Ip <- {"a", "b", "c"}, Moves <- 1, CacheSize <- 2, PendingCap <- 2,
    EntryTtl <- 2, PendingTtl <- 2, RequestRetry <- 1, MaxRequests <- 1, MaxFrames <- 2,
    MaxNow <- 2
DatagramsRoute == <<"broadcast", "subnet", "remote">>
Datagrams == INSTANCE Ip WITH
    MaxPayload <- 2, IdentSpace <- 4, ReasmCap <- 1, ReasmTotalCap <- 4, ReasmTtl <- 1,
    Route <- DatagramsRoute, Configured <- TRUE, Gateway <- FALSE, Sizes <- {1, 3},
    MaxDatagrams <- 2, Copies <- 2, MaxClock <- 1
StanzasLines ==
    {<<"Package:", "b", "cr">>, <<"Package:", "a", "nl", "Provides:", "b">>, <<"sp", ",",
    "a">>, <<"Depends:", "b", "|", "a">>, <<>>}
Stanzas == INSTANCE AptIndex WITH
    Lines <- StanzasLines, MaxLines <- 3, MAX_INDEX_STREAM_BYTES <- 16
PackagesGraphs ==
    {<<<<<<2>>, <<3>>>>, <<<<3>>>>, <<>>>>, <<<<<<4>>>>, <<<<3, 1>>>>, <<<<1>>>>>>, <<<<<<3,
    2>>>>, <<<<1>>, <<5>>>>, <<<<4>>>>>>}
PackagesHeads ==
    {[suite |-> "stable", date |-> 2, until |-> 2, bare |-> 0], [suite |-> "testing", date
    |-> 1, until |-> 2, bare |-> 3], [suite |-> "stable", date |-> -1, until |-> 2, bare |->
    0]}
Packages == INSTANCE Apt WITH
    Graphs <- PackagesGraphs, Heads <- PackagesHeads, MAX_RELEASE_LINES <- 11,
    MAX_RELEASE_ENTRIES <- 2, MAX_SKEW <- 1, MaxNow <- 2, MaxCommands <- 3
DebTarPaths ==
    {<<97>>, <<97, 97, 97, 97>>, <<47, 97, 97, 97>>, <<97, 97, 97, 47, 98, 98>>}
Deb == INSTANCE Archive WITH
    TarPaths <- DebTarPaths, TarContents <- {<<>>, <<1, 2, 3>>}, NAME_MAX <- 3,
    PREFIX_MAX <- 2, BLOCK <- 2, MAX_DECOMPRESSED <- 16, MaxMembers <- 2
InstallerEntries ==
    {[kind |-> k, path |-> p, target |-> <<>>] : k \in {"file"}, p \in {<<"a">>, <<"", "a",
    ".", "b">>, <<"b", "b">>}} \cup {[kind |-> "link", path |-> <<"a">>, target |->
    <<"b">>]} \cup {[kind |-> "hard", path |-> p, target |-> t] : p \in {<<"a", "a">>,
    <<"b", "a">>, <<"b">>}, t \in {<<"a", "b">>, <<"b", "b">>, <<"b", "..", "a">>}}
Installer == INSTANCE Install WITH
    Entries <- InstallerEntries, Existing <- {<<>>, <<"b", "b">>, <<"a">>}, MaxEntries <- 3,
    MaxLinks <- 2
Pgp == INSTANCE OpenPgp WITH
    CLOCK_FLOOR <- 1, MAX_SKEW <- 1, MAX_SIGNATURES <- 2, MAX_PACKETS <- 9, BLOCK <- 4,
    MaxNow <- 3
HttpsMessages ==
    {<<>>} \union {<<l>> : l \in {"leaf", "wild", "bad_san", "ca"}} \union ({"leaf", "wild",
    "sub", "tampered", "algs"} \X {"ca", "rotated", "bad_ca", "cross", "root", "other"})
    \union ({"leaf", "sub", "wild"} \X {"ca", "rotated", "cross", "bad_ca", "root", "other"}
    \X {"ca", "root", "bad_ca", "cross", "other"})
HttpsAnchors ==
    {[subject |-> "R", type |-> "p256", id |-> "kr"], [subject |-> "Q", type |-> "rsa", id
    |-> "weak"]}
HttpsHosts ==
    {<<"HOST", "org">>, <<"a", "host", "org">>, <<"l", "org", "">>, <<"1", "2", "1", "2">>}
Https == INSTANCE Tls WITH
    Messages <- HttpsMessages, Anchors <- HttpsAnchors, Hosts <- HttpsHosts,
    Held <- {{"kh"}, {"kl", "kw"}}, Times <- {0, 3, 5, 7}, CLOCK_FLOOR <- 2
GetResponses ==
    {[status |-> 200, lengths |-> <<1>>, body |-> <<7, 8>>], [status |-> 200, lengths |->
    <<2, 0>>, body |-> <<>>], [status |-> 200, lengths |-> <<1, -1>>, body |-> <<7>>],
    [status |-> 404, lengths |-> <<1>>, body |-> <<7>>], [status |-> 0, lengths |-> <<>>,
    body |-> <<>>], [status |-> 200, lengths |-> <<3>>, body |-> <<7, 8>>]}
Get == INSTANCE Fetch WITH
    Responses <- GetResponses, RxBytes <- 6, MAX_TOTAL <- 11, CONNECT_TIMEOUT_TICKS <- 1,
    READ_TIMEOUT_TICKS <- 2, MAX_STEPS <- 3, MaxTick <- 3
NamesZone ==
    [x |-> [A |-> <<"x4">>, AAAA |-> <<"x6">>], y |-> [A |-> <<>>, AAAA |-> <<"y6">>]]
Names == INSTANCE Resolver WITH
    Resolvers <- {"r", "s"}, Procs <- {}, Pingers <- {}, Zone <- NamesZone, Malformed <- {},
    Literals <- [z |-> "z4"], Ids <- {1}, FirstPort <- 1, LastPort <- 2, RX_QUEUE_CAP <- 1,
    MAX_PINGS <- 1, MaxLookups <- 1
UdpUsersZone == [x |-> [A |-> <<"x4">>, AAAA |-> <<>>]]
UdpUsers == INSTANCE Resolver WITH
    Resolvers <- {"r"}, Procs <- {"p"}, Pingers <- {}, Zone <- UdpUsersZone,
    Malformed <- {"m"}, Literals <- <<>>, Ids <- {0}, FirstPort <- 1, LastPort <- 3,
    RX_QUEUE_CAP <- 1, MAX_PINGS <- 1, MaxLookups <- 1
Pings == INSTANCE Resolver WITH
    Resolvers <- {}, Procs <- {}, Pingers <- {"k", "l"}, Zone <- <<>>, Malformed <- {},
    Literals <- <<>>, Ids <- {0}, FirstPort <- 1, LastPort <- 3, RX_QUEUE_CAP <- 1,
    MAX_PINGS <- 1, MaxLookups <- 2
Inet == INSTANCE InetSock WITH
    Procs <- {"p", "q"}, FirstPort <- 1, LastPort <- 3, UdpBound <- {2}, RxBytes <- 1,
    TxBytes <- 1, MaxConns <- 2, MaxOctets <- 1

\* a component that is not the active one has no state; an idle DHCP client is in DhcpInit
Absent == 0
NoArp == entries = Absent /\ inflight = Absent /\ pending = Absent /\ now = Absent /\
    sentTo = Absent /\ hop = Absent /\ asked = Absent
NoIp == nextIdent = Absent /\ datagrams = Absent /\ net = Absent /\ bufs = Absent /\
    clock = Absent /\ dispatched = Absent
NoAptIndex == text = Absent /\ pos = Absent /\ decoding = Absent /\ carry = Absent /\
    stanza = Absent /\ emitted = Absent
NoApt == mirrors = Absent /\ cfg = Absent /\ index = Absent /\ installed = Absent /\
    wallClock = Absent /\ apt = Absent /\ unpacked = Absent /\ commands = Absent
NoArchive == packed = Absent /\ deb = Absent /\ intact = Absent /\ unpackedAs = Absent
NoInstall == disc = Absent /\ planned = Absent /\ ops = Absent /\ deferredOps = Absent /\
    installer = Absent /\ placed = Absent
NoOpenPgp == holder = Absent /\ letter = Absent /\ arrived = Absent /\ verdict = Absent
NoTls == fetch = Absent /\ walk = Absent /\ verifier = Absent /\
    VERIFIED_HANDSHAKES = Absent /\ auth_before = Absent /\ shown = Absent /\ request = Absent
NoFetch == peer = Absent /\ tcp = Absent /\ get = Absent /\ clockTick = Absent /\
    lastRead = Absent
NoResolver == udpSocks = Absent /\ next_eph = Absent /\ lookup = Absent /\ datagram = Absent
    /\ queries = Absent /\ pings = Absent /\ pinger = Absent /\ answered = Absent
NoInetSock == tcpSocks = Absent /\ eph = Absent /\ objects = Absent /\ proc = Absent /\
    conns = Absent /\ lost = Absent /\ mixed = Absent

NetInit ==
    /\ part \in Parts
    /\ IF part \in {"arp", "ndp"} THEN ArpV4!Init ELSE NoArp
    /\ IF part = "ip" THEN Datagrams!Init ELSE NoIp
    /\ DhcpInit
    /\ IF part = "aptindex" THEN Stanzas!Init ELSE NoAptIndex
    /\ IF part = "apt" THEN Packages!Init ELSE NoApt
    /\ IF part = "archive" THEN Deb!Init ELSE NoArchive
    /\ IF part = "install" THEN Installer!Init ELSE NoInstall
    /\ IF part = "openpgp" THEN Pgp!Init ELSE NoOpenPgp
    /\ IF part = "tls" THEN Https!Init ELSE NoTls
    /\ IF part = "fetch" THEN Get!Init ELSE NoFetch
    /\ IF part = "resolver" THEN Names!Init
       ELSE IF part = "udp_users" THEN UdpUsers!Init
       ELSE IF part = "pings" THEN Pings!Init ELSE NoResolver
    /\ IF part = "inet" THEN Inet!Init ELSE NoInetSock

\* the components other than the active one rest
Resting(active) ==
    /\ IF active = "Arp" THEN TRUE ELSE UNCHANGED arpVars
    /\ IF active = "Ip" THEN TRUE ELSE UNCHANGED ipVars
    /\ IF active = "Dhcp" THEN TRUE ELSE UNCHANGED dhcpVars
    /\ IF active = "AptIndex" THEN TRUE ELSE UNCHANGED aptIndexVars
    /\ IF active = "Apt" THEN TRUE ELSE UNCHANGED aptVars
    /\ IF active = "Archive" THEN TRUE ELSE UNCHANGED archiveVars
    /\ IF active = "Install" THEN TRUE ELSE UNCHANGED installVars
    /\ IF active = "OpenPgp" THEN TRUE ELSE UNCHANGED openPgpVars
    /\ IF active = "Tls" THEN TRUE ELSE UNCHANGED tlsVars
    /\ IF active = "Fetch" THEN TRUE ELSE UNCHANGED fetchVars
    /\ IF active = "Resolver" THEN TRUE ELSE UNCHANGED resolverVars
    /\ IF active = "InetSock" THEN TRUE ELSE UNCHANGED inetSockVars

NetNext ==
    /\ UNCHANGED part
    /\ \/ part = "arp" /\ ArpV4!Next /\ Resting("Arp")
       \/ part = "ndp" /\ NdpV6!Next /\ Resting("Arp")
       \/ part = "ip" /\ Datagrams!Next /\ Resting("Ip")
       \/ part = "dhcp" /\ DhcpNext /\ Resting("Dhcp")
       \/ part = "aptindex" /\ Stanzas!Next /\ Resting("AptIndex")
       \/ part = "apt" /\ Packages!Next /\ Resting("Apt")
       \/ part = "archive" /\ Deb!Next /\ Resting("Archive")
       \/ part = "install" /\ Installer!Next /\ Resting("Install")
       \/ part = "openpgp" /\ Pgp!Next /\ Resting("OpenPgp")
       \/ part = "tls" /\ Https!Next /\ Resting("Tls")
       \/ part = "fetch" /\ Get!Next /\ Resting("Fetch")
       \/ part = "resolver" /\ Names!Next /\ Resting("Resolver")
       \/ part = "udp_users" /\ UdpUsers!Next /\ Resting("Resolver")
       \/ part = "pings" /\ Pings!Next /\ Resting("Resolver")
       \/ part = "inet" /\ Inet!Next /\ Resting("InetSock")
netVars == <<part, arpVars, ipVars, dhcpVars, aptIndexVars, aptVars, archiveVars, installVars,
    openPgpVars, tlsVars, fetchVars, resolverVars, inetSockVars>>

NetSpec == NetInit /\ [][NetNext]_netVars

\* A parked frame leaves once, to the neighbour it was meant for, and while it waits its
\* next hop has been asked for; a neighbour has one cache entry (Arp).
NeighbourServed ==
    /\ part = "arp" => ArpV4!SentOnce /\ ArpV4!RightNeighbour /\ ArpV4!OneEntry /\ ArpV4!ParkedAsked
    /\ part = "ndp" => NdpV6!SentOnce /\ NdpV6!RightNeighbour /\ NdpV6!OneEntry /\ NdpV6!ParkedAsked
\* What is dispatched is a datagram that was sent, once, as soon as it is whole, and the
\* reassembler's memory is bounded (Ip).
Reassembled == part = "ip" => Datagrams!Intact /\ Datagrams!NoRepeat /\ Datagrams!ReasmBounded /\ Datagrams!WholeLeaves
\* The streamed index is the one of the text (AptIndex).
IndexOfText == part = "aptindex" => Stanzas!IndexOfText
\* What is unpacked was published by the archive and comes dependencies first (Apt).
PlannedRight == part = "apt" => Packages!OnlyPublished /\ Packages!DependenciesFirst
\* A package is read exactly or refused, and a successful installation leaves what was
\* packed (Archive, Install).
UnpackedAsPacked ==
    /\ part = "archive" => Deb!ExactOrRefused
    /\ part = "install" => Installer!InstalledAsPacked
\* What is verified was signed (OpenPgp).
VerifiedIsSigned == part = "openpgp" => Pgp!VerifiedIsSigned
\* A request goes to the host it was meant for (Tls).
AuthenticatedServer == part = "tls" => Https!AuthenticatedServer
\* Certificates behind the path do not matter (Tls).
ExtraIgnored == part = "tls" => Https!ExtraIgnored
\* What a fetch returns is what was served (Fetch).
FetchedWhole == part = "fetch" => Get!FetchedWhole
\* A connection that never came about is reported as such (Fetch).
NotConnectedReported == part = "fetch" => Get!NotConnectedReported
\* A lookup is answered by the answer to its own question (Resolver).
OwnAnswer ==
    /\ part = "resolver" => Names!OwnAnswer
    /\ part = "udp_users" => UdpUsers!OwnAnswer
    /\ part = "pings" => Pings!OwnAnswer
\* A descriptor is served by its own connection (InetSock).
OwnConnection == part = "inet" => Inet!OwnConnection
\* A non-blocking connect completes as SO_ERROR says (InetSock).
CompletionSurfaces == part = "inet" => Inet!CompletionSurfaces
============================================================================
