--------------------------- MODULE DeliveryProofs ---------------------------
(***************************************************************************)
(* What holds of Dhcp, Signals and Futex, in which something is delivered  *)
(* after the sender has gone on, for every value of their constants.       *)
(*                                                                         *)
(* Dhcp: for any set of servers, any network behaviour and any deadlines,  *)
(* a client that is bound holds an address granted to its transaction by   *)
(* the server it asked.                                                    *)
(*                                                                         *)
(* Signals: for any threads, groups, users and signals, PENDING_APPROX     *)
(* lags behind the number of pending signals by no more than the senders   *)
(* that have set a bit and not yet counted it.  Every step moves a bit, a  *)
(* thread between its two updates, and the counter in one of six ways;     *)
(* each keeps the balance.                                                 *)
(*                                                                         *)
(* Futex: for any number of threads, masks and calls, a registration never *)
(* outlives its call, a ticket has one owner, and FUTEX_WAKE reports as    *)
(* many waiters as it releases.                                            *)
(***************************************************************************)
EXTENDS Dhcp, Signals, Futex, FiniteSetTheorems, TLAPS

ReplySet == [kind : {"OFFER", "ACK"}, xid : Nat, server : Server]

\* A reply is of this or an earlier transaction; an acknowledgement of this one
\* comes from the server that was asked, which has granted it.
SoundReply(m) ==
    /\ m \in ReplySet /\ m.xid <= xid
    /\ m.kind = "ACK" /\ m.xid = xid =>
        phase # "Discovering" /\ m.server = serverId /\ xid \in granted[serverId]

DhcpInv ==
    /\ xid \in Nat
    /\ granted \in [Server -> SUBSET Nat]
    /\ rx \in Seq(ReplySet)
    /\ \A m \in mail : SoundReply(m)
    /\ \A i \in DOMAIN rx : SoundReply(rx[i])
    /\ phase = "Bound" => serverId \in Server /\ config = serverId /\ xid \in granted[serverId]

\* The queue behind a reply is a queue, and holds nothing new.
LEMMA BehindInside ==
    ASSUME DhcpInv, NEW i \in DOMAIN rx
    PROVE  Behind(i) \in Seq(ReplySet) /\ \A j \in DOMAIN Behind(i) : \E k \in DOMAIN rx : Behind(i)[j] = rx[k]
<1>1. rx \in Seq(ReplySet) /\ i \in 1..Len(rx)
  BY DEF DhcpInv
<1>2. /\ Behind(i) \in Seq(ReplySet) /\ DOMAIN Behind(i) = 1..(Len(rx) - i)
      /\ \A j \in 1..(Len(rx) - i) : Behind(i)[j] = rx[i + j]
  BY <1>1 DEF Behind
<1>3. \A j \in 1..(Len(rx) - i) : i + j \in DOMAIN rx
  BY <1>1
<1> QED BY <1>2, <1>3

\* A client that knows nothing has taken no reply.
LEMMA DhcpInitInv == DhcpInit => DhcpInv
BY DEF DhcpInit, DhcpInv

\* REQUEST asks the server of the offer, and that one grants.
LEMMA OfferedInv == DhcpInv /\ Offered => DhcpInv'
<1> SUFFICES ASSUME DhcpInv, Offered PROVE DhcpInv'
  OBVIOUS
<1>1. PICK i \in FirstReply("OFFER") :
        /\ rx' = Behind(i) /\ serverId' = rx[i].server /\ phase' = "Requesting"
        /\ mail' = mail \cup {Reply("ACK", xid, rx[i].server)}
        /\ granted' = [granted EXCEPT ![rx[i].server] = @ \cup {xid}]
  BY Zenon DEF Offered, OfferServer
<1>2. i \in DOMAIN rx
  BY DEF FirstReply
<1>3. rx[i] \in ReplySet /\ rx[i].server \in Server
  BY <1>2 DEF DhcpInv, SoundReply, ReplySet
<1>4. phase = "Discovering" /\ xid' = xid /\ xid \in Nat
  BY DEF Offered, DhcpInv
<1>5. granted' \in [Server -> SUBSET Nat] /\ xid \in granted'[serverId']
  BY <1>1, <1>3, <1>4 DEF DhcpInv
<1>6. \A m : SoundReply(m) => SoundReply(m)'
  BY <1>4 DEF SoundReply
<1>7. \A m : m = Reply("ACK", xid, rx[i].server) => SoundReply(m)'
  BY <1>1, <1>3, <1>4, <1>5 DEF SoundReply, Reply, ReplySet
<1>8. \A m \in mail' : SoundReply(m)'
  BY <1>1, <1>6, <1>7 DEF DhcpInv
<1>9. rx' \in Seq(ReplySet) /\ (\A j \in DOMAIN rx : SoundReply(rx[j]))'
  BY <1>1, <1>2, <1>6, BehindInside DEF DhcpInv
<1> QED BY <1>1, <1>4, <1>5, <1>8, <1>9 DEF DhcpInv

\* The acknowledgement taken is of this transaction, so its server is the one asked.
LEMMA AcknowledgedInv ==
    ASSUME NEW s \in Server
    PROVE  DhcpInv /\ Acknowledged(s) /\ config' = s => DhcpInv'
<1> SUFFICES ASSUME DhcpInv, Acknowledged(s), config' = s PROVE DhcpInv'
  OBVIOUS
<1>1. PICK i \in FirstReply("ACK") : rx' = Behind(i) /\ s = rx[i].server
  BY DEF Acknowledged
<1>2. i \in DOMAIN rx /\ rx[i].kind = "ACK" /\ rx[i].xid = xid
  BY DEF FirstReply, parse_reply
<1>3. s = serverId /\ xid \in granted[serverId]
  BY <1>1, <1>2 DEF DhcpInv, SoundReply
<1>4. phase' = "Bound" /\ UNCHANGED <<xid, serverId, mail, granted>>
  BY DEF Acknowledged
<1>5. \A m : SoundReply(m) => SoundReply(m)'
  BY <1>4 DEF SoundReply
<1>6. rx' \in Seq(ReplySet) /\ (\A j \in DOMAIN rx : SoundReply(rx[j]))'
  BY <1>1, <1>2, <1>5, BehindInside DEF DhcpInv
<1> QED BY <1>3, <1>4, <1>5, <1>6 DEF DhcpInv

\* Giving up on a transaction leaves its replies to be told from the next one's.
LEMMA WaitingInv == DhcpInv /\ Waiting => DhcpInv'
<1> SUFFICES ASSUME DhcpInv, Waiting PROVE DhcpInv'
  OBVIOUS
<1>1. \A m : SoundReply(m) => SoundReply(m)'
  BY DEF Waiting, SoundReply
<1> QED BY <1>1 DEF DhcpInv, Waiting

\* Renewal asks the lessor under the same id.
LEMMA BoundInv == DhcpInv /\ Bound /\ UNCHANGED config => DhcpInv'
<1> SUFFICES ASSUME DhcpInv, Bound, UNCHANGED config PROVE DhcpInv'
  OBVIOUS
<1>1. \A m : SoundReply(m) => SoundReply(m)'
  BY DEF Bound, SoundReply
<1>2. \A m : m = Reply("ACK", xid, serverId) => SoundReply(m)'
  BY DEF DhcpInv, Bound, SoundReply, Reply, ReplySet
<1>3. mail' = mail \/ mail' = mail \cup {Reply("ACK", xid, serverId)}
  BY DEF Bound
<1>4. \A m \in mail' : SoundReply(m)'
  BY <1>1, <1>2, <1>3 DEF DhcpInv
<1>5. rx' = <<>> /\ UNCHANGED <<phase, xid, serverId, granted, config>>
  BY DEF Bound
<1> QED BY <1>4, <1>5 DEF DhcpInv

\* Delivery queues a sound reply; room is made by forgetting the oldest.
LEMMA DatagramInv ==
    ASSUME NEW m \in mail, NEW again \in BOOLEAN
    PROVE  DhcpInv /\ on_datagram(m, again) => DhcpInv'
<1> SUFFICES ASSUME DhcpInv, on_datagram(m, again) PROVE DhcpInv'
  OBVIOUS
<1> DEFINE q == Append(rx, m)
<1>1. m \in ReplySet /\ SoundReply(m) /\ rx \in Seq(ReplySet)
  BY DEF DhcpInv, SoundReply
<1>2. q \in Seq(ReplySet) /\ \A j \in DOMAIN q : SoundReply(q[j])
  BY <1>1 DEF DhcpInv
<1>3. q # <<>>
  BY <1>1
<1>4. Tail(q) \in Seq(ReplySet) /\ \A j \in DOMAIN Tail(q) : SoundReply(Tail(q)[j])
  <2> HIDE DEF q
  <2>1. /\ Tail(q) \in Seq(ReplySet) /\ DOMAIN Tail(q) = 1..(Len(q) - 1)
        /\ \A j \in 1..(Len(q) - 1) : Tail(q)[j] = q[j + 1] /\ j + 1 \in DOMAIN q
    BY <1>2, <1>3
  <2> QED BY <1>2, <2>1
<1>5. rx' \in {q, Tail(q)} /\ mail' \subseteq mail /\ UNCHANGED <<phase, xid, serverId, config, granted>>
  BY DEF on_datagram
<1>6. \A x : SoundReply(x) => SoundReply(x)'
  BY <1>5 DEF SoundReply
<1>7. rx' \in Seq(ReplySet) /\ \A j \in DOMAIN rx' : SoundReply(rx'[j])
  <2> HIDE DEF q
  <2> QED BY <1>2, <1>4, <1>5
<1> QED BY <1>5, <1>6, <1>7 DEF DhcpInv

\* Where the client is configured, the fallback leaves the configuration alone.
LEMMA FallbackKeeps ==
    ASSUME NEW conf, conf # "none", Fallback(conf)
    PROVE  config' = conf
BY DEF Fallback

\* Every step of the client, the network and the clock keeps the invariant, given
\* that no server goes by the name of the missing configuration.
LEMMA DhcpNextInv ==
    ASSUME "none" \notin Server
    PROVE  DhcpInv /\ [DhcpNext]_dhcpVars => DhcpInv'
<1> SUFFICES ASSUME DhcpInv, [DhcpNext]_dhcpVars PROVE DhcpInv'
  OBVIOUS
<1>1. ASSUME NEW s \in Server, Acknowledged(s), Fallback(s) PROVE DhcpInv'
  BY <1>1, FallbackKeeps, AcknowledgedInv
<1>2. CASE Discover /\ Fallback(config)
  <2>1. phase' # "Bound" /\ phase # "Bound"
    BY <1>2 DEF Discover
  <2>2. \A m : SoundReply(m) => SoundReply(m)'
    BY <1>2 DEF DhcpInv, Discover, SoundReply, ReplySet
  <2>3. \A m, s : s \in Server /\ m = Reply("OFFER", xid + 1, s) => SoundReply(m)'
    BY <1>2 DEF DhcpInv, Discover, SoundReply, Reply, ReplySet
  <2> QED BY <1>2, <2>1, <2>2, <2>3 DEF DhcpInv, Discover
<1>3. CASE Offered /\ Fallback(config)
  BY <1>3, OfferedInv
<1>4. CASE Waiting /\ Fallback(config)
  BY <1>4, WaitingInv
<1>5. CASE Bound /\ Fallback(config)
  <2>1. config # "none"
    BY <1>5 DEF Bound, DhcpInv
  <2> QED BY <1>5, <2>1, FallbackKeeps, BoundInv
<1>6. CASE Pass \/ UNCHANGED dhcpVars
  <2>1. UNCHANGED <<phase, xid, serverId, rx, config, mail, granted>>
    BY <1>6 DEF Pass, dhcpVars
  <2>2. \A m : SoundReply(m) <=> SoundReply(m)'
    BY <2>1 DEF SoundReply
  <2> QED BY <2>1, <2>2 DEF DhcpInv
<1>7. ASSUME NEW m \in mail, NEW again \in BOOLEAN, on_datagram(m, again) PROVE DhcpInv'
  BY <1>7, DatagramInv
<1> QED BY <1>1, <1>2, <1>3, <1>4, <1>5, <1>6, <1>7 DEF DhcpNext, step

\* What LeaseKept needs of the clock and of the fallback's deadline.
DhcpKept ==
    /\ tick \in Nat \ {0} /\ fallbackAt \in Nat
    /\ LeaseKept

\* Before the first poll nothing is configured.
LEMMA DhcpInitKept == DhcpInit => DhcpKept
BY DEF DhcpInit, DhcpKept, LeaseKept

\* Without a lease, the fallback sets a deadline and takes the static address behind it.
LEMMA FallbackKept ==
    ASSUME DhcpTimeout \in Nat, DhcpKept, Fallback(config), UNCHANGED tick,
           phase # "Bound", phase' # "Bound"
    PROVE  DhcpKept'
<1>1. config \in {"none", "static"}
  BY DEF DhcpKept, LeaseKept
<1>2. CASE config = "none"
  <2>1. /\ fallbackAt' = IF fallbackAt = 0 THEN tick + DhcpTimeout ELSE fallbackAt
        /\ config' = IF tick >= fallbackAt' THEN "static" ELSE "none"
    BY <1>2 DEF Fallback
  <2>2. fallbackAt' \in Nat \ {0}
    BY <2>1 DEF DhcpKept
  <2> QED BY <2>1, <2>2 DEF DhcpKept, LeaseKept
<1>3. CASE config = "static"
  BY <1>3 DEF DhcpKept, LeaseKept, Fallback
<1> QED BY <1>1, <1>2, <1>3

\* Every step of the client, the network and the clock keeps it: a lease overrides the
\* static address and never the other way round.
LEMMA DhcpNextKept ==
    ASSUME "none" \notin Server, "static" \notin Server, DhcpTimeout \in Nat
    PROVE  DhcpInv /\ DhcpKept /\ [DhcpNext]_dhcpVars => DhcpKept'
<1> SUFFICES ASSUME DhcpInv, DhcpKept, [DhcpNext]_dhcpVars PROVE DhcpKept'
  OBVIOUS
<1>1. ASSUME NEW s \in Server, Acknowledged(s), Fallback(s), UNCHANGED tick PROVE DhcpKept'
  BY <1>1 DEF Acknowledged, Fallback, DhcpKept, LeaseKept
<1>2. CASE (Discover \/ Offered \/ Waiting) /\ Fallback(config) /\ UNCHANGED tick
  <2>1. phase # "Bound" /\ phase' # "Bound"
    BY <1>2 DEF Discover, Offered, Waiting
  <2> QED BY <1>2, <2>1, FallbackKept
<1>3. CASE Bound /\ Fallback(config) /\ UNCHANGED tick
  <2>1. config \in Server /\ phase' = "Bound"
    BY <1>3 DEF Bound, DhcpInv
  <2> QED BY <1>3, <2>1 DEF Fallback, DhcpKept, LeaseKept
<1>4. CASE Pass \/ UNCHANGED dhcpVars
  BY <1>4 DEF Pass, dhcpVars, DhcpKept, LeaseKept
<1>5. ASSUME NEW m \in mail, NEW again \in BOOLEAN, on_datagram(m, again) PROVE DhcpKept'
  BY <1>5 DEF on_datagram, DhcpKept, LeaseKept
<1> QED BY <1>1, <1>2, <1>3, <1>4, <1>5 DEF DhcpNext, step

\* DhcpClient::drive never takes a late, repeated or reordered reply of an abandoned
\* discovery: a bound client has an address granted to its own transaction.
THEOREM LeaseIsGranted ==
    ASSUME "none" \notin Server
    PROVE  DhcpSpec => []LeaseGranted
<1>1. DhcpInv => LeaseGranted
  BY DEF DhcpInv, LeaseGranted
<1> QED BY <1>1, DhcpInitInv, DhcpNextInv, PTL DEF DhcpSpec

\* The lease comes from the server that drive put in its REQUEST and asks again at T1.
THEOREM LeaseRenews ==
    ASSUME "none" \notin Server
    PROVE  DhcpSpec => []RenewsAtLessor
<1>1. DhcpInv => RenewsAtLessor
  BY DEF DhcpInv, RenewsAtLessor
<1> QED BY <1>1, DhcpInitInv, DhcpNextInv, PTL DEF DhcpSpec

\* All that Stack::step may rely on once drive has returned a lease: it was granted to
\* this transaction by the server that was asked, and the static address of the
\* fallback never takes its place.
THEOREM LeaseSoundHolds ==
    ASSUME "none" \notin Server, "static" \notin Server, DhcpTimeout \in Nat
    PROVE  DhcpSpec => []LeaseSound
<1>1. DhcpInv /\ DhcpKept => LeaseSound
  BY DEF DhcpInv, DhcpKept, LeaseSound, LeaseGranted, RenewsAtLessor
<1> QED BY <1>1, DhcpInitInv, DhcpInitKept, DhcpNextInv, DhcpNextKept, PTL DEF DhcpSpec
----------------------------------------------------------------------------
\* A sender has a signal, and goes on to the next target or back when it has counted.
SignalPlace(w) ==
    /\ w.at = "kill" => w.sig \in Sig
    /\ w.at = "adding" => w.then.at \in {"user", "kill"} /\ (w.then.at = "kill" => w.then.sig \in Sig)

SignalInv ==
    /\ approx \in Int
    /\ pending \in [Thread -> SUBSET Sig]
    /\ pc = [t \in Thread |-> pc[t]]
    /\ \A t \in Thread : SignalPlace(pc[t])
    /\ CounterLag

FiniteSignals == IsFiniteSet(Thread) /\ IsFiniteSet(Sig)

\* The sets that are counted are finite.
LEMMA CountedFinite ==
    ASSUME FiniteSignals
    PROVE  IsFiniteSet(Bits) /\ \A w : IsFiniteSet(At(w))
<1>1. IsFiniteSet(Thread \X Sig)
  BY FS_Product DEF FiniteSignals
<1>2. Bits \subseteq Thread \X Sig
  BY DEF Bits
<1>3. \A w : At(w) \subseteq Thread
  BY DEF At
<1>4. IsFiniteSet(Bits)
  BY <1>1, <1>2, FS_Subset
<1>5. \A w : IsFiniteSet(At(w))
  BY <1>3, FS_Subset DEF FiniteSignals
<1> QED BY <1>4, <1>5

\* A set grows by at most one with an element and by exactly one with a new element.
LEMMA CountOneMore ==
    ASSUME NEW S, NEW x, IsFiniteSet(S)
    PROVE  /\ IsFiniteSet(S \cup {x}) /\ Cardinality(S) \in Nat
           /\ Cardinality(S \cup {x}) <= Cardinality(S) + 1
           /\ x \notin S => Cardinality(S \cup {x}) = Cardinality(S) + 1
<1>1. Cardinality(S) \in Nat
  BY FS_CardinalityType
<1>2. IsFiniteSet(S \cup {x}) /\ Cardinality(S \cup {x}) = IF x \in S THEN Cardinality(S) ELSE Cardinality(S) + 1
  BY FS_AddElement
<1> QED BY <1>1, <1>2

\* A set shrinks by exactly one with an element of it.
LEMMA CountOneLess ==
    ASSUME NEW S, NEW x \in S, IsFiniteSet(S)
    PROVE  IsFiniteSet(S \ {x}) /\ Cardinality(S) \in Nat /\ Cardinality(S \ {x}) = Cardinality(S) - 1
BY FS_RemoveElement, FS_CardinalityType

\* A subset counts no more.
LEMMA CountSubset ==
    ASSUME NEW S, NEW T, IsFiniteSet(S), T \subseteq S
    PROVE  Cardinality(T) \in Nat /\ Cardinality(S) \in Nat /\ Cardinality(T) <= Cardinality(S)
BY FS_Subset, FS_CardinalityType

\* Where a thread that moves is counted before and after.
LEMMA Moved ==
    ASSUME SignalInv, NEW t \in Thread, NEW where, Enter(t, where)
    PROVE  /\ pc' = [u \in Thread |-> pc'[u]]
           /\ pc'[t] = where /\ \A u \in Thread \ {t} : pc'[u] = pc[u]
           /\ \A w : At(w)' = IF where.at = w THEN At(w) \cup {t} ELSE At(w) \ {t}
<1>1. /\ pc' = [u \in Thread |-> pc'[u]]
      /\ pc'[t] = where /\ \A u \in Thread \ {t} : pc'[u] = pc[u]
  BY DEF SignalInv, Enter
<1>2. \A w : At(w)' = {u \in Thread : pc'[u].at = w}
  BY DEF At
<1> QED BY <1>1, <1>2 DEF At

\* A step that adds no bit and leaves the counter alone.
LEMMA QuietStep ==
    ASSUME FiniteSignals, SignalInv, UNCHANGED approx, Bits' \subseteq Bits,
           UNCHANGED <<At("adding"), At("sub")>>
    PROVE  CounterLag'
<1>1. Cardinality(Bits') \in Nat /\ Cardinality(Bits) \in Nat /\ Cardinality(Bits') <= Cardinality(Bits)
  BY CountedFinite, CountSubset
<1>2. Cardinality(At("adding")) \in Nat /\ Cardinality(At("sub")) \in Nat
  BY CountedFinite, FS_CardinalityType
<1> QED BY <1>1, <1>2 DEF CounterLag, SignalInv

\* A sender sets a bit and is now one that has to count it.
LEMMA SetStep ==
    ASSUME FiniteSignals, SignalInv, NEW t \in Thread, NEW b,
           UNCHANGED approx, Bits' \subseteq Bits \cup {b},
           t \notin At("adding"), At("adding")' = At("adding") \cup {t}, UNCHANGED At("sub")
    PROVE  CounterLag'
<1>1. IsFiniteSet(Bits) /\ IsFiniteSet(At("adding")) /\ IsFiniteSet(At("sub"))
  BY CountedFinite
<1>2. IsFiniteSet(Bits \cup {b}) /\ Cardinality(Bits) \in Nat /\ Cardinality(Bits \cup {b}) <= Cardinality(Bits) + 1
  BY <1>1, CountOneMore, Zenon
<1>3. Cardinality(Bits') \in Nat /\ Cardinality(Bits \cup {b}) \in Nat /\ Cardinality(Bits') <= Cardinality(Bits \cup {b})
  BY <1>2, CountSubset
<1>4. Cardinality(At("adding")) \in Nat /\ Cardinality(At("adding")') = Cardinality(At("adding")) + 1
  BY <1>1, CountOneMore, Zenon
<1>5. Cardinality(At("sub")) \in Nat
  BY <1>1, FS_CardinalityType
<1> QED BY <1>2, <1>3, <1>4, <1>5 DEF CounterLag, SignalInv

\* The sender counts the bit it has set.
LEMMA CountStep ==
    ASSUME FiniteSignals, SignalInv, NEW t \in At("adding"), approx' = approx + 1, UNCHANGED Bits,
           At("adding")' = At("adding") \ {t}, UNCHANGED At("sub")
    PROVE  CounterLag'
<1>1. IsFiniteSet(Bits) /\ IsFiniteSet(At("adding")) /\ IsFiniteSet(At("sub"))
  BY CountedFinite
<1>2. Cardinality(At("adding")) \in Nat /\ Cardinality(At("adding")') = Cardinality(At("adding")) - 1
  BY <1>1, CountOneLess
<1>3. Cardinality(Bits) \in Nat /\ Cardinality(At("sub")) \in Nat
  BY <1>1, FS_CardinalityType
<1> QED BY <1>2, <1>3 DEF CounterLag, SignalInv

\* A receiver takes a bit and is now one that has to discount it.
LEMMA TakeStep ==
    ASSUME FiniteSignals, SignalInv, NEW t \in Thread, NEW b \in Bits, UNCHANGED approx, Bits' = Bits \ {b},
           UNCHANGED At("adding"), t \notin At("sub"), At("sub")' = At("sub") \cup {t}
    PROVE  CounterLag'
<1>1. IsFiniteSet(Bits) /\ IsFiniteSet(At("adding")) /\ IsFiniteSet(At("sub"))
  BY CountedFinite
<1>2. Cardinality(Bits) \in Nat /\ Cardinality(Bits') = Cardinality(Bits) - 1
  BY <1>1, CountOneLess, Zenon
<1>3. Cardinality(At("sub")) \in Nat /\ Cardinality(At("sub")') = Cardinality(At("sub")) + 1
  BY <1>1, CountOneMore, Zenon
<1>4. Cardinality(At("adding")) \in Nat
  BY <1>1, FS_CardinalityType
<1> QED BY <1>2, <1>3, <1>4 DEF CounterLag, SignalInv

\* The receiver discounts the bit it has taken.
LEMMA DiscountStep ==
    ASSUME FiniteSignals, SignalInv, NEW t \in At("sub"), approx' = approx - 1, Bits' \subseteq Bits,
           UNCHANGED At("adding"), At("sub")' = At("sub") \ {t}
    PROVE  CounterLag'
<1>1. IsFiniteSet(Bits) /\ IsFiniteSet(At("adding")) /\ IsFiniteSet(At("sub"))
  BY CountedFinite
<1>2. Cardinality(At("sub")) \in Nat /\ Cardinality(At("sub")') = Cardinality(At("sub")) - 1
  BY <1>1, CountOneLess
<1>3. Cardinality(Bits') \in Nat /\ Cardinality(Bits) \in Nat /\ Cardinality(Bits') <= Cardinality(Bits)
  BY <1>1, CountSubset
<1>4. Cardinality(At("adding")) \in Nat
  BY <1>1, FS_CardinalityType
<1> QED BY <1>2, <1>3, <1>4 DEF CounterLag, SignalInv

\* The tick takes a bit and discounts it at once.
LEMMA TickStep ==
    ASSUME FiniteSignals, SignalInv, NEW b \in Bits, approx' = approx - 1, Bits' \subseteq Bits \ {b},
           UNCHANGED <<At("adding"), At("sub")>>
    PROVE  CounterLag'
<1>1. IsFiniteSet(Bits) /\ IsFiniteSet(At("adding")) /\ IsFiniteSet(At("sub"))
  BY CountedFinite
<1>2. IsFiniteSet(Bits \ {b}) /\ Cardinality(Bits) \in Nat /\ Cardinality(Bits \ {b}) = Cardinality(Bits) - 1
  BY <1>1, CountOneLess
<1>3. Cardinality(Bits') \in Nat /\ Cardinality(Bits') <= Cardinality(Bits \ {b})
  BY <1>2, CountSubset
<1>4. Cardinality(At("adding")) \in Nat /\ Cardinality(At("sub")) \in Nat
  BY <1>1, FS_CardinalityType
<1> QED BY <1>2, <1>3, <1>4 DEF CounterLag, SignalInv

\* What a step does to the rest of the invariant when one thread moves.
LEMMA MovedInv ==
    ASSUME SignalInv, NEW t \in Thread, NEW where, Enter(t, where), approx' \in Int,
           pending' \in [Thread -> SUBSET Sig], CounterLag',
           SignalPlace(where)
    PROVE  SignalInv'
<1>1. /\ pc' = [u \in Thread |-> pc'[u]]
      /\ pc'[t] = where /\ \A u \in Thread \ {t} : pc'[u] = pc[u]
  BY Moved
<1>2. \A u \in Thread : SignalPlace(pc'[u])
  BY <1>1 DEF SignalInv
<1> QED BY <1>1, <1>2 DEF SignalInv

\* The registry entries that leave take their bits with them.
LEMMA TerminateBits ==
    ASSUME SignalInv, NEW t, Terminate(t)
    PROVE  pending' \in [Thread -> SUBSET Sig] /\ Bits' \subseteq Bits
BY DEF SignalInv, Terminate, Bits

\* kill resolves its targets and touches no bit.
LEMMA KillInv ==
    ASSUME FiniteSignals, SignalInv, NEW t \in Thread, NEW target, NEW s \in Sig, sys_kill(t, target, s)
    PROVE  SignalInv'
<1>0. /\ pc[t] = User
      /\ UNCHANGED <<pending, approx>>
      /\ \E to : Enter(t, [at |-> "kill", targets |-> to, sig |-> s])
  BY Zenon DEF sys_kill
<1>1. PICK where : Enter(t, where) /\ where.at = "kill" /\ where.sig = s
  BY <1>0
<1>2. pc[t].at = "user" /\ UNCHANGED <<pending, approx>>
  <2>1. pc[t].at = "user"
    BY ONLY <1>0 DEF User
  <2> QED BY <1>0, <2>1, Zenon
<1>3. UNCHANGED <<At("adding"), At("sub")>>
  BY <1>1, <1>2, Moved DEF At
<1>4. CounterLag'
  BY <1>2, <1>3, QuietStep DEF Bits
<1> QED BY <1>1, <1>2, <1>4, MovedInv DEF SignalInv, SignalPlace

\* tgkill queues through kill's path or ends a group.
LEMMA TgkillInv ==
    ASSUME FiniteSignals, SignalInv, NEW t \in Thread, NEW u \in Thread, NEW s \in Sig, sys_tgkill(t, u, s)
    PROVE  SignalInv'
<1>1. CASE action[Tgid[u]][s].handler = "user"
  <2>0. /\ pc[t] = User
        /\ UNCHANGED <<pending, approx>>
        /\ Enter(t, [at |-> "kill", targets |-> {u}, sig |-> s])
    BY <1>1, Zenon DEF sys_tgkill
  <2>1. PICK where : Enter(t, where) /\ where.at = "kill" /\ where.sig = s
    BY <2>0
  <2>2. pc[t].at = "user" /\ UNCHANGED <<pending, approx>>
    <3>1. pc[t].at = "user"
      BY ONLY <2>0 DEF User
    <3> QED BY <2>0, <3>1, Zenon
  <2>3. UNCHANGED <<At("adding"), At("sub")>>
    BY <2>1, <2>2, Moved DEF At
  <2>4. CounterLag'
    BY <2>2, <2>3, QuietStep DEF Bits
  <2> QED BY <2>1, <2>2, <2>4, MovedInv DEF SignalInv, SignalPlace
<1>2. CASE action[Tgid[u]][s].handler # "user"
  <2>1. Terminate(u) /\ UNCHANGED <<pc, approx>>
    BY <1>2, Zenon DEF sys_tgkill
  <2>2. CounterLag'
    BY <2>1, TerminateBits, QuietStep, Zenon DEF At
  <2> QED BY <2>1, <2>2, TerminateBits DEF SignalInv
<1> QED BY <1>1, <1>2, ZenonT(30)

\* Generation of a signal only takes bits away.
LEMMA GeneratedFewer ==
    ASSUME SignalInv, NEW u, NEW s
    PROVE  /\ Generated(u, s) \in [Thread -> SUBSET Sig]
           /\ \A v \in Thread : Generated(u, s)[v] \subseteq pending[v]
BY DEF SignalInv, Generated

\* send_signal sets at most one bit, and then the sender has it to count.
LEMMA SendInv ==
    ASSUME FiniteSignals, SignalInv, NEW t \in Thread, send_signal(t)
    PROVE  SignalInv'
<1> DEFINE s == pc[t].sig
           done(u) == IF pc[t].targets \ {u} = {} THEN User ELSE [pc[t] EXCEPT !.targets = pc[t].targets \ {u}]
<1>1. pc[t].at = "kill" /\ approx' = approx
  BY DEF send_signal
<1>2. PICK u \in pc[t].targets :
        \/ u \notin alive /\ Enter(t, done(u)) /\ UNCHANGED pending
        \/ Terminate(u) /\ Enter(t, done(u))
        \/ pending' = Generated(u, s) /\ Enter(t, done(u))
        \/ /\ u \in alive
           /\ pending' = [Generated(u, s) EXCEPT ![u] = @ \cup {s}]
           /\ Enter(t, [at |-> "adding", bit |-> <<u, s>>, then |-> done(u)])
  BY Zenon DEF send_signal
<1>3. s \in Sig /\ done(u).at \in {"user", "kill"} /\ (done(u).at = "kill" => done(u).sig \in Sig)
  BY <1>1 DEF User, SignalInv, SignalPlace
<1>9. SignalPlace(done(u)) /\ SignalPlace([at |-> "adding", bit |-> <<u, s>>, then |-> done(u)])
  BY <1>3 DEF SignalPlace
<1>4. ASSUME Enter(t, done(u)), pending' \in [Thread -> SUBSET Sig], Bits' \subseteq Bits PROVE SignalInv'
  <2>0. done(u).at # "adding" /\ done(u).at # "sub" /\ t \notin At("adding") /\ t \notin At("sub")
    BY <1>1, <1>3 DEF At
  <2>1. UNCHANGED <<At("adding"), At("sub")>>
    <3> HIDE DEF done
    <3>1. \A w : At(w)' = IF done(u).at = w THEN At(w) \cup {t} ELSE At(w) \ {t}
      BY <1>4, Moved
    <3> QED BY <3>1, <2>0
  <2>2. CounterLag'
    BY <1>1, <1>4, <2>1, QuietStep
  <2> QED BY <1>1, <1>4, <1>9, <2>2, MovedInv DEF SignalInv
<1>5. CASE u \notin alive /\ Enter(t, done(u)) /\ UNCHANGED pending
  BY <1>4, <1>5 DEF SignalInv, Bits
<1>6. CASE Terminate(u) /\ Enter(t, done(u))
  BY <1>4, <1>6, TerminateBits
<1>7. CASE pending' = Generated(u, s) /\ Enter(t, done(u))
  BY <1>4, <1>7, GeneratedFewer DEF Bits
<1>8. CASE /\ pending' = [Generated(u, s) EXCEPT ![u] = @ \cup {s}]
           /\ Enter(t, [at |-> "adding", bit |-> <<u, s>>, then |-> done(u)])
  <2> DEFINE g == Generated(u, s)
  <2>0. g \in [Thread -> SUBSET Sig] /\ \A v \in Thread : g[v] \subseteq pending[v]
    BY GeneratedFewer
  <2>1. pending' \in [Thread -> SUBSET Sig] /\ \A v \in Thread : pending'[v] \subseteq pending[v] \cup (IF v = u THEN {s} ELSE {})
    <3> HIDE DEF g, s, done
    <3>1. pending' = [g EXCEPT ![u] = @ \cup {s}] /\ s \in Sig
      BY <1>3, <1>8, Zenon DEF g
    <3> QED BY <2>0, <3>1, ZenonT(30)
  <2>2. Bits' \subseteq Bits \cup {<<u, s>>}
    BY <2>1 DEF Bits
  <2>3. t \notin At("adding") /\ At("adding")' = At("adding") \cup {t} /\ UNCHANGED At("sub")
    BY <1>1, <1>8, Moved DEF At
  <2>4. CounterLag'
    BY <1>1, <2>2, <2>3, SetStep, Zenon
  <2> QED BY <1>1, <1>8, <1>9, <2>1, <2>4, MovedInv, ZenonT(30) DEF SignalInv
<1> QED BY <1>2, <1>5, <1>6, <1>7, <1>8, Zenon

\* fetch_add
LEMMA CountInv ==
    ASSUME FiniteSignals, SignalInv, NEW t \in Thread, Count(t)
    PROVE  SignalInv'
<1>1. /\ t \in At("adding") /\ pc[t].then.at \in {"user", "kill"} /\ SignalPlace(pc[t].then)
      /\ Enter(t, pc[t].then) /\ approx' = approx + 1 /\ UNCHANGED pending
  BY DEF Count, At, SignalInv, SignalPlace
<1>2. At("adding")' = At("adding") \ {t} /\ UNCHANGED At("sub")
  BY <1>1, Moved DEF At
<1>3. CounterLag'
  BY <1>1, <1>2, CountStep, ZenonT(30) DEF Bits
<1>4. approx' \in Int
  <2>1. approx \in Int
    BY Zenon DEF SignalInv
  <2> QED BY <1>1, <2>1
<1>5. pending' \in [Thread -> SUBSET Sig]
  BY <1>1, Zenon DEF SignalInv
<1> QED BY <1>1, <1>3, <1>4, <1>5, MovedInv, Zenon

\* The look at the counter changes nothing that is counted.
LEMMA LookInv ==
    ASSUME FiniteSignals, SignalInv, NEW t \in Thread, deliver_one_pending_syscall(t)
    PROVE  SignalInv'
<1>0. Enter(t, [at |-> "pick"]) /\ pc[t] = User /\ UNCHANGED <<pending, approx>>
  BY Zenon DEF deliver_one_pending_syscall
<1>1. Enter(t, [at |-> "pick"]) /\ pc[t].at = "user" /\ UNCHANGED <<pending, approx>>
  BY <1>0 DEF User
<1>2. UNCHANGED <<At("adding"), At("sub")>>
  BY <1>1, Moved DEF At
<1>3. CounterLag'
  BY <1>1, <1>2, QuietStep DEF Bits
<1> QED BY <1>1, <1>3, MovedInv, ZenonT(30) DEF SignalInv, SignalPlace

\* The bit that is picked is one of the thread's own, and it is gone.
LEMMA PickInv ==
    ASSUME FiniteSignals, SignalInv, NEW t \in Thread, pick_pending_signal(t)
    PROVE  SignalInv'
<1>1. pc[t].at = "pick" /\ UNCHANGED approx
  BY DEF pick_pending_signal
<1>2. CASE Enter(t, User) /\ UNCHANGED pending
  <2>1. UNCHANGED <<At("adding"), At("sub")>>
    BY <1>1, <1>2, Moved DEF At, User
  <2>2. CounterLag'
    BY <1>1, <1>2, <2>1, QuietStep, ZenonT(30) DEF Bits
  <2> QED BY <1>1, <1>2, <2>2, MovedInv DEF SignalInv, User, SignalPlace
<1>3. ASSUME NEW s \in Sig, First(t, s), pending' = [pending EXCEPT ![t] = @ \ {s}],
             NEW where, Enter(t, where), where.at = "sub"
      PROVE  SignalInv'
  <2>1. <<t, s>> \in Bits /\ Bits' = Bits \ {<<t, s>>} /\ pending' \in [Thread -> SUBSET Sig]
    BY <1>3 DEF SignalInv, Bits, First, deliverable
  <2>2. UNCHANGED At("adding") /\ t \notin At("sub") /\ At("sub")' = At("sub") \cup {t}
    BY <1>1, <1>3, Moved DEF At
  <2>3. CounterLag'
    BY <1>1, <2>1, <2>2, TakeStep, Zenon
  <2> QED BY <1>1, <1>3, <2>1, <2>3, MovedInv, Zenon DEF SignalInv, SignalPlace
<1> QED BY <1>2, <1>3, ZenonT(30) DEF pick_pending_signal

\* Bits of threads that left the registry are cleared.
LEMMA ClearedFewer ==
    ASSUME NEW bits \in [Thread -> SUBSET Sig]
    PROVE  /\ Cleared(bits) \in [Thread -> SUBSET Sig]
           /\ \A v \in Thread : Cleared(bits)[v] \subseteq bits[v]
BY Zenon DEF Cleared

\* fetch_sub
LEMMA DeliverInv ==
    ASSUME FiniteSignals, SignalInv, NEW t \in Thread, Deliver(t)
    PROVE  SignalInv'
<1>1. t \in At("sub") /\ Enter(t, User) /\ approx' = approx - 1 /\ pending' = Cleared(pending)
  BY DEF Deliver, At
<1>2. pending' \in [Thread -> SUBSET Sig] /\ Bits' \subseteq Bits
  BY <1>1, ClearedFewer DEF SignalInv, Bits
<1>3. UNCHANGED At("adding") /\ At("sub")' = At("sub") \ {t}
  BY <1>1, Moved DEF At, User
<1>4. CounterLag'
  BY <1>1, <1>2, <1>3, DiscountStep
<1>5. SignalPlace(User)
  BY DEF User, SignalPlace
<1>6. approx' \in Int
  <2>1. approx \in Int
    BY Zenon DEF SignalInv
  <2> QED BY <1>1, <2>1
<1> QED BY <1>1, <1>2, <1>4, <1>5, <1>6, MovedInv, ZenonT(30)

\* The tick takes and discounts in one step.
LEMMA TickInv ==
    ASSUME FiniteSignals, SignalInv, NEW t \in Thread, tick_action(t)
    PROVE  SignalInv'
<1>1. PICK s \in Sig : First(t, s) /\ pending' = Cleared([pending EXCEPT ![t] = @ \ {s}])
  BY ZenonT(30) DEF tick_action
<1>2. approx' = approx - 1 /\ UNCHANGED pc
  BY DEF tick_action
<1>3. [pending EXCEPT ![t] = @ \ {s}] \in [Thread -> SUBSET Sig]
  BY DEF SignalInv
<1>4. /\ pending' \in [Thread -> SUBSET Sig]
      /\ \A v \in Thread : pending'[v] \subseteq (IF v = t THEN pending[v] \ {s} ELSE pending[v])
  BY <1>1, <1>3, ClearedFewer, ZenonT(30) DEF SignalInv
<1>5. <<t, s>> \in Bits
  BY <1>1 DEF Bits, First, deliverable
<1>7. ASSUME NEW b \in Bits' PROVE b \in Bits /\ b # <<t, s>>
  BY <1>4 DEF Bits
<1>6. CounterLag'
  BY <1>2, <1>5, <1>7, TickStep, Zenon DEF At
<1>8. approx' \in Int
  <2>1. approx \in Int
    BY Zenon DEF SignalInv
  <2> QED BY <1>2, <2>1
<1>9. /\ pc' = [u \in Thread |-> pc'[u]]
      /\ \A u \in Thread : SignalPlace(pc'[u])
  BY <1>2, Zenon DEF SignalInv
<1> QED BY <1>4, <1>6, <1>8, <1>9, Zenon DEF SignalInv

\* Nothing is pending at first and nobody is under way.
LEMMA SignalInitInv == FiniteSignals /\ Init => SignalInv
<1> SUFFICES ASSUME FiniteSignals, Init PROVE SignalInv
  BY Zenon
<1>1. Bits = {} /\ At("adding") = {} /\ At("sub") = {}
  BY DEF Init, Bits, At, User
<1>2. CounterLag
  <2>1. Cardinality({}) = 0 /\ approx = 0
    BY FS_EmptySet, Zenon DEF Init
  <2> QED BY <1>1, <2>1 DEF CounterLag
<1> QED BY <1>2 DEF Init, SignalInv, SignalPlace, User

\* Every step keeps the balance.
LEMMA SignalNextInv ==
    ASSUME FiniteSignals
    PROVE  SignalInv /\ [Next]_sigVars => SignalInv'
<1> SUFFICES ASSUME SignalInv, [Next]_sigVars PROVE SignalInv'
  OBVIOUS
<1>1. ASSUME UNCHANGED <<approx, pending, pc>> PROVE SignalInv'
  <2>1. UNCHANGED <<Bits, At("adding"), At("sub")>>
    BY <1>1 DEF Bits, At
  <2> QED BY <1>1, <2>1 DEF SignalInv, CounterLag, SignalPlace
<1>2. CASE UNCHANGED sigVars
  BY <1>1, <1>2 DEF sigVars
<1>3. ASSUME NEW t \in Thread, NEW s \in Sig, NEW target \in Target, sys_kill(t, target, s) PROVE SignalInv'
  BY <1>3, KillInv
<1>4. ASSUME NEW t \in Thread, NEW s \in Sig, NEW u \in Thread, sys_tgkill(t, u, s) PROVE SignalInv'
  BY <1>4, TgkillInv
<1>5. ASSUME NEW t \in Thread, send_signal(t) \/ Count(t) PROVE SignalInv'
  BY <1>5, SendInv, CountInv
<1>6. ASSUME NEW t \in Thread, deliver_one_pending_syscall(t) \/ pick_pending_signal(t) \/ Deliver(t) \/ tick_action(t)
      PROVE  SignalInv'
  BY <1>6, LookInv, PickInv, DeliverInv, TickInv, Zenon
<1>7. ASSUME NEW t \in Thread, sys_rt_sigreturn(t) PROVE SignalInv'
  BY <1>1, <1>7 DEF sys_rt_sigreturn
<1>8. ASSUME NEW t \in Thread, NEW how, NEW set, sys_rt_sigprocmask(t, how, set) PROVE SignalInv'
  BY <1>1, <1>8 DEF sys_rt_sigprocmask
<1>9. ASSUME NEW t \in Thread, NEW s, NEW act, sys_rt_sigaction(t, s, act) PROVE SignalInv'
  BY <1>1, <1>9 DEF sys_rt_sigaction
<1> QED BY <1>2, <1>3, <1>4, <1>5, <1>6, <1>7, <1>8, <1>9, Zenon DEF Next

\* SignalInv is an invariant of send_signal, the deliveries and the mask and action calls.
LEMMA SignalInvHolds ==
    ASSUME IsFiniteSet(Thread), IsFiniteSet(Sig)
    PROVE  Spec => []SignalInv
<1>1. FiniteSignals
  BY DEF FiniteSignals
<1>2. Init => SignalInv
  BY <1>1, SignalInitInv
<1>3. SignalInv /\ [Next]_sigVars => SignalInv'
  BY <1>1, SignalNextInv
<1> QED BY <1>2, <1>3, PTL DEF Spec

\* For any threads, groups, users and signals: PENDING_APPROX, changed under another lock than
\* the pending bits, lags behind them by at most the number of senders that have set a bit in
\* send_signal and not counted it.
THEOREM CounterLagBounded ==
    ASSUME IsFiniteSet(Thread), IsFiniteSet(Sig)
    PROVE  Spec => []CounterLag
<1>1. SignalInv => CounterLag
  BY DEF SignalInv
<1> QED BY <1>1, SignalInvHolds, PTL

\* The skip of deliver_one_pending_syscall on a zero counter hides no signal while no sender is
\* between its bit and its count in send_signal.
THEOREM SkipSafeWhenSettled ==
    ASSUME IsFiniteSet(Thread), IsFiniteSet(Sig)
    PROVE  Spec => [](At("adding") = {} /\ approx = 0 => \A t \in Thread : pending[t] = {})
<1>1. ASSUME SignalInv, At("adding") = {}, approx = 0 PROVE \A t \in Thread : pending[t] = {}
  <2>1. FiniteSignals
    BY DEF FiniteSignals
  <2>2. IsFiniteSet(Bits) /\ IsFiniteSet(At("sub"))
    BY <2>1, CountedFinite
  <2>3. Cardinality(Bits) \in Nat /\ Cardinality(At("sub")) \in Nat /\ Cardinality({}) = 0
    BY <2>2, FS_CardinalityType, FS_EmptySet
  <2>4. Cardinality(Bits) + Cardinality(At("sub")) <= approx + Cardinality(At("adding"))
    BY <1>1, Zenon DEF SignalInv, CounterLag
  <2>5. Cardinality(Bits) = 0
    BY <1>1, <2>3, <2>4
  <2>6. Bits = {}
    BY <2>2, <2>5, FS_EmptySet
  <2>7. pending \in [Thread -> SUBSET Sig]
    BY <1>1, Zenon DEF SignalInv
  <2>8. ASSUME NEW t \in Thread, NEW s \in pending[t] PROVE FALSE
    <3>1. s \in Sig /\ <<t, s>>[1] = t /\ <<t, s>>[2] = s
      BY <2>7, <2>8
    <3>2. <<t, s>> \in Bits
      BY <2>8, <3>1 DEF Bits
    <3> QED BY <2>6, <3>2
  <2> QED BY <2>8
<1> QED BY <1>1, SignalInvHolds, PTL
----------------------------------------------------------------------------
USE FutexAssumption

Entries == waiting \cup woken
----------------------------------------------------------------------------
(* Types.                                                                  *)

\* wake_waiters selects from the waiters of its queue.
LEMMA SelectedWaits == \A n, m : Selected(n, m) \subseteq waiting
  BY DEF Selected, Matching

\* wake_waiters moves entries from one table to the other and adds none.
LEMMA WakeMoves ==
    ASSUME NEW n, NEW m, WakeWaiters(n, m)
    PROVE  /\ waiting' \cup woken' = waiting \cup woken
           /\ waiting' \subseteq waiting /\ UNCHANGED nextTicket
  BY SelectedWaits DEF WakeWaiters

\* Before the first call nothing is registered.
LEMMA InitTypes == FutexInit => TypeOK
  BY DEF FutexInit, TypeOK, Waiter, Word, NoCall, Labels, Registered

\* Every step keeps the types of the queue and of the threads' locals.
LEMMA StepTypes == TypeOK /\ [FutexNext]_vars => TypeOK'
<1> SUFFICES ASSUME TypeOK, [FutexNext]_vars PROVE TypeOK'
  OBVIOUS
<1> USE DEF TypeOK, queue, user, threads, history, Labels, Registered, AtLabel, GoTo
<1>1. CASE UNCHANGED vars
  BY <1>1, Zenon DEF vars
<1>2. ASSUME NEW t \in Task, WaitCall(t) PROVE TypeOK'
  BY <1>2 DEF WaitCall, WakeMask, Word
<1>3. ASSUME NEW t \in Task, Register(t) PROVE TypeOK'
  BY <1>3 DEF Register, Waiter
<1>4. ASSUME NEW t \in Task, FinishWait(t), Return(t), UNCHANGED <<word, mapped, life, dying>>
      PROVE  TypeOK'
  BY <1>4 DEF FinishWait, Return, Leave, NoCall, Word
<1>5. ASSUME NEW t \in Task, Take(t) \/ Timeout(t) PROVE TypeOK'
  BY <1>4, <1>5, Zenon DEF Take, Timeout
<1>6. ASSUME NEW t \in Task, Cancel(t) PROVE TypeOK'
  <2>1. CASE Return(t)
    BY <1>4, <1>6, <2>1, Zenon DEF Cancel
  <2>2. CASE GoTo(t, "yield") /\ UNCHANGED <<call, expired, signalled>>
    BY <1>6, <2>2, Zenon DEF Cancel, FinishWait
  <2> QED BY <1>6, <2>1, <2>2, Zenon DEF Cancel
<1>7. ASSUME NEW t \in Task,
             \/ LoopTop(t) \/ CheckWord(t) \/ CheckTime(t) \/ CheckSignal(t) \/ Yield(t)
      PROVE  TypeOK'
  BY <1>7, Zenon DEF LoopTop, CheckWord, CheckTime, CheckSignal, Yield
<1>8. ASSUME NEW t \in Task, WordFault(t) PROVE TypeOK'
  BY <1>8 DEF WordFault, Return, Leave, NoCall, Word
<1>9. ASSUME NEW t \in Task, WakeCall(t) \/ ExitWake(t) PROVE TypeOK'
  <2>1. waiting' \cup woken' = waiting \cup woken /\ UNCHANGED nextTicket
    BY <1>9, WakeMoves, Zenon DEF WakeCall, ExitWake
  <2> QED BY <1>9, <2>1, Zenon DEF WakeCall, ExitWake
<1>10. ASSUME NEW t \in Task, Exit(t) PROVE TypeOK'
  <2>1. word' \in Word /\ UNCHANGED <<mapped, queue, life, dying>>
    BY <1>10 DEF Exit, Word
  <2>2. NoCall \in [val : Word, mask : SUBSET Bit, timed : BOOLEAN, ticket : Nat]
    BY DEF NoCall, Word
  <2>3. Leave(t, "exit_wake") \/ Leave(t, "dead")
    BY <1>10, Zenon DEF Exit
  <2>4. label' \in [Task -> Labels]
    BY <2>3 DEF Leave
  <2>5. call' \in [Task -> [val : Word, mask : SUBSET Bit, timed : BOOLEAN, ticket : Nat]]
    <3> DEFINE L == [val : Word, mask : SUBSET Bit, timed : BOOLEAN, ticket : Nat]
    <3>1. call \in [Task -> L] /\ NoCall \in L /\ call' = [call EXCEPT ![t] = NoCall]
      BY <2>2, <2>3 DEF Leave
    <3> HIDE DEF L
    <3>2. call' \in [Task -> L]
      BY <3>1
    <3> QED
      BY <3>2 DEF L
  <2>6. expired' \in [Task -> BOOLEAN] /\ signalled' \in [Task -> BOOLEAN]
    BY <2>3, Zenon DEF Leave
  <2> QED
    BY <2>1, <2>4, <2>5, <2>6, Zenon
<1>11. ASSUME NEW t \in Task, Store(t) \/ Expire(t) \/ Signal(t) \/ Remap(t)
       PROVE  TypeOK'
  BY <1>11, ZenonT(30) DEF Store, Expire, Signal, Remap
<1>12. CASE Recycle
  BY <1>12 DEF Recycle, NoCall, Word
<1>13. CASE Kill
  BY <1>13 DEF Kill
<1> QED
  BY <1>1, <1>2, <1>3, <1>5, <1>6, <1>7, <1>8, <1>9, <1>10, <1>11, <1>12, <1>13, Zenon
  DEF FutexNext, Step
----------------------------------------------------------------------------
(* A registration does not outlive its call.                               *)

\* With the types: no entry is of a process to come, and the word stays mapped.
LiveInv ==
    /\ TypeOK /\ NoOrphan /\ mapped = TRUE
    /\ \A e \in Entries : e.life <= life

\* finish_wait takes every entry of the caller's ticket, so the callers of the
\* others are still in their waits.
LEMMA FinishKeepsLive ==
    ASSUME LiveInv, NEW t \in Task, FinishWait(t), UNCHANGED <<life, dying>>,
           \A u \in Task \ {t} : label'[u] = label[u] /\ call'[u] = call[u]
    PROVE  NoOrphan' /\ \A e \in Entries' : e.life <= life'
<1>1. \A e \in Entries' : e \in Entries /\ e.ticket # Ticket(t)
  BY Zenon DEF FinishWait, Entries
<1> QED
  BY <1>1, ZenonT(30) DEF LiveInv, NoOrphan, Entries, InWait, Ticket

\* A step that leaves the entries alone and no thread's wait keeps them owned.
LEMMA StayingKeepsLive ==
    ASSUME LiveInv, Entries' \subseteq Entries, UNCHANGED <<life, dying>>,
           \A u \in Task : InWait(u) => InWait(u)' /\ Ticket(u)' = Ticket(u)
    PROVE  NoOrphan' /\ \A e \in Entries' : e.life <= life'
  BY DEF LiveInv, NoOrphan, Entries

\* Every step of the system keeps every registration owned when no page goes away.
LEMMA LiveStep ==
    ASSUME "unmap" \notin Faults, LiveInv, [FutexNext]_vars
    PROVE  LiveInv'
<1> USE DEF queue, user, threads, history, AtLabel, GoTo
<1>0. TypeOK'
  BY StepTypes DEF LiveInv
<1> SUFFICES mapped' = TRUE /\ NoOrphan' /\ \A e \in Entries' : e.life <= life'
  BY <1>0 DEF LiveInv
<1>1. CASE UNCHANGED vars
  BY <1>1, Zenon DEF vars, LiveInv, NoOrphan, Entries, InWait, Ticket
<1>2. ASSUME NEW t \in Task, Register(t)
      PROVE  mapped' = TRUE /\ NoOrphan' /\ \A e \in Entries' : e.life <= life'
  <2> DEFINE new == [ticket |-> nextTicket, mask |-> call[t].mask, life |-> life]
  <2>1. Entries' = Entries \cup {new} /\ UNCHANGED <<life, dying, mapped>>
    BY <1>2 DEF Register, Entries
  <2>2. InWait(t)' /\ Ticket(t)' = new.ticket
    BY <1>2 DEF Register, InWait, Registered, Ticket, LiveInv, TypeOK
  <2>3. \A u \in Task : InWait(u) => InWait(u)' /\ Ticket(u)' = Ticket(u)
    BY <1>2 DEF Register, InWait, Registered, Ticket, LiveInv, TypeOK
  <2>4. new.life = life /\ life \in Nat
    BY DEF LiveInv, TypeOK
  <2> HIDE DEF new
  <2> QED
    BY <2>1, <2>2, <2>3, <2>4 DEF LiveInv, NoOrphan, Entries
<1>3. ASSUME NEW t \in Task, Take(t) \/ Timeout(t) \/ Cancel(t)
      PROVE  mapped' = TRUE /\ NoOrphan' /\ \A e \in Entries' : e.life <= life'
  <2>1. FinishWait(t) /\ UNCHANGED <<mapped, life, dying>>
    BY <1>3 DEF Take, Timeout, Cancel
  <2>2. \A u \in Task \ {t} : label'[u] = label[u] /\ call'[u] = call[u]
    BY <1>3, Zenon DEF Take, Timeout, Cancel, Return, Leave, LiveInv, TypeOK
  <2> QED
    BY <2>1, <2>2, FinishKeepsLive, Zenon DEF LiveInv
<1>4. ASSUME NEW t \in Task,
             \/ LoopTop(t) \/ CheckWord(t) \/ CheckTime(t) \/ CheckSignal(t) \/ Yield(t)
             \/ WaitCall(t) \/ Store(t) \/ Expire(t) \/ Signal(t)
      PROVE  mapped' = TRUE /\ NoOrphan' /\ \A e \in Entries' : e.life <= life'
  <2>1. UNCHANGED <<waiting, woken, mapped, life, dying>>
    BY <1>4, Zenon DEF LoopTop, CheckWord, CheckTime, CheckSignal, Yield, WaitCall,
                Store, Expire, Signal
  <2>2. \A u \in Task : InWait(u) => InWait(u)' /\ Ticket(u)' = Ticket(u)
    BY <1>4, ZenonT(30) DEF LoopTop, CheckWord, CheckTime, CheckSignal, Yield, WaitCall,
                Store, Expire, Signal, InWait, Registered, Ticket, LiveInv, TypeOK
  <2> QED
    BY <2>1, <2>2, StayingKeepsLive DEF LiveInv, Entries
<1>5. ASSUME NEW t \in Task, WakeCall(t) \/ ExitWake(t)
      PROVE  mapped' = TRUE /\ NoOrphan' /\ \A e \in Entries' : e.life <= life'
  <2>1. Entries' = Entries /\ UNCHANGED <<mapped, life, dying>>
    BY <1>5, WakeMoves DEF WakeCall, ExitWake, Entries
  <2>2. \A u \in Task : InWait(u) => InWait(u)' /\ Ticket(u)' = Ticket(u)
    BY <1>5, Zenon DEF WakeCall, ExitWake, InWait, Registered, Ticket, LiveInv, TypeOK
  <2> QED
    BY <2>1, <2>2, StayingKeepsLive, Zenon DEF LiveInv
<1>6. ASSUME NEW t \in Task, WordFault(t) \/ Remap(t) PROVE FALSE
  BY <1>6, Zenon DEF WordFault, Remap, LiveInv
<1>7. CASE Recycle
  BY <1>7 DEF Recycle, LiveInv, NoOrphan, Entries, TypeOK, Waiter
<1>8. ASSUME NEW t \in Task, Exit(t)
      PROVE  mapped' = TRUE /\ NoOrphan' /\ \A e \in Entries' : e.life <= life'
  <2>1. UNCHANGED <<waiting, woken, mapped, life, dying>>
    BY <1>8 DEF Exit
  <2>2. CASE dying
    BY <2>1, <2>2, Zenon DEF LiveInv, NoOrphan, Entries
  <2>3. CASE ~dying
    <3>1. ~InWait(t) /\ \A u \in Task \ {t} : InWait(u)' = InWait(u) /\ Ticket(u)' = Ticket(u)
      BY <1>8, <2>3 DEF Exit, Leave, InWait, Registered, Ticket, LiveInv, TypeOK
    <3> QED
      BY <2>1, <3>1, StayingKeepsLive, ZenonT(30) DEF LiveInv, Entries
  <2> QED
    BY <2>2, <2>3, Zenon
<1>9. CASE Kill
  BY <1>9 DEF Kill, LiveInv, NoOrphan, Entries
<1> QED
  BY <1>1, <1>2, <1>3, <1>4, <1>5, <1>6, <1>7, <1>8, <1>9, Zenon DEF FutexNext, Step

\* As long as the word stays mapped, a registration never outlives its call,
\* with signals, timeouts, wakes and recycled page tables in any order: every
\* return of sys_futex deregisters the caller's ticket, its own or reused, and
\* only a killed process leaves entries behind.
THEOREM NoOrphanHolds ==
    ASSUME "unmap" \notin Faults
    PROVE  FutexSpec => []NoOrphan
<1>1. FutexInit => LiveInv
  BY InitTypes DEF FutexInit, LiveInv, NoOrphan, Entries
<1>2. LiveInv /\ [FutexNext]_vars => LiveInv'
  BY LiveStep
<1>3. LiveInv => NoOrphan
  BY DEF LiveInv
<1> QED
  BY <1>1, <1>2, <1>3, PTL DEF FutexSpec
----------------------------------------------------------------------------
(* A ticket has one owner.                                                 *)

HasEntry(t) == \E e \in Entries : e.ticket = Ticket(t)

\* Without signals a waiting thread is registered until it returns, so the queue
\* is not dropped under it and the tickets below next_ticket stay taken.
OwnerInv ==
    /\ TypeOK /\ OneOwner
    /\ \A t \in Task : signalled[t] = FALSE /\ label[t] # "cancel"
    /\ \A t \in Task : InWait(t) => HasEntry(t)
    /\ \A e \in Entries : e.ticket < nextTicket

\* finish_wait leaves the entries of the other threads, and the queue with them.
LEMMA FinishKeepsOwner ==
    ASSUME OwnerInv, NEW t \in Task, InWait(t), FinishWait(t), TypeOK', ~InWait(t)',
           \A u \in Task \ {t} : label'[u] = label[u] /\ call'[u] = call[u],
           \A u \in Task : signalled'[u] = FALSE /\ label'[u] # "cancel"
    PROVE  OwnerInv'
<1>1. \A u \in Task \ {t} : (InWait(u)' <=> InWait(u)) /\ Ticket(u)' = Ticket(u)
  BY Zenon DEF InWait, Ticket
<1>2. OneOwner'
  BY <1>1, Zenon DEF OneOwner, OwnerInv
<1>3. Entries' = {e \in Entries : e.ticket # Ticket(t)}
  BY Zenon DEF FinishWait, Entries
<1>4. \A u \in Task : InWait(u)' => HasEntry(u)'
  <2> SUFFICES ASSUME NEW u \in Task, InWait(u)' PROVE HasEntry(u)'
    BY ZenonT(30)
  <2>1. u # t /\ InWait(u) /\ Ticket(u)' = Ticket(u)
    BY <1>1, Zenon
  <2>2. Ticket(u) # Ticket(t) /\ HasEntry(u)
    BY <2>1, Zenon DEF OwnerInv, OneOwner
  <2> QED
    BY <1>3, <2>1, <2>2, Zenon DEF HasEntry
<1>5. \A e \in Entries' : e.ticket < nextTicket'
  <2>1. Entries' # {} => nextTicket' = nextTicket
    BY Zenon DEF FinishWait, Entries
  <2> QED
    BY <1>3, <2>1, ZenonT(30) DEF OwnerInv
<1> QED
  BY <1>2, <1>4, <1>5, Zenon DEF OwnerInv

\* A step that leaves the entries and the waits of all threads alone, or ends
\* one without a word to the queue.
LEMMA StayingKeepsOwner ==
    ASSUME OwnerInv, TypeOK', Entries' = Entries, UNCHANGED nextTicket,
           \A u \in Task : InWait(u)' => InWait(u) /\ Ticket(u)' = Ticket(u),
           \A u \in Task : signalled'[u] = FALSE /\ label'[u] # "cancel"
    PROVE  OwnerInv'
  BY ZenonT(30) DEF OwnerInv, OneOwner, HasEntry

\* Every step of the system keeps the owners apart when no signal is delivered.
LEMMA OwnerStep ==
    ASSUME "signal" \notin Faults, OwnerInv, [FutexNext]_vars
    PROVE  OwnerInv'
<1> USE DEF queue, user, threads, history, AtLabel, GoTo
<1>0. TypeOK /\ TypeOK'
  BY StepTypes, Zenon DEF OwnerInv
<1>1. CASE UNCHANGED vars
  <2>1. \A u \in Task : InWait(u)' => InWait(u) /\ Ticket(u)' = Ticket(u)
    BY <1>1, Zenon DEF vars, InWait, Ticket
  <2> QED
    BY <1>0, <1>1, <2>1, StayingKeepsOwner, Zenon DEF vars, OwnerInv, Entries
<1>2. ASSUME NEW t \in Task, Register(t) PROVE OwnerInv'
  <2> DEFINE new == [ticket |-> nextTicket, mask |-> call[t].mask, life |-> life]
  <2>1. Entries' = Entries \cup {new} /\ nextTicket' = nextTicket + 1
    BY <1>2, Zenon DEF Register, Entries
  <2>2. new.ticket = nextTicket /\ nextTicket \in Nat
    BY <1>0 DEF TypeOK
  <2>3. InWait(t)' /\ Ticket(t)' = nextTicket /\ ~InWait(t)
    BY <1>0, <1>2 DEF Register, InWait, Registered, Ticket, TypeOK
  <2>4. \A u \in Task \ {t} : (InWait(u)' <=> InWait(u)) /\ Ticket(u)' = Ticket(u)
    BY <1>0, <1>2 DEF Register, InWait, Registered, Ticket, TypeOK
  <2>5. \A u \in Task : signalled'[u] = FALSE /\ label'[u] # "cancel"
    BY <1>0, <1>2 DEF Register, OwnerInv, TypeOK
  <2> HIDE DEF new
  <2>6. \A u \in Task : InWait(u) => Ticket(u) # nextTicket
    <3> SUFFICES ASSUME NEW u \in Task, InWait(u) PROVE Ticket(u) # nextTicket
      BY ZenonT(30)
    <3>1. PICK e \in Entries : e.ticket = Ticket(u)
      BY DEF OwnerInv, HasEntry
    <3>2. e.ticket < nextTicket /\ e.ticket \in Nat
      BY <1>0, Zenon DEF OwnerInv, TypeOK, Entries, Waiter
    <3> QED
      BY <2>2, <3>1, <3>2
  <2>7. OneOwner'
    BY <2>3, <2>4, <2>6, Zenon DEF OneOwner, OwnerInv
  <2>8. \A u \in Task : InWait(u)' => HasEntry(u)'
    BY <2>1, <2>2, <2>3, <2>4, Zenon DEF OwnerInv, HasEntry
  <2>9. \A e \in Entries' : e.ticket < nextTicket'
    <3>1. \A e \in Entries : e.ticket \in Nat /\ e.ticket < nextTicket
      BY <1>0, Zenon DEF OwnerInv, TypeOK, Entries, Waiter
    <3> QED
      BY <2>1, <2>2, <3>1
  <2> QED
    BY <1>0, <2>5, <2>7, <2>8, <2>9, Zenon DEF OwnerInv
<1>3. ASSUME NEW t \in Task, Take(t) \/ Timeout(t) PROVE OwnerInv'
  <2>1. FinishWait(t) /\ InWait(t) /\ ~InWait(t)'
    BY <1>0, <1>3, ZenonT(30) DEF Take, Timeout, Return, Leave, InWait, Registered, TypeOK
  <2>2. \A u \in Task \ {t} : label'[u] = label[u] /\ call'[u] = call[u]
    BY <1>0, <1>3 DEF Take, Timeout, Return, Leave, TypeOK
  <2>3. \A u \in Task : signalled'[u] = FALSE /\ label'[u] # "cancel"
    BY <1>0, <1>3, Zenon DEF Take, Timeout, Return, Leave, TypeOK, OwnerInv
  <2> QED
    BY <1>0, <2>1, <2>2, <2>3, FinishKeepsOwner, ZenonT(30)
<1>4. ASSUME NEW t \in Task,
             \/ LoopTop(t) \/ CheckWord(t) \/ CheckTime(t) \/ CheckSignal(t) \/ Yield(t)
             \/ WordFault(t) \/ WaitCall(t) \/ Exit(t) \/ Store(t) \/ Expire(t)
             \/ Remap(t)
      PROVE  OwnerInv'
  <2>1. UNCHANGED <<waiting, woken, nextTicket>>
    BY <1>4, ZenonT(30) DEF LoopTop, CheckWord, CheckTime, CheckSignal, Yield, WordFault, WaitCall,
                Exit, Store, Expire, Remap
  <2>2. \A u \in Task : InWait(u)' => InWait(u) /\ Ticket(u)' = Ticket(u)
    <3>1. CASE LoopTop(t) \/ CheckWord(t)
      BY <1>0, <3>1, ZenonT(30) DEF LoopTop, CheckWord, Return, Leave, InWait, Registered, Ticket, TypeOK
    <3>2. CASE CheckTime(t) \/ CheckSignal(t) \/ Yield(t)
      BY <1>0, <3>2 DEF CheckTime, CheckSignal, Yield, Return, Leave, InWait, Registered, Ticket,
                        TypeOK
    <3>3. CASE WordFault(t) \/ Exit(t)
      BY <1>0, <3>3, ZenonT(30) DEF WordFault, Exit, Return, Leave, InWait, Registered, Ticket, TypeOK
    <3>4. CASE WaitCall(t)
      BY <1>0, <3>4, ZenonT(30) DEF WaitCall, InWait, Registered, Ticket, TypeOK
    <3>5. CASE Store(t) \/ Expire(t) \/ Remap(t)
      BY <1>0, <3>5 DEF Store, Expire, Remap, InWait, Registered, Ticket, TypeOK
    <3> QED BY <1>4, <3>1, <3>2, <3>3, <3>4, <3>5, Zenon
  <2>3. \A u \in Task : signalled'[u] = FALSE /\ label'[u] # "cancel"
    <3>1. CASE LoopTop(t) \/ CheckWord(t) \/ CheckTime(t)
      BY <1>0, <3>1, Zenon DEF LoopTop, CheckWord, CheckTime, Return, Leave, TypeOK, OwnerInv
    <3>2. CASE CheckSignal(t) \/ Yield(t) \/ WordFault(t)
      BY <1>0, <3>2, Zenon DEF CheckSignal, Yield, WordFault, Return, Leave, TypeOK, OwnerInv
    <3>3. CASE WaitCall(t) \/ Exit(t)
      BY <1>0, <3>3, Zenon DEF WaitCall, Exit, Return, Leave, TypeOK, OwnerInv
    <3>4. CASE Store(t) \/ Expire(t) \/ Remap(t)
      BY <1>0, <3>4, Zenon DEF Store, Expire, Remap, TypeOK, OwnerInv
    <3> QED BY <1>4, <3>1, <3>2, <3>3, <3>4, Zenon
  <2> QED
    BY <1>0, <2>1, <2>2, <2>3, StayingKeepsOwner, Zenon DEF Entries
<1>5. ASSUME NEW t \in Task, WakeCall(t) \/ ExitWake(t) PROVE OwnerInv'
  <2>1. Entries' = Entries /\ UNCHANGED nextTicket
    BY <1>5, WakeMoves, ZenonT(30) DEF WakeCall, ExitWake, Entries
  <2>2. \A u \in Task : InWait(u)' => InWait(u) /\ Ticket(u)' = Ticket(u)
    BY <1>0, <1>5 DEF WakeCall, ExitWake, InWait, Registered, Ticket, TypeOK
  <2>3. \A u \in Task : signalled'[u] = FALSE /\ label'[u] # "cancel"
    BY <1>0, <1>5, ZenonT(30) DEF WakeCall, ExitWake, TypeOK, OwnerInv
  <2> QED
    BY <1>0, <2>1, <2>2, <2>3, StayingKeepsOwner, ZenonT(30)
<1>6. ASSUME NEW t \in Task, Cancel(t) \/ Signal(t) PROVE FALSE
  BY <1>6 DEF Cancel, Signal, OwnerInv
<1>7. CASE Recycle
  <2>1. Entries' = Entries /\ UNCHANGED nextTicket
    BY <1>7 DEF Recycle, Entries
  <2>2. \A u \in Task : ~InWait(u)' /\ signalled'[u] = FALSE /\ label'[u] # "cancel"
    BY <1>7 DEF Recycle, InWait, Registered
  <2> QED
    BY <1>0, <2>1, <2>2, StayingKeepsOwner, Zenon
<1>8. CASE Kill
  <2>1. UNCHANGED <<queue, threads>>
    BY <1>8, ZenonT(30) DEF Kill
  <2>2. \A u \in Task : InWait(u)' => InWait(u) /\ Ticket(u)' = Ticket(u)
    BY <2>1 DEF InWait, Ticket
  <2> QED
    BY <1>0, <2>1, <2>2, StayingKeepsOwner, Zenon DEF OwnerInv, Entries
<1> QED
  BY <1>1, <1>2, <1>3, <1>4, <1>5, <1>6, <1>7, <1>8, Zenon DEF FutexNext, Step

\* As long as no signal is delivered to a waiter, two waiters never hold one
\* ticket, though finish_wait drops an empty queue and register_waiter then
\* counts from 0: a token of wake_waiters is taken by the thread it selected.
THEOREM OneOwnerHolds ==
    ASSUME "signal" \notin Faults
    PROVE  FutexSpec => []OneOwner
<1>1. FutexInit => OwnerInv
  BY InitTypes DEF FutexInit, OwnerInv, OneOwner, Entries, InWait, Registered
<1>2. OwnerInv /\ [FutexNext]_vars => OwnerInv'
  BY OwnerStep
<1>3. OwnerInv => OneOwner
  BY DEF OwnerInv
<1> QED
  BY <1>1, <1>2, <1>3, PTL DEF FutexSpec
----------------------------------------------------------------------------
(* FUTEX_WAKE reports and releases the same waiters.                       *)

\* A ticket has one entry and is in one of the two tables, which are finite.
TablesInv ==
    /\ IsFiniteSet(waiting) /\ IsFiniteSet(woken) /\ waiting \cap woken = {}
    /\ \A e, f \in Entries : e.ticket = f.ticket => e = f

WakeInv ==
    /\ OwnerInv /\ TablesInv
    /\ reported \in Nat /\ released \in Nat /\ WakeExact

\* wake_waiters counts what it moves.
LEMMA WakeCounts ==
    ASSUME WakeInv, NEW n, NEW m, WakeWaiters(n, m), UNCHANGED released
    PROVE  TablesInv' /\ reported' \in Nat /\ released' \in Nat /\ WakeExact'
<1> DEFINE s == Selected(n, m)
<1>1. s \subseteq waiting /\ s \cap woken = {} /\ IsFiniteSet(s) /\ IsFiniteSet(woken)
  BY SelectedWaits, FS_Subset DEF WakeInv, TablesInv
<1>2. waiting' = waiting \ s /\ woken' = woken \cup s /\ reported' = reported + Cardinality(s)
  BY DEF WakeWaiters
<1> HIDE DEF s
<1>3. /\ IsFiniteSet(woken \cup s)
      /\ Cardinality(woken \cup s) = Cardinality(woken) + Cardinality(s)
  <2>1. woken \cap s = {}
    BY <1>1
  <2>2. Cardinality(woken \cap s) = 0 /\ Cardinality(woken) \in Nat /\ Cardinality(s) \in Nat
    BY <1>1, <2>1, FS_EmptySet, FS_CardinalityType, ZenonT(30)
  <2>3. /\ IsFiniteSet(woken \cup s)
        /\ Cardinality(woken \cup s) = Cardinality(woken) + Cardinality(s) - Cardinality(woken \cap s)
    BY <1>1, FS_Union
  <2> QED BY <2>2, <2>3
<1>4. IsFiniteSet(waiting \ s)
  BY FS_Subset, Zenon DEF WakeInv, TablesInv
<1>5. TablesInv'
  <2>1. Entries' = Entries /\ waiting' \cap woken' = {}
    BY <1>1, <1>2 DEF Entries, WakeInv, TablesInv
  <2> QED BY <1>2, <1>3, <1>4, <2>1, Zenon DEF WakeInv, TablesInv
<1>6. Cardinality(s) \in Nat /\ Cardinality(woken) \in Nat
  BY <1>1, FS_CardinalityType
<1> QED BY <1>2, <1>3, <1>5, <1>6 DEF WakeInv, WakeExact

\* A waiter that returns 0 takes its token, the only one of its ticket; one that was
\* not selected takes none.
LEMMA ReleaseCounts ==
    ASSUME WakeInv, NEW t \in Task, FinishWait(t), CountReleased(t), UNCHANGED reported
    PROVE  TablesInv' /\ reported' \in Nat /\ released' \in Nat /\ WakeExact'
<1>1. /\ waiting' = {e \in waiting : e.ticket # Ticket(t)}
      /\ woken' = {e \in woken : e.ticket # Ticket(t)}
  BY DEF FinishWait
<1>2. IsFiniteSet(waiting') /\ IsFiniteSet(woken')
  BY <1>1, FS_Subset DEF WakeInv, TablesInv
<1>3. TablesInv'
  BY <1>1, <1>2 DEF WakeInv, TablesInv, Entries
<1>4. CASE IsWoken(t)
  <2>1. PICK e \in woken : e.ticket = Ticket(t)
    BY <1>4 DEF IsWoken
  <2>2. \A f \in woken : f.ticket = Ticket(t) => f = e
    BY <2>1 DEF WakeInv, TablesInv, Entries
  <2>3. woken' = woken \ {e}
    BY <1>1, <2>1, <2>2
  <2>4. Cardinality(woken') = Cardinality(woken) - 1 /\ Cardinality(woken) \in Nat
    BY <2>1, <2>3, FS_RemoveElement, FS_CardinalityType, ZenonT(30) DEF WakeInv, TablesInv
  <2> QED BY <1>3, <1>4, <2>4 DEF WakeInv, WakeExact, CountReleased
<1>5. CASE ~IsWoken(t)
  <2>1. woken' = woken
    BY <1>1, <1>5, Zenon DEF IsWoken
  <2> QED BY <1>3, <1>5, <2>1 DEF WakeInv, WakeExact, CountReleased
<1> QED BY <1>4, <1>5

\* A new registration has a ticket that no entry has, the orphans of EFAULT included.
LEMMA RegisterTables ==
    ASSUME WakeInv, NEW t \in Task, Register(t)
    PROVE  TablesInv'
<1> DEFINE new == [ticket |-> nextTicket, mask |-> call[t].mask, life |-> life]
<1>1. waiting' = waiting \cup {new} /\ woken' = woken /\ new.ticket = nextTicket
  BY DEF Register
<1> HIDE DEF new
<1>2. \A e \in Entries : e.ticket # new.ticket
  <2>1. \A e \in Entries : e.ticket < nextTicket /\ e.ticket \in Nat
    BY DEF WakeInv, OwnerInv, TypeOK, Entries, Waiter
  <2>2. nextTicket \in Nat
    BY DEF WakeInv, OwnerInv, TypeOK
  <2> QED BY <1>1, <2>1, <2>2
<1>3. IsFiniteSet(waiting')
  BY <1>1, FS_AddElement DEF WakeInv, TablesInv
<1>4. Entries' = Entries \cup {new} /\ waiting' \cap woken' = {}
  BY <1>1, <1>2, ZenonT(30) DEF Entries, WakeInv, TablesInv
<1> QED BY <1>1, <1>2, <1>3, <1>4 DEF WakeInv, TablesInv

\* Every step of the system keeps the account when no signal is delivered.
LEMMA WakeStep ==
    ASSUME "signal" \notin Faults, WakeInv, [FutexNext]_vars
    PROVE  WakeInv'
<1> USE DEF queue, user, threads, history
<1>0. OwnerInv'
  BY OwnerStep DEF WakeInv
<1> SUFFICES TablesInv' /\ reported' \in Nat /\ released' \in Nat /\ WakeExact'
  BY <1>0 DEF WakeInv
<1>1. CASE UNCHANGED <<waiting, woken, reported, released>>
  BY <1>1 DEF WakeInv, TablesInv, WakeExact, Entries
<1>2. ASSUME NEW t \in Task, Register(t)
      PROVE  TablesInv' /\ reported' \in Nat /\ released' \in Nat /\ WakeExact'
  <2>1. UNCHANGED <<woken, reported, released>>
    BY <1>2 DEF Register
  <2> QED BY <1>2, <2>1, RegisterTables DEF WakeInv, WakeExact
<1>3. ASSUME NEW t \in Task, Take(t) \/ Timeout(t)
      PROVE  TablesInv' /\ reported' \in Nat /\ released' \in Nat /\ WakeExact'
  BY <1>3, ReleaseCounts, ZenonT(30) DEF Take, Timeout
<1>4. ASSUME NEW t \in Task, WakeCall(t) \/ ExitWake(t)
      PROVE  TablesInv' /\ reported' \in Nat /\ released' \in Nat /\ WakeExact'
  BY <1>4, WakeCounts DEF WakeCall, ExitWake
<1>5. ASSUME NEW t \in Task,
             \/ LoopTop(t) \/ CheckWord(t) \/ CheckTime(t) \/ CheckSignal(t) \/ Yield(t)
             \/ WordFault(t) \/ WaitCall(t) \/ Exit(t) \/ Store(t) \/ Expire(t)
             \/ Remap(t)
      PROVE  UNCHANGED <<waiting, woken, reported, released>>
  BY <1>5, Zenon DEF LoopTop, CheckWord, CheckTime, CheckSignal, Yield, WordFault, WaitCall,
              Exit, Store, Expire, Remap
<1>6. ASSUME NEW t \in Task, Cancel(t) \/ Signal(t) PROVE FALSE
  BY <1>6, ZenonT(30) DEF Cancel, Signal, WakeInv, OwnerInv, AtLabel
<1>7. Kill \/ Recycle \/ UNCHANGED vars => UNCHANGED <<waiting, woken, reported, released>>
  BY ZenonT(30) DEF Kill, Recycle, vars
<1> QED
  BY <1>1, <1>2, <1>3, <1>4, <1>5, <1>6, <1>7, Zenon DEF FutexNext, Step

\* As long as no signal is delivered to a waiter, FUTEX_WAKE reports exactly the waits
\* that return 0 because of it, plus the tokens still in the queue: a wake that races
\* with the deadline, a changed word, a fault of the word or a kill of the process is
\* neither lost nor counted twice.
THEOREM WakeExactHolds ==
    ASSUME "signal" \notin Faults
    PROVE  FutexSpec => []WakeExact
<1>1. FutexInit => WakeInv
  <2> SUFFICES ASSUME FutexInit PROVE WakeInv
    OBVIOUS
  <2>1. OwnerInv
    BY InitTypes DEF FutexInit, OwnerInv, OneOwner, Entries, InWait, Registered
  <2>2. waiting = {} /\ woken = {} /\ reported = 0 /\ released = 0
    BY DEF FutexInit
  <2> QED BY <2>1, <2>2, FS_EmptySet DEF WakeInv, TablesInv, Entries, WakeExact
<1>2. WakeInv /\ [FutexNext]_vars => WakeInv'
  BY WakeStep
<1>3. WakeInv => WakeExact
  BY DEF WakeInv
<1> QED
  BY <1>1, <1>2, <1>3, PTL DEF FutexSpec
============================================================================
