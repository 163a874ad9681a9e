---------------------------- MODULE JournalScan ----------------------------
(***************************************************************************)
(* What writes do to a device, what wrapping does to the positions of the  *)
(* ring, and what recover's loop makes of a log that commit can leave      *)
(* behind, for any sizes of file system, ring and transactions.            *)
(***************************************************************************)
EXTENDS Journal, FiniteSetTheorems, TLAPS

\* Induction, as a statement about sets of numbers.
LEMMA SetInduction ==
    ASSUME NEW S \in SUBSET Nat, 0 \in S, \A n \in S : n + 1 \in S
    PROVE  S = Nat
<1> SUFFICES ASSUME Nat \ S # {} PROVE FALSE
  BY Zenon
<1> DEFINE R == StrictSubsetOrdering(Nat)
           F == FiniteSubsetsOf(Nat)
           T == {0..n : n \in Nat \ S}
<1>1. IsWellFoundedOn(R, F)
  BY FS_StrictSubsetOrderingWellFounded, Zenon
<1>2. T \subseteq F /\ T # {}
  <2>1. \A n \in Nat : 0..n \in SUBSET Nat /\ IsFiniteSet(0..n)
    BY FS_Interval
  <2> QED BY <2>1 DEF FiniteSubsetsOf
<1>3. \A a, b \in SUBSET Nat : <<a, b>> \in R <=> a \subseteq b /\ a # b
  BY Zenon DEF StrictSubsetOrdering
<1> HIDE DEF R, F
<1>4. \E t \in T : \A u \in T : ~(<<u, t>> \in R)
  <2> HIDE DEF T
  <2> QED BY <1>1, <1>2, WFMin, Zenon
<1>5. PICK x \in Nat \ S : \A u \in T : ~(<<u, 0..x>> \in R)
  BY <1>4
<1>6. x > 0 /\ x - 1 \in Nat \ S
  OBVIOUS
<1> DEFINE a == 0..(x - 1)
           b == 0..x
<1>7. a \in T /\ a \in SUBSET Nat /\ b \in SUBSET Nat
  BY <1>6
<1>8. a \subseteq b /\ x \in b /\ x \notin a
  BY <1>6
<1>9. ~(<<a, b>> \in R)
  BY <1>5, <1>7, Zenon
<1> HIDE DEF a, b, T
<1> QED BY <1>3, <1>7, <1>8, <1>9
-----------------------------------------------------------------------------
(* Writes to a device.                                                     *)

\* A set of indices has a last one.
LEMMA LastIndex ==
    ASSUME NEW n \in Nat, NEW I \in SUBSET (1..n), I # {}
    PROVE  Max(I) \in I /\ \A i \in I : i <= Max(I)
<1> DEFINE S == {m \in Nat : \A J \in SUBSET (1..m) : J # {} => \E x \in J : \A y \in J : x >= y}
<1>1. 0 \in S
  <2>1. 1..0 = {}
    OBVIOUS
  <2>2. \A J \in SUBSET {} : J = {}
    OBVIOUS
  <2> QED BY <2>1, <2>2, Zenon
<1>2. ASSUME NEW m \in S PROVE m + 1 \in S
  <2> SUFFICES ASSUME NEW J \in SUBSET (1..(m + 1)), J # {} PROVE \E x \in J : \A y \in J : x >= y
    OBVIOUS
  <2>1. CASE m + 1 \in J
    BY <2>1
  <2>2. CASE m + 1 \notin J
    <3>1. J \in SUBSET (1..m)
      BY <2>2
    <3> QED BY <3>1, <1>2
  <2> QED BY <2>1, <2>2
<1>3. S = Nat
  <2> HIDE DEF S
  <2>1. S \in SUBSET Nat
    BY DEF S
  <2> QED BY <1>1, <1>2, <2>1, SetInduction
<1>4. \E x \in I : \A y \in I : x >= y
  BY <1>3
<1>5. Max(I) \in I /\ \A y \in I : Max(I) >= y
  BY <1>4, Zenon DEF Max
<1> QED BY <1>5

\* The last write to a block wins, and a block that is not written stays.
LEMMA WrittenAt ==
    ASSUME NEW W, NEW ws \in Seq(W), NEW image, NEW a \in DOMAIN image
    PROVE  \/ /\ \A i \in 1..Len(ws) : ws[i].addr # a
              /\ Written(image, ws)[a] = image[a]
           \/ \E i \in 1..Len(ws) :
                /\ ws[i].addr = a /\ \A j \in 1..Len(ws) : j > i => ws[j].addr # a
                /\ Written(image, ws)[a] = ws[i].contents
<1> DEFINE I == {i \in 1..Len(ws) : ws[i].addr = a}
           k == Max(I)
<1>1. Written(image, ws)[a] = IF I = {} THEN image[a] ELSE ws[k].contents
  BY DEF Written
<1>2. CASE I = {}
  BY <1>1, <1>2
<1>3. CASE I # {}
  <2>1. I \in SUBSET (1..Len(ws)) /\ Len(ws) \in Nat
    OBVIOUS
  <2>2. k \in I /\ \A i \in I : i <= k
    <3> HIDE DEF I
    <3> QED BY <1>3, <2>1, LastIndex, Zenon
  <2> HIDE DEF k
  <2>3. k \in 1..Len(ws) /\ ws[k].addr = a /\ Written(image, ws)[a] = ws[k].contents
    BY <2>2, <1>1, <1>3
  <2>4. \A j \in 1..Len(ws) : j > k => ws[j].addr # a
    BY <2>2
  <2> QED BY <2>3, <2>4, Zenon
<1> QED BY <1>2, <1>3

\* A block that no write names keeps its contents.
LEMMA WrittenElsewhere ==
    ASSUME NEW W, NEW ws \in Seq(W), NEW image, NEW a \in DOMAIN image,
           \A i \in 1..Len(ws) : ws[i].addr # a
    PROVE  Written(image, ws)[a] = image[a]
BY WrittenAt

\* The write after which the block is not written again decides.
LEMMA WrittenLast ==
    ASSUME NEW W, NEW ws \in Seq(W), NEW image, NEW a \in DOMAIN image,
           NEW i \in 1..Len(ws), ws[i].addr = a,
           \A j \in 1..Len(ws) : j > i => ws[j].addr # a
    PROVE  Written(image, ws)[a] = ws[i].contents
<1>1. PICK k \in 1..Len(ws) :
          /\ ws[k].addr = a /\ \A j \in 1..Len(ws) : j > k => ws[j].addr # a
          /\ Written(image, ws)[a] = ws[k].contents
  BY WrittenAt
<1>2. k = i
  BY <1>1
<1> QED BY <1>1, <1>2

\* Writes change no device's size.
LEMMA WrittenDomain ==
    ASSUME NEW ws, NEW image
    PROVE  DOMAIN Written(image, ws) = DOMAIN image
           /\ Written(image, ws) = [a \in DOMAIN image |-> Written(image, ws)[a]]
BY DEF Written

\* Two devices are the same when their blocks are.
LEMMA SameWritten ==
    ASSUME NEW ws, NEW image, NEW vs, NEW other, DOMAIN image = DOMAIN other,
           \A a \in DOMAIN image : Written(image, ws)[a] = Written(other, vs)[a]
    PROVE  Written(image, ws) = Written(other, vs)
<1>1. Written(image, ws) = [a \in DOMAIN image |-> Written(image, ws)[a]]
  BY WrittenDomain
<1>2. Written(other, vs) = [a \in DOMAIN other |-> Written(other, vs)[a]]
  BY WrittenDomain
<1> QED BY <1>1, <1>2

\* No writes, no change.
LEMMA WrittenNone ==
    ASSUME NEW A, NEW B, NEW image \in [A -> B]
    PROVE  Written(image, <<>>) = image
<1> DEFINE none == <<>>
<1>1. none \in Seq(B)
  OBVIOUS
<1>0. Len(none) = 0
  OBVIOUS
<1> HIDE DEF none
<1>2. ASSUME NEW a \in A PROVE Written(image, none)[a] = image[a]
  <2>1. \A i \in 1..Len(none) : none[i].addr # a
    BY <1>0
  <2>2. a \in DOMAIN image
    OBVIOUS
  <2> QED BY <1>1, <2>1, <2>2, WrittenElsewhere
<1>3. Written(image, none) = [a \in A |-> Written(image, none)[a]]
  BY WrittenDomain
<1>4. Written(image, none) = image
  BY <1>2, <1>3
<1> QED BY <1>4 DEF none

\* Writes in two parts are the writes of the first and then of the second.
LEMMA WrittenCat ==
    ASSUME NEW W, NEW ws \in Seq(W), NEW vs \in Seq(W), NEW image
    PROVE  Written(image, ws \o vs) = Written(Written(image, ws), vs)
<1> DEFINE us == ws \o vs
           mid == Written(image, ws)
<1>1. us \in Seq(W) /\ Len(us) = Len(ws) + Len(vs) /\ Len(ws) \in Nat /\ Len(vs) \in Nat
  OBVIOUS
<1>2. \A i \in 1..Len(ws) : us[i] = ws[i]
  OBVIOUS
<1>3. \A i \in 1..Len(vs) : us[Len(ws) + i] = vs[i]
  OBVIOUS
<1>4. \A i \in 1..Len(us) : i > Len(ws) => i - Len(ws) \in 1..Len(vs) /\ us[i] = vs[i - Len(ws)]
  BY <1>1, <1>3
<1>5. DOMAIN mid = DOMAIN image
  BY WrittenDomain
<1> HIDE DEF us, mid
<1>6. ASSUME NEW a \in DOMAIN image PROVE Written(image, us)[a] = Written(mid, vs)[a]
  <2>1. CASE \A i \in 1..Len(vs) : vs[i].addr # a
    <3>1. Written(mid, vs)[a] = mid[a]
      BY <1>5, <2>1, WrittenElsewhere
    <3>2. CASE \A i \in 1..Len(ws) : ws[i].addr # a
      <4>1. ASSUME NEW i \in 1..Len(us) PROVE us[i].addr # a
        <5>1. CASE i > Len(ws)
          BY <1>4, <2>1, <5>1
        <5>2. CASE i <= Len(ws)
          BY <1>1, <1>2, <3>2, <5>2
        <5> QED BY <1>1, <5>1, <5>2
      <4>2. Written(image, us)[a] = image[a]
        BY <1>1, <4>1, WrittenElsewhere
      <4>3. mid[a] = image[a]
        BY <3>2, WrittenElsewhere DEF mid
      <4> QED BY <3>1, <4>2, <4>3
    <3>3. CASE \E i \in 1..Len(ws) : ws[i].addr = a
      <4>1. PICK i \in 1..Len(ws) :
                /\ ws[i].addr = a /\ \A j \in 1..Len(ws) : j > i => ws[j].addr # a
                /\ mid[a] = ws[i].contents
        BY <3>3, WrittenAt DEF mid
      <4>2. i \in 1..Len(us) /\ us[i] = ws[i] /\ us[i].addr = a
        BY <1>1, <1>2, <4>1
      <4>3. ASSUME NEW j \in 1..Len(us), j > i PROVE us[j].addr # a
        <5>1. CASE j \in 1..Len(ws)
          BY <1>2, <4>1, <4>3, <5>1
        <5>2. CASE j \notin 1..Len(ws)
          <6>1. j > Len(ws)
            BY <1>1, <5>2
          <6>2. j - Len(ws) \in 1..Len(vs) /\ us[j] = vs[j - Len(ws)]
            BY <1>4, <6>1
          <6> QED BY <2>1, <6>2
        <5> QED BY <5>1, <5>2
      <4>4. Written(image, us)[a] = us[i].contents
        BY <1>1, <4>2, <4>3, WrittenLast
      <4> QED BY <3>1, <4>1, <4>2, <4>4
    <3> QED BY <3>2, <3>3
  <2>2. CASE \E i \in 1..Len(vs) : vs[i].addr = a
    <3>1. PICK i \in 1..Len(vs) :
              /\ vs[i].addr = a /\ \A j \in 1..Len(vs) : j > i => vs[j].addr # a
              /\ Written(mid, vs)[a] = vs[i].contents
      BY <1>5, <2>2, WrittenAt
    <3>2. Len(ws) + i \in 1..Len(us) /\ us[Len(ws) + i] = vs[i]
      BY <1>1, <1>3
    <3> DEFINE k == Len(ws) + i
    <3>3. ASSUME NEW j \in 1..Len(us), j > k PROVE us[j].addr # a
      <4>1. j > Len(ws) /\ j - Len(ws) > i
        BY <1>1, <3>3
      <4>2. j - Len(ws) \in 1..Len(vs) /\ us[j] = vs[j - Len(ws)]
        BY <1>4, <4>1
      <4> QED BY <3>1, <4>1, <4>2
    <3>4. k \in 1..Len(us) /\ us[k].addr = a /\ us[k] = vs[i]
      BY <3>1, <3>2
    <3> HIDE DEF k
    <3>5. Written(image, us)[a] = us[k].contents
      BY <1>1, <3>3, <3>4, WrittenLast, ZenonT(30)
    <3> QED BY <3>1, <3>4, <3>5
  <2> QED BY <2>1, <2>2
<1>7. Written(image, us) = Written(mid, vs)
  BY <1>5, <1>6, SameWritten
<1> QED BY <1>7 DEF us, mid

\* A write is an assignment to its block.
LEMMA WrittenOne ==
    ASSUME NEW A, NEW B, NEW image \in [A -> B], NEW w, w.addr \in A
    PROVE  Written(image, <<w>>) = [image EXCEPT ![w.addr] = w.contents]
<1> DEFINE ws == <<w>>
<1>1. ws \in Seq({w}) /\ Len(ws) = 1 /\ ws[1] = w /\ 1 \in 1..Len(ws)
  OBVIOUS
<1> HIDE DEF ws
<1>2. ASSUME NEW a \in A PROVE Written(image, ws)[a] = IF a = w.addr THEN w.contents ELSE image[a]
  <2>1. CASE a = w.addr
    <3>1. ws[1].addr = a /\ \A j \in 1..Len(ws) : j > 1 => ws[j].addr # a
      BY <1>1, <2>1
    <3>2. Written(image, ws)[a] = ws[1].contents
      BY <1>1, <3>1, WrittenLast
    <3> QED BY <1>1, <2>1, <3>2
  <2>2. CASE a # w.addr
    <3>1. \A j \in 1..Len(ws) : ws[j].addr # a
      BY <1>1, <2>2
    <3>2. Written(image, ws)[a] = image[a]
      BY <1>1, <3>1, WrittenElsewhere
    <3> QED BY <2>2, <3>2
  <2> QED BY <2>1, <2>2
<1>3. Written(image, ws) = [a \in A |-> Written(image, ws)[a]]
  BY WrittenDomain
<1>4. Written(image, ws) = [image EXCEPT ![w.addr] = w.contents]
  BY <1>2, <1>3, Zenon
<1> QED BY <1>4 DEF ws

\* What is written again later might as well not have been written.
LEMMA WrittenOver ==
    ASSUME NEW W, NEW ws \in Seq(W), NEW vs \in Seq(W), NEW image,
           \A i \in 1..Len(ws) : \E j \in 1..Len(vs) : vs[j].addr = ws[i].addr
    PROVE  Written(Written(image, ws), vs) = Written(image, vs)
<1> DEFINE mid == Written(image, ws)
<1>1. DOMAIN mid = DOMAIN image
  BY WrittenDomain
<1>2. ASSUME NEW a \in DOMAIN image PROVE Written(mid, vs)[a] = Written(image, vs)[a]
  <2>1. CASE \A j \in 1..Len(vs) : vs[j].addr # a
    <3>1. \A i \in 1..Len(ws) : ws[i].addr # a
      BY <2>1
    <3>2. mid[a] = image[a]
      BY <3>1, WrittenElsewhere
    <3>3. Written(mid, vs)[a] = mid[a] /\ Written(image, vs)[a] = image[a]
      <4> HIDE DEF mid
      <4> QED BY <1>1, <2>1, WrittenElsewhere
    <3> QED BY <3>2, <3>3
  <2>2. CASE \E j \in 1..Len(vs) : vs[j].addr = a
    <3>1. PICK j \in 1..Len(vs) :
              /\ vs[j].addr = a /\ \A k \in 1..Len(vs) : k > j => vs[k].addr # a
              /\ Written(image, vs)[a] = vs[j].contents
      <4>1. ~ \A i \in 1..Len(vs) : vs[i].addr # a
        BY <2>2
      <4>2. vs \in Seq(W) /\ a \in DOMAIN image
        BY <1>1, Zenon
      <4> QED BY ONLY <4>1, <4>2, WrittenAt
    <3>2. Written(mid, vs)[a] = vs[j].contents
      <4> HIDE DEF mid
      <4> QED BY <1>1, <3>1, WrittenLast
    <3> QED BY <3>1, <3>2
  <2> QED BY <2>1, <2>2
<1> HIDE DEF mid
<1>3. Written(mid, vs) = Written(image, vs)
  BY <1>1, <1>2, SameWritten
<1> QED BY <1>3 DEF mid

\* What the blocks of the device can hold: file contents, the journal's
\* superblock, and the descriptors and commit records of the log.
DataBlock == [kind : {"data"}, val : Nat]
SuperBlock == [kind : {"super"}, head : 0..(LogBlocks - 1), tail : 0..(LogBlocks - 1),
               next_seq : Nat \ {0}, life : Nat]
DescriptorBlock == [kind : {"desc"}, seq : Nat, targets : Seq(Nat), life : Nat]
CommitBlock == [kind : {"commit"}, seq : Nat, crc : Seq(DataBlock)]
Block == DataBlock \cup SuperBlock \cup DescriptorBlock \cup CommitBlock
Device == [Address -> Block]
Write == [addr : Address, contents : Block]

\* Writes of blocks leave a device of blocks.
LEMMA WrittenType ==
    ASSUME NEW image \in Device, NEW ws \in Seq(Write)
    PROVE  Written(image, ws) \in Device
<1>0. image \in [Address -> Block]
  BY DEF Device
<1>1. ASSUME NEW a \in Address PROVE Written(image, ws)[a] \in Block
  <2>1. \A i \in 1..Len(ws) : ws[i] \in Write
    OBVIOUS
  <2>2. \A i \in 1..Len(ws) : ws[i].contents \in Block
    BY <2>1 DEF Write
  <2>3. a \in DOMAIN image /\ image[a] \in Block
    BY <1>0
  <2>4. CASE \A i \in 1..Len(ws) : ws[i].addr # a
    BY <2>3, <2>4, WrittenElsewhere
  <2>5. CASE ~ \A i \in 1..Len(ws) : ws[i].addr # a
    <3>1. \E i \in 1..Len(ws) :
              /\ ws[i].addr = a /\ \A j \in 1..Len(ws) : j > i => ws[j].addr # a
              /\ Written(image, ws)[a] = ws[i].contents
      BY <2>3, <2>5, WrittenAt
    <3> QED BY <2>2, <3>1
  <2> QED BY <2>4, <2>5
<1>2. Written(image, ws) = [a \in Address |-> Written(image, ws)[a]]
  BY <1>0, WrittenDomain
<1> QED BY <1>1, <1>2 DEF Device

\* The file system's part of a device and the writes to it.
LEMMA FsPartWritten ==
    ASSUME NEW image \in Device, NEW W, NEW ws \in Seq(W)
    PROVE  FsPart(Written(image, ws)) = Written(FsPart(image), ws)
<1>1. FsBlock \subseteq Address
  BY JournalAssumption DEF FsBlock, Address
<1> DEFINE fs == FsPart(image)
<1>2. DOMAIN fs = FsBlock /\ \A b \in FsBlock : fs[b] = image[b]
  BY DEF FsPart
<1>3. DOMAIN image = Address
  BY DEF Device
<1> HIDE DEF fs
<1>4. ASSUME NEW b \in FsBlock PROVE Written(image, ws)[b] = Written(fs, ws)[b]
  <2>1. b \in DOMAIN image /\ b \in DOMAIN fs /\ fs[b] = image[b]
    BY <1>1, <1>2, <1>3
  <2>2. CASE \A i \in 1..Len(ws) : ws[i].addr # b
    <3>1. Written(image, ws)[b] = image[b]
      BY <2>1, <2>2, WrittenElsewhere
    <3>2. Written(fs, ws)[b] = fs[b]
      BY <2>1, <2>2, WrittenElsewhere
    <3> QED BY <2>1, <3>1, <3>2
  <2>3. CASE ~ \A i \in 1..Len(ws) : ws[i].addr # b
    <3>1. PICK i \in 1..Len(ws) :
              /\ ws[i].addr = b /\ \A j \in 1..Len(ws) : j > i => ws[j].addr # b
              /\ Written(image, ws)[b] = ws[i].contents
      BY <2>1, <2>3, WrittenAt
    <3>2. Written(fs, ws)[b] = ws[i].contents
      BY <2>1, <3>1, WrittenLast
    <3> QED BY <3>1, <3>2
  <2> QED BY <2>2, <2>3
<1>5. Written(fs, ws) = [b \in FsBlock |-> Written(fs, ws)[b]]
  BY <1>2, WrittenDomain
<1>6. FsPart(Written(image, ws)) = [b \in FsBlock |-> Written(image, ws)[b]]
  BY DEF FsPart
<1>7. FsPart(Written(image, ws)) = Written(fs, ws)
  BY <1>4, <1>5, <1>6
<1> QED BY <1>7 DEF fs
-----------------------------------------------------------------------------
(* Positions in the ring.                                                  *)

\* A position less than two rings away wraps at most once.
LEMMA WrapOnce ==
    ASSUME NEW n \in Nat \ {0}, NEW x \in Nat, x < 2 * n
    PROVE  x % n = IF x < n THEN x ELSE x - n
OBVIOUS

\* The blocks of the log lie behind the superblock.
LEMMA LogAddrAt ==
    ASSUME NEW x \in Nat, x < 2 * LogBlocks
    PROVE  /\ LogAddr(x) = FsBlocks + 1 + (IF x < LogBlocks THEN x ELSE x - LogBlocks)
           /\ LogAddr(x) \in Address /\ LogAddr(x) > SuperAddr
           /\ x % LogBlocks \in 0..(LogBlocks - 1) /\ LogAddr(x % LogBlocks) = LogAddr(x)
<1>1. LogBlocks \in Nat \ {0} /\ FsBlocks \in Nat \ {0}
  BY JournalAssumption
<1>2. x % LogBlocks = IF x < LogBlocks THEN x ELSE x - LogBlocks
  BY <1>1, WrapOnce, Zenon
<1> DEFINE y == x % LogBlocks
<1>3. y \in Nat /\ y < LogBlocks
  BY <1>1, <1>2
<1>4. y % LogBlocks = y
  <2> HIDE DEF y
  <2> QED BY <1>1, <1>3, WrapOnce
<1> QED BY <1>1, <1>2, <1>3, <1>4 DEF LogAddr, Address, SuperAddr

\* Two positions less than a ring apart from a third are different blocks.
LEMMA LogAddrDiffer ==
    ASSUME NEW t \in 0..(LogBlocks - 1), NEW x \in 0..(LogBlocks - 1), NEW y \in 0..(LogBlocks - 1),
           LogAddr(t + x) = LogAddr(t + y)
    PROVE  x = y
<1>1. LogBlocks \in Nat \ {0} /\ FsBlocks \in Nat \ {0}
  BY JournalAssumption
<1>2. t + x \in Nat /\ t + x < 2 * LogBlocks /\ t + y \in Nat /\ t + y < 2 * LogBlocks
  BY <1>1
<1> QED BY <1>1, <1>2, LogAddrAt

\* Wrapping after each of two moves is wrapping after both.
LEMMA WrapTwice ==
    ASSUME NEW t \in 0..(LogBlocks - 1), NEW p \in 0..(LogBlocks - 1), NEW n \in Nat,
           p + n + 2 < LogBlocks
    PROVE  /\ (((t + p) % LogBlocks) + n + 2) % LogBlocks = (t + (p + n + 2)) % LogBlocks
           /\ (t + (p + n + 2)) % LogBlocks \in 0..(LogBlocks - 1)
           /\ LogBlocks - (p + n + 2) \in 0..LogBlocks
<1>1. LogBlocks \in Nat \ {0}
  BY JournalAssumption
<1> DEFINE z == t + p
           u == z % LogBlocks
           x == u + n + 2
           y == t + (p + n + 2)
<1>2. z \in Nat /\ z < 2 * LogBlocks
  BY <1>1
<1>3. u = IF z < LogBlocks THEN z ELSE z - LogBlocks
  <2> HIDE DEF z
  <2> QED BY <1>1, <1>2, WrapOnce, Zenon
<1> HIDE DEF u
<1>4. x \in Nat /\ x < 2 * LogBlocks /\ y \in Nat /\ y < 2 * LogBlocks /\ (x = y \/ x + LogBlocks = y)
  BY <1>1, <1>3
<1> HIDE DEF x, y
<1>5. x % LogBlocks = IF x < LogBlocks THEN x ELSE x - LogBlocks
  BY <1>1, <1>4, WrapOnce, Zenon
<1>6. y % LogBlocks = IF y < LogBlocks THEN y ELSE y - LogBlocks
  BY <1>1, <1>4, WrapOnce, Zenon
<1>7. x % LogBlocks = y % LogBlocks /\ y % LogBlocks \in 0..(LogBlocks - 1)
  BY <1>1, <1>4, <1>5, <1>6
<1>8. LogBlocks - (p + n + 2) \in 0..LogBlocks
  BY <1>1
<1> QED BY <1>7, <1>8 DEF x, y, u, z
-----------------------------------------------------------------------------
(* The log that commit leaves behind.                                      *)

Span(j) == IF j.head >= j.tail THEN j.head - j.tail ELSE j.head + LogBlocks - j.tail

\* The superblock, and what the log holds at its head.
Sb(image) == image[SuperAddr]
Foremost(image) == image[LogAddr(Sb(image).head)]

\* Whether the record at the head is to be replayed, and what that writes.
Live(image) ==
    /\ IsDescriptor(Foremost(image)) /\ Foremost(image).seq = Sb(image).next_seq
    /\ Committed(image, Sb(image).head, Foremost(image))
Replay(image) ==
    [i \in 1..Len(Foremost(image).targets) |->
        BlockWrite(Foremost(image).targets[i], image[LogAddr(Sb(image).head + i)])]

\* P holds the distances from the tail at which the records that the superblock
\* knows to be checkpointed begin, one behind the other up to the head.
Chain(image, P) ==
    /\ P \subseteq 0..Span(Sb(image)) /\ 0 \in P
    /\ \A p \in P : p < Span(Sb(image)) =>
         LET d == image[LogAddr(Sb(image).tail + p)]
         IN  IsDescriptor(d) /\ d.seq < Sb(image).next_seq /\ p + Len(d.targets) + 2 \in P

\* Only the record at the head can be complete and not known to be checkpointed.
OneLive(image) ==
    \A pos \in 0..(LogBlocks - 1) :
        LET d == image[LogAddr(pos)]
        IN  /\ IsDescriptor(d) /\ d.seq = Sb(image).next_seq /\ Committed(image, pos, d)
            => pos = Sb(image).head /\ \A i \in 1..Len(d.targets) : d.targets[i] < FsBlocks

Numbered(image) ==
    \A a \in Address : image[a].kind \in {"desc", "commit"} => image[a].seq <= Sb(image).next_seq

LogSound(image) ==
    /\ Sb(image) \in SuperBlock
    /\ Numbered(image) /\ OneLive(image) /\ \E P : Chain(image, P)

ScanState ==
    [pos : 0..(LogBlocks - 1), expected : Nat, last : Nat, budget : 0..LogBlocks,
     status : {"run", "done", "corrupt"}, writes : Seq(Write)]

\* The scan has come p blocks along the chain, ...
Ahead(s, image, p) ==
    /\ s.status = "run" /\ s.last = 0 /\ s.expected = Sb(image).next_seq
    /\ s.pos = (Sb(image).tail + p) % LogBlocks /\ s.budget = LogBlocks - p
\* ... or is behind it and has found nothing to replay, ...
Missed(s, image) ==
    /\ ~Live(image) /\ s.last = 0 /\ s.expected = Sb(image).next_seq
    /\ s.status \in {"run", "done"}
\* ... or has replayed the record at the head.
Replayed(s, image) ==
    /\ Live(image) /\ s.last = Sb(image).next_seq /\ s.expected = Sb(image).next_seq + 1
    /\ s.status \in {"run", "done"}

\* A descriptor's record fits the ring.
LEMMA DescriptorFits ==
    ASSUME NEW d \in Block, IsDescriptor(d)
    PROVE  /\ d \in DescriptorBlock /\ d.seq \in Nat /\ d.targets \in Seq(Nat)
           /\ Len(d.targets) \in 1..LogBlocks /\ Len(d.targets) + 2 <= LogBlocks
<1>1. d.kind = "desc"
  BY DEF IsDescriptor
<1>2. d \in DescriptorBlock
  BY <1>1 DEF Block, DataBlock, SuperBlock, CommitBlock
<1>3. d.seq \in Nat /\ d.targets \in Seq(Nat)
  BY <1>2 DEF DescriptorBlock
<1>4. LogBlocks \in Nat /\ Len(d.targets) \in Nat /\ Len(d.targets) >= 1 /\ Len(d.targets) + 2 <= LogBlocks
  BY <1>3, JournalAssumption DEF IsDescriptor
<1> QED BY <1>2, <1>3, <1>4

\* The superblock's positions.
LEMMA SuperTyped ==
    ASSUME NEW image, Sb(image) \in SuperBlock
    PROVE  /\ Sb(image).kind = "super"
           /\ Sb(image).head \in 0..(LogBlocks - 1) /\ Sb(image).tail \in 0..(LogBlocks - 1)
           /\ Sb(image).next_seq \in Nat \ {0}
           /\ Span(Sb(image)) \in 0..(LogBlocks - 1)
           /\ (Sb(image).tail + Span(Sb(image))) % LogBlocks = Sb(image).head
<1>1. LogBlocks \in Nat \ {0}
  BY JournalAssumption
<1> DEFINE h == Sb(image).head
           t == Sb(image).tail
           x == t + Span(Sb(image))
<1>2. /\ Sb(image).kind = "super" /\ h \in 0..(LogBlocks - 1) /\ t \in 0..(LogBlocks - 1)
      /\ Sb(image).next_seq \in Nat \ {0}
  BY DEF SuperBlock
<1>3. Span(Sb(image)) \in 0..(LogBlocks - 1)
  BY <1>1, <1>2 DEF Span
<1>4. x \in Nat /\ x < 2 * LogBlocks /\ (x = h \/ x = h + LogBlocks)
  BY <1>1, <1>2, <1>3 DEF Span
<1>5. x % LogBlocks = h
  <2> HIDE DEF x
  <2>1. x % LogBlocks = IF x < LogBlocks THEN x ELSE x - LogBlocks
    BY <1>1, <1>4, WrapOnce, Zenon
  <2> QED BY <1>1, <1>2, <1>4, <2>1
<1> QED BY <1>2, <1>3, <1>5

\* Every block that is read is a block.
LEMMA ReadBlock ==
    ASSUME NEW image \in Device, NEW x \in Nat, x < 2 * LogBlocks
    PROVE  image[LogAddr(x)] \in Block /\ LogAddr(x) \in Address
BY LogAddrAt DEF Device

\* A scan that moves past a record is a scan.
LEMMA PastTyped ==
    ASSUME NEW s \in ScanState, NEW n \in Nat, s.pos + n + 2 < 2 * LogBlocks
    PROVE  /\ Past(s, n) \in ScanState /\ Past(s, n).writes = s.writes
           /\ Past(s, n).status = s.status /\ Past(s, n).last = s.last
           /\ Past(s, n).expected = s.expected
<1>1. LogBlocks \in Nat \ {0} /\ s.pos \in Nat /\ s.budget \in 0..LogBlocks
  BY JournalAssumption DEF ScanState
<1> DEFINE x == s.pos + n + 2
           b == IF s.budget > n + 2 THEN s.budget - (n + 2) ELSE 0
<1>2. b \in 0..LogBlocks /\ x \in Nat /\ x < 2 * LogBlocks
  BY <1>1
<1> HIDE DEF x
<1>3. x % LogBlocks \in 0..(LogBlocks - 1)
  BY <1>2, LogAddrAt
<1>4. Past(s, n) = [s EXCEPT !.pos = x % LogBlocks, !.budget = b]
  BY DEF Past, x
<1> HIDE DEF b
<1> QED BY <1>2, <1>3, <1>4, Zenon DEF ScanState

\* The scan moves past a record of the chain.
LEMMA HopsOn ==
    ASSUME NEW image \in Device, LogSound(image), NEW s \in ScanState,
           NEW P, Chain(image, P), NEW p \in P, Ahead(s, image, p), p < Span(Sb(image))
    PROVE  \E q \in P : /\ q > p /\ Ahead(ScanStep(s, image), image, q)
                        /\ ScanStep(s, image) \in ScanState
                        /\ ScanStep(s, image).writes = s.writes
<1>1. LogBlocks \in Nat \ {0}
  BY JournalAssumption
<1>2. Sb(image) \in SuperBlock
  BY DEF LogSound
<1> DEFINE t == Sb(image).tail
           d == image[LogAddr(t + p)]
           n == Len(d.targets)
           q == p + n + 2
<1>3. t \in 0..(LogBlocks - 1) /\ Span(Sb(image)) \in 0..(LogBlocks - 1) /\ p \in 0..(LogBlocks - 1)
  BY <1>1, <1>2, SuperTyped DEF Chain
<1>4. t + p \in Nat /\ t + p < 2 * LogBlocks
  BY <1>1, <1>3
<1>5. d \in Block /\ LogAddr(s.pos) = LogAddr(t + p)
  BY <1>4, ReadBlock, LogAddrAt DEF Ahead
<1>6. IsDescriptor(d) /\ d.seq < Sb(image).next_seq /\ q \in P /\ q \in 0..Span(Sb(image))
  BY DEF Chain
<1>7. n \in 1..LogBlocks /\ n + 2 <= LogBlocks
  BY <1>5, <1>6, DescriptorFits
<1>8. s.budget # 0 /\ s.budget = LogBlocks - p /\ s.last = 0 /\ s.expected = Sb(image).next_seq
      /\ s.status = "run" /\ s.pos = (t + p) % LogBlocks
  BY <1>1, <1>3 DEF Ahead
<1>9. ScanStep(s, image) = Past(s, n)
  <2> HIDE DEF d
  <2>1. image[LogAddr(s.pos)] = d
    BY <1>5 DEF d
  <2> QED BY <1>6, <1>8, <2>1 DEF ScanStep
<1> HIDE DEF d
<1>10. /\ (s.pos + n + 2) % LogBlocks = (t + q) % LogBlocks
       /\ (t + q) % LogBlocks \in 0..(LogBlocks - 1) /\ LogBlocks - q \in 0..LogBlocks
  <2>1. p + n + 2 < LogBlocks /\ n \in Nat
    BY <1>1, <1>3, <1>6, <1>7
  <2> HIDE DEF t, n
  <2> QED BY <1>3, <1>8, <2>1, WrapTwice
<1>11. s.budget > n + 2 /\ s.budget - (n + 2) = LogBlocks - q /\ q > p
  BY <1>1, <1>3, <1>6, <1>7, <1>8
<1> DEFINE r == Past(s, n)
<1>12. r = [s EXCEPT !.pos = (t + q) % LogBlocks, !.budget = LogBlocks - q]
  BY <1>10, <1>11, Zenon DEF Past
<1> HIDE DEF r
<1>13. /\ r.pos = (t + q) % LogBlocks /\ r.budget = LogBlocks - q /\ r.last = s.last
       /\ r.expected = s.expected /\ r.status = s.status /\ r.writes = s.writes
  BY <1>12 DEF ScanState
<1>14. r \in ScanState
  BY <1>10, <1>12, Zenon DEF ScanState
<1>15. Ahead(r, image, q)
  BY <1>8, <1>13 DEF Ahead
<1> QED BY <1>6, <1>9, <1>11, <1>13, <1>14, <1>15 DEF r

\* The scan at the head takes the record there if it is live, ...
LEMMA TakesLive ==
    ASSUME NEW image \in Device, LogSound(image), NEW s \in ScanState,
           Ahead(s, image, Span(Sb(image))), Live(image)
    PROVE  /\ Replayed(ScanStep(s, image), image) /\ ScanStep(s, image) \in ScanState
           /\ ScanStep(s, image).writes = s.writes \o Replay(image)
           /\ Replay(image) \in Seq(Write)
<1>1. LogBlocks \in Nat \ {0} /\ FsBlocks \in Nat \ {0}
  BY JournalAssumption
<1>2. Sb(image) \in SuperBlock /\ OneLive(image)
  BY DEF LogSound
<1> DEFINE h == Sb(image).head
           d == Foremost(image)
           n == Len(d.targets)
           v == Sb(image).next_seq
           ws == [i \in 1..n |-> BlockWrite(d.targets[i], image[LogAddr(h + i)])]
<1>3. h \in 0..(LogBlocks - 1) /\ v \in Nat \ {0} /\ Span(Sb(image)) \in 0..(LogBlocks - 1)
      /\ (Sb(image).tail + Span(Sb(image))) % LogBlocks = h
  BY <1>2, SuperTyped
<1>4. s.budget # 0 /\ s.last = 0 /\ s.expected = v /\ s.status = "run" /\ s.pos = h
  BY <1>1, <1>3 DEF Ahead
<1>5. IsDescriptor(d) /\ d.seq = v /\ Committed(image, h, d) /\ d = image[LogAddr(h)]
  BY DEF Live, Foremost
<1>6. d \in Block
  <2>1. h \in Nat /\ h < 2 * LogBlocks
    BY <1>1, <1>3
  <2> QED BY <1>5, <2>1, ReadBlock
<1>7. n \in 1..LogBlocks /\ n + 2 <= LogBlocks /\ d.targets \in Seq(Nat)
  BY <1>5, <1>6, DescriptorFits
<1>8. \A i \in 1..n : d.targets[i] < FsBlocks
  BY <1>2, <1>3, <1>5 DEF OneLive
<1>9. ws \in Seq(Write)
  <2>1. ASSUME NEW i \in 1..n PROVE BlockWrite(d.targets[i], image[LogAddr(h + i)]) \in Write
    <3>1. h + i \in Nat /\ h + i < 2 * LogBlocks
      <4>1. h \in 0..(LogBlocks - 1) /\ n \in 1..LogBlocks
        BY <1>3, <1>7, Zenon
      <4> HIDE DEF h, n
      <4> QED BY <1>1, <4>1
    <3>2. image[LogAddr(h + i)] \in Block
      BY <3>1, ReadBlock
    <3>3. d.targets[i] \in Nat /\ d.targets[i] < FsBlocks
      BY <1>7, <1>8
    <3>4. d.targets[i] \in Address
      BY <1>1, <3>3 DEF Address
    <3> QED BY <3>2, <3>4 DEF BlockWrite, Write
  <2>2. n \in Nat
    BY <1>7
  <2> HIDE DEF n, d, h
  <2> QED BY <2>1, <2>2
<1>10. Replay(image) = ws
  BY DEF Replay
<1> DEFINE r == [Past(s, n) EXCEPT !.last = v, !.expected = v + 1, !.writes = @ \o ws]
<1>11. ScanStep(s, image) = r
  <2> HIDE DEF d
  <2>1. image[LogAddr(s.pos)] = d
    BY <1>4, <1>5
  <2>2. ~ \E i \in 1..n : d.targets[i] >= FsBlocks
    <3>1. \A i \in 1..n : d.targets[i] \in Nat /\ d.targets[i] < FsBlocks
      BY <1>7, <1>8
    <3> QED BY <1>1, <3>1
  <2>3. ~(n < n) /\ ~(d.seq < s.expected) /\ d.seq = s.expected
    BY <1>3, <1>4, <1>5, <1>7
  <2> HIDE DEF n, h
  <2>4. Committed(image, s.pos, d)
    BY <1>4, <1>5
  <2>5. [i \in 1..n |-> BlockWrite(d.targets[i], image[LogAddr(s.pos + i)])] = ws
    BY <1>4
  <2> HIDE DEF ws
  <2> QED BY <1>4, <1>5, <2>1, <2>2, <2>3, <2>4, <2>5, ZenonT(30) DEF ScanStep, n
<1> HIDE DEF ws
<1>12. Past(s, n) \in ScanState /\ Past(s, n).writes = s.writes /\ Past(s, n).status = "run"
  <2>1. s.pos + n + 2 \in Nat /\ s.pos + n + 2 < 2 * LogBlocks
    <3>1. s.pos = h /\ h \in 0..(LogBlocks - 1) /\ n \in 1..LogBlocks /\ n + 2 <= LogBlocks
      BY <1>3, <1>4, <1>7, Zenon
    <3> HIDE DEF h, n, d, v, r
    <3> QED BY <1>1, <3>1
  <2> QED BY <1>4, <2>1, PastTyped
<1> DEFINE u == Past(s, n)
<1> HIDE DEF u
<1>13. /\ r.writes = s.writes \o ws /\ r.last = v /\ r.expected = v + 1 /\ r.status = "run"
       /\ r \in ScanState
  <2>1. u \in ScanState /\ u.writes = s.writes /\ u.status = "run"
    BY <1>12 DEF u
  <2>2. u.writes \o ws \in Seq(Write)
    BY <1>9, <2>1 DEF ScanState
  <2>3. r = [u EXCEPT !.last = v, !.expected = v + 1, !.writes = u.writes \o ws]
    BY DEF u
  <2> DEFINE cat == u.writes \o ws
  <2> HIDE DEF r, cat
  <2>4. r.writes = cat /\ r.last = v /\ r.expected = v + 1 /\ r.status = u.status
    BY <2>1, <2>3 DEF ScanState, cat
  <2>5. r \in ScanState
    <3>1. cat \in Seq(Write) /\ v \in Nat /\ v + 1 \in Nat
          /\ r = [u EXCEPT !.last = v, !.expected = v + 1, !.writes = cat]
      BY <1>3, <2>2, <2>3 DEF cat
    <3> HIDE DEF v
    <3> QED BY <2>1, <3>1, Zenon DEF ScanState
  <2> QED BY <2>1, <2>4, <2>5 DEF cat
<1> HIDE DEF r
<1> QED BY <1>9, <1>10, <1>11, <1>13 DEF Replayed

\* A scan that ends changes nothing else.
LEMMA StopTyped ==
    ASSUME NEW s \in ScanState
    PROVE  LET r == [s EXCEPT !.status = "done"]
           IN  /\ r \in ScanState /\ r.writes = s.writes /\ r.status = "done"
               /\ r.last = s.last /\ r.expected = s.expected
BY DEF ScanState

\* ... and finds nothing to replay anywhere else: a record that is complete and
\* not known to be checkpointed is at the head.
LEMMA MissesOn ==
    ASSUME NEW image \in Device, LogSound(image), NEW s \in ScanState,
           Missed(s, image), s.status = "run"
    PROVE  /\ Missed(ScanStep(s, image), image) /\ ScanStep(s, image) \in ScanState
           /\ ScanStep(s, image).writes = s.writes
<1>1. LogBlocks \in Nat \ {0} /\ s.pos \in 0..(LogBlocks - 1)
  BY JournalAssumption DEF ScanState
<1> DEFINE d == image[LogAddr(s.pos)]
           n == Len(d.targets)
           stop == [s EXCEPT !.status = "done"]
<1>2. d \in Block
  <2>1. s.pos \in Nat /\ s.pos < 2 * LogBlocks
    BY <1>1
  <2> QED BY <2>1, ReadBlock
<1>3. stop \in ScanState /\ stop.writes = s.writes /\ Missed(stop, image)
  <2>1. stop \in ScanState /\ stop.writes = s.writes /\ stop.status = "done"
        /\ stop.last = s.last /\ stop.expected = s.expected
    BY StopTyped
  <2> QED BY <2>1 DEF Missed
<1> HIDE DEF d, stop
<1>4. CASE s.budget = 0 \/ ~IsDescriptor(d)
  <2>1. ScanStep(s, image) = stop
    BY <1>4, Zenon DEF ScanStep, d, stop
  <2> QED BY <1>3, <2>1
<1>5. CASE s.budget # 0 /\ IsDescriptor(d) /\ d.seq < s.expected
  <2>1. ScanStep(s, image) = Past(s, n)
    BY <1>5 DEF ScanStep, d, Missed
  <2>2. n \in Nat /\ n + 2 <= LogBlocks
    BY <1>2, <1>5, DescriptorFits
  <2>3. s.pos + n + 2 < 2 * LogBlocks
    BY <1>1, <2>2
  <2> HIDE DEF n
  <2>4. /\ Past(s, n) \in ScanState /\ Past(s, n).writes = s.writes
        /\ Past(s, n).status = s.status /\ Past(s, n).last = s.last
        /\ Past(s, n).expected = s.expected
    BY <2>2, <2>3, PastTyped, Zenon
  <2> QED BY <2>1, <2>4 DEF Missed
<1>6. CASE s.budget # 0 /\ IsDescriptor(d) /\ ~(d.seq < s.expected)
  <2>1. d.seq # s.expected \/ ~Committed(image, s.pos, d)
    <3> SUFFICES ASSUME d.seq = s.expected, Committed(image, s.pos, d) PROVE FALSE
      OBVIOUS
    <3>1. s.expected = Sb(image).next_seq /\ ~Live(image) /\ OneLive(image)
      BY DEF Missed, LogSound
    <3>2. s.pos = Sb(image).head
      BY <1>1, <1>6, <3>1 DEF OneLive, d
    <3>3. Foremost(image) = d
      BY <3>2 DEF Foremost, d
    <3> QED BY <1>6, <3>1, <3>2, <3>3 DEF Live
  <2>2. ScanStep(s, image) = stop
    BY <1>6, <2>1, Zenon DEF ScanStep, d, stop
  <2> QED BY <1>3, <2>2
<1> QED BY <1>4, <1>5, <1>6

\* After the record at the head nothing follows.
LEMMA StopsAfter ==
    ASSUME NEW image \in Device, LogSound(image), NEW s \in ScanState,
           Replayed(s, image), s.status = "run"
    PROVE  /\ Replayed(ScanStep(s, image), image) /\ ScanStep(s, image) \in ScanState
           /\ ScanStep(s, image).writes = s.writes
<1>1. LogBlocks \in Nat \ {0} /\ s.pos \in 0..(LogBlocks - 1)
  BY JournalAssumption DEF ScanState
<1> DEFINE d == image[LogAddr(s.pos)]
           stop == [s EXCEPT !.status = "done"]
<1>2. d \in Block /\ LogAddr(s.pos) \in Address
  <2>1. s.pos \in Nat /\ s.pos < 2 * LogBlocks
    BY <1>1
  <2> QED BY <2>1, ReadBlock
<1>3. stop \in ScanState /\ stop.writes = s.writes /\ Replayed(stop, image)
  <2>1. stop \in ScanState /\ stop.writes = s.writes /\ stop.status = "done"
        /\ stop.last = s.last /\ stop.expected = s.expected
    BY StopTyped
  <2> QED BY <2>1 DEF Replayed
<1>4. Sb(image).next_seq \in Nat \ {0} /\ s.last # 0 /\ s.expected = Sb(image).next_seq + 1
  BY SuperTyped DEF Replayed, LogSound
<1> HIDE DEF d, stop
<1>5. ASSUME IsDescriptor(d) PROVE d.seq # s.expected
  <2>1. d.seq \in Nat /\ d.kind = "desc"
    BY <1>2, <1>5, DescriptorFits DEF IsDescriptor
  <2>2. d.seq <= Sb(image).next_seq
    BY <1>2, <2>1 DEF LogSound, Numbered, d
  <2> QED BY <1>4, <2>1, <2>2
<1>6. ScanStep(s, image) = stop
  BY <1>4, <1>5, Zenon DEF ScanStep, d, stop
<1> QED BY <1>3, <1>6

\* Turn by turn, the scan starts at the tail and goes on as long as it runs.
LEMMA TurnsAre ==
    ASSUME NEW image
    PROVE  /\ Turns(image)[0] = ScanStart(Sb(image))
           /\ \A k \in 1..(LogBlocks + 1) : Turns(image)[k] = Turned(Turns(image)[k - 1], image)
<1> DEFINE Is(f, m) == f = [k \in 0..m |-> IF k = 0 THEN ScanStart(image[SuperAddr])
                                                    ELSE Turned(f[k - 1], image)]
           S == {m \in Nat : \E f : Is(f, m)}
<1>1. 0 \in S
  <2> DEFINE f == [k \in 0..0 |-> ScanStart(image[SuperAddr])]
  <2>1. Is(f, 0)
    OBVIOUS
  <2> QED BY <2>1, Zenon
<1>2. ASSUME NEW m \in S PROVE m + 1 \in S
  <2>1. PICK f : Is(f, m)
    OBVIOUS
  <2>2. m \in Nat
    OBVIOUS
  <2> DEFINE g == [k \in 0..(m + 1) |-> IF k = m + 1 THEN Turned(f[m], image) ELSE f[k]]
  <2>3. ASSUME NEW k \in 0..(m + 1)
        PROVE  g[k] = IF k = 0 THEN ScanStart(image[SuperAddr]) ELSE Turned(g[k - 1], image)
    <3>1. CASE k = m + 1
      <4>1. k # 0 /\ k - 1 = m /\ m \in 0..(m + 1) /\ m # m + 1
        BY <2>2, <3>1
      <4> QED BY <3>1, <4>1
    <3>2. CASE k # m + 1
      <4>1. k \in 0..m
        BY <2>2, <3>2
      <4>2. f[k] = IF k = 0 THEN ScanStart(image[SuperAddr]) ELSE Turned(f[k - 1], image)
        BY <2>1, <4>1
      <4>3. k # 0 => k - 1 \in 0..(m + 1) /\ k - 1 # m + 1
        BY <2>2, <4>1
      <4> QED BY <3>2, <4>2, <4>3
    <3> QED BY <3>1, <3>2
  <2>4. Is(g, m + 1)
    BY <2>3
  <2> HIDE DEF g, Is
  <2>5. m + 1 \in Nat /\ \E h : Is(h, m + 1)
    BY <2>2, <2>4
  <2> QED BY <2>5
<1>3. LogBlocks + 1 \in S
  <2>1. S = Nat
    <3> HIDE DEF S
    <3>1. S \in SUBSET Nat
      BY DEF S
    <3> QED BY <1>1, <1>2, <3>1, SetInduction
  <2>2. LogBlocks + 1 \in Nat
    BY JournalAssumption
  <2> HIDE DEF S
  <2> QED BY <2>1, <2>2
<1>4. Turns(image) = CHOOSE f : Is(f, LogBlocks + 1)
  BY DEF Turns
<1>5. Is(Turns(image), LogBlocks + 1)
  BY <1>3, <1>4
<1> DEFINE T == Turns(image)
<1>6. T = [k \in 0..(LogBlocks + 1) |-> IF k = 0 THEN ScanStart(image[SuperAddr])
                                                 ELSE Turned(T[k - 1], image)]
  BY <1>5, Zenon
<1> HIDE DEF T
<1>7. 0 \in 0..(LogBlocks + 1) /\ \A k \in 1..(LogBlocks + 1) : k \in 0..(LogBlocks + 1) /\ k # 0
  BY JournalAssumption
<1>8. T[0] = ScanStart(image[SuperAddr])
      /\ \A k \in 1..(LogBlocks + 1) : T[k] = Turned(T[k - 1], image)
  BY <1>6, <1>7, Zenon
<1> QED BY <1>8 DEF T, Sb

\* A turn is a step while the scan runs.
LEMMA TurnedIs ==
    ASSUME NEW s, NEW image
    PROVE  Turned(s, image) = IF s.status = "run" THEN ScanStep(s, image) ELSE s
<1> DEFINE r == IF s.status = "run" THEN ScanStep(s, image) ELSE s
           R == {IF t.status = "run" THEN ScanStep(t, image) ELSE t : t \in {s}}
<1>1. \A x : x \in R <=> x = r
  OBVIOUS
<1>2. Turned(s, image) = CHOOSE x \in R : TRUE
  BY DEF Turned
<1> HIDE DEF r, R
<1>3. Turned(s, image) \in R
  BY <1>1, <1>2
<1> QED BY <1>1, <1>3 DEF r

\* Where a scan can be after k turns.
Scanning(s, image, k) ==
    /\ s \in ScanState
    /\ \/ \E P : Chain(image, P) /\ \E p \in P : p >= k /\ Ahead(s, image, p)
       \/ Missed(s, image) \/ Replayed(s, image)

\* A scan starts at the tail.
LEMMA ScanBegins ==
    ASSUME NEW image \in Device, LogSound(image)
    PROVE  /\ Scanning(ScanStart(Sb(image)), image, 0) /\ ScanStart(Sb(image)).writes = <<>>
           /\ ~Replayed(ScanStart(Sb(image)), image)
<1> DEFINE t == Sb(image).tail
           v == Sb(image).next_seq
           s == ScanStart(Sb(image))
<1>1. LogBlocks \in Nat \ {0} /\ t \in 0..(LogBlocks - 1) /\ v \in Nat \ {0}
  BY JournalAssumption, SuperTyped DEF LogSound
<1>2. t % LogBlocks = t
  <2> HIDE DEF t
  <2> QED BY <1>1, WrapOnce
<1>3. s.writes = <<>> /\ s.status = "run" /\ s.last = 0 /\ s.expected = v
      /\ s.pos = t /\ s.budget = LogBlocks
  BY DEF ScanStart
<1>4. s \in ScanState
  <2> DEFINE none == <<>>
  <2>1. none \in Seq(Write)
    OBVIOUS
  <2> HIDE DEF none, t, v
  <2>2. s = [pos |-> t, expected |-> v, last |-> 0, budget |-> LogBlocks,
             status |-> "run", writes |-> none]
    BY DEF ScanStart, t, v, none
  <2>3. v \in Nat /\ LogBlocks \in 0..LogBlocks
    BY <1>1
  <2> QED BY <1>1, <2>1, <2>2, <2>3 DEF ScanState
<1>5. Ahead(s, image, 0)
  <2>1. t + 0 = t /\ LogBlocks - 0 = LogBlocks
    BY <1>1
  <2> HIDE DEF s
  <2> QED BY <1>2, <1>3, <2>1 DEF Ahead
<1>6. ~Replayed(s, image)
  <2> HIDE DEF s
  <2> QED BY <1>1, <1>3 DEF Replayed
<1>7. PICK P : Chain(image, P)
  BY DEF LogSound
<1>8. 0 \in P /\ 0 >= 0
  BY <1>7 DEF Chain
<1> HIDE DEF s
<1> QED BY <1>3, <1>4, <1>5, <1>6, <1>7, <1>8, Zenon DEF Scanning, s

\* A turn of the scan: it replays the record at the head once, and writes nothing
\* otherwise.
LEMMA ScanAdvances ==
    ASSUME NEW image \in Device, LogSound(image), NEW s, NEW k \in Nat,
           Scanning(s, image, k), s.status = "run"
    PROVE  LET r == ScanStep(s, image)
           IN  /\ Scanning(r, image, k + 1)
               /\ \/ r.writes = s.writes /\ (Replayed(r, image) <=> Replayed(s, image))
                  \/ /\ ~Replayed(s, image) /\ Replayed(r, image) /\ Replay(image) \in Seq(Write)
                     /\ r.writes = s.writes \o Replay(image)
<1> DEFINE r == ScanStep(s, image)
<1>1. s \in ScanState
  BY DEF Scanning
<1>0. LogBlocks \in Nat \ {0} /\ Sb(image).next_seq \in Nat \ {0}
  BY JournalAssumption, SuperTyped DEF LogSound
<1>2. CASE Missed(s, image)
  <2>1. Missed(r, image) /\ r \in ScanState /\ r.writes = s.writes
    BY <1>1, <1>2, MissesOn
  <2> HIDE DEF r
  <2>2. ~Replayed(s, image) /\ ~Replayed(r, image)
    BY <1>2, <2>1 DEF Missed, Replayed
  <2> QED BY <2>1, <2>2 DEF Scanning, r
<1>3. CASE Replayed(s, image)
  <2>1. Replayed(r, image) /\ r \in ScanState /\ r.writes = s.writes
    BY <1>1, <1>3, StopsAfter
  <2> HIDE DEF r
  <2> QED BY <1>3, <2>1, Zenon DEF Scanning, r
<1>4. ASSUME NEW P, Chain(image, P), NEW p \in P, p >= k, Ahead(s, image, p), ~Missed(s, image)
      PROVE  /\ Scanning(r, image, k + 1)
             /\ \/ r.writes = s.writes /\ (Replayed(r, image) <=> Replayed(s, image))
                \/ /\ ~Replayed(s, image) /\ Replayed(r, image) /\ Replay(image) \in Seq(Write)
                   /\ r.writes = s.writes \o Replay(image)
  <2>1. ~Replayed(s, image)
    BY <1>0, <1>4, ZenonT(30) DEF Ahead, Replayed
  <2>2. Span(Sb(image)) \in Nat /\ p \in 0..Span(Sb(image)) /\ p \in Nat
    <3>1. Span(Sb(image)) \in 0..(LogBlocks - 1) /\ p \in 0..Span(Sb(image))
      BY <1>4, SuperTyped, Zenon DEF Chain, LogSound
    <3>2. LogBlocks \in Nat \ {0}
      BY JournalAssumption, Zenon
    <3> QED BY ONLY <3>1, <3>2
  <2>3. CASE p < Span(Sb(image))
    <3>1. PICK q \in P : /\ q > p /\ Ahead(r, image, q) /\ r \in ScanState
                         /\ r.writes = s.writes
      BY <1>1, <1>4, <2>3, HopsOn
    <3> HIDE DEF r
    <3>2. q \in Nat /\ q >= k + 1
      BY <1>4, <2>2, <3>1 DEF Chain
    <3>3. ~Replayed(r, image)
      BY <1>0, <3>1 DEF Ahead, Replayed
    <3> QED BY <1>4, <2>1, <3>1, <3>2, <3>3 DEF Scanning
  <2>4. CASE p = Span(Sb(image))
    <3>1. Live(image)
      BY <1>4 DEF Missed, Ahead
    <3>2. /\ Replayed(r, image) /\ r \in ScanState /\ Replay(image) \in Seq(Write)
          /\ r.writes = s.writes \o Replay(image)
      BY <1>1, <1>4, <2>4, <3>1, TakesLive
    <3> HIDE DEF r
    <3> QED BY <2>1, <3>2, Zenon DEF Scanning
  <2> QED BY <2>2, <2>3, <2>4
<1> HIDE DEF r
<1>5. \/ \E P : Chain(image, P) /\ \E p \in P : p >= k /\ Ahead(s, image, p)
      \/ Missed(s, image) \/ Replayed(s, image)
  BY DEF Scanning
<1> QED BY <1>2, <1>3, <1>4, <1>5 DEF r

\* A scan that has ended has read the whole log: it has replayed the record at
\* the head if that is live, and nothing else.
LEMMA ScanEnds ==
    ASSUME NEW image, LogSound(image), NEW s, NEW k \in Nat, Scanning(s, image, k),
           s.status # "run" \/ k > LogBlocks
    PROVE  IF Live(image) THEN Replayed(s, image) ELSE Missed(s, image)
<1>1. ASSUME NEW P, Chain(image, P), NEW p \in P, p >= k, Ahead(s, image, p) PROVE FALSE
  <2>1. LogBlocks \in Nat \ {0} /\ Span(Sb(image)) \in 0..(LogBlocks - 1)
    BY JournalAssumption, SuperTyped DEF LogSound
  <2>2. p \in 0..Span(Sb(image))
    BY <1>1 DEF Chain
  <2>3. s.status = "run" /\ k > LogBlocks
    BY <1>1 DEF Ahead
  <2>4. p >= k
    BY <1>1, Zenon
  <2> QED BY ONLY <2>1, <2>2, <2>3, <2>4, k \in Nat
<1>2. Missed(s, image) \/ Replayed(s, image)
  BY <1>1 DEF Scanning
<1> QED BY <1>2 DEF Missed, Replayed

\* What a mount makes of a device: the record at the head is applied if it is live.
Outcome(image) ==
    IF Sb(image).kind = "super" /\ Live(image)
    THEN FsPart(Written(image, Replay(image))) ELSE FsPart(image)

\* The whole of recover's loop, over any log that commit can leave behind.
LEMMA RecoveredIs ==
    ASSUME NEW image \in Device, Sb(image).kind = "super" => LogSound(image)
    PROVE  Recovered(image) = Outcome(image)
<1>1. CASE Sb(image).kind # "super"
  BY <1>1 DEF Recovered, Outcome, Sb
<1>2. CASE Sb(image).kind = "super"
  <2> DEFINE T == Turns(image)
             Good(k) == /\ Scanning(T[k], image, k)
                        /\ T[k].writes = IF Replayed(T[k], image) THEN Replay(image) ELSE <<>>
             S == {k \in Nat : k <= LogBlocks + 1 => Good(k)}
  <2>1. T[0] = ScanStart(Sb(image)) /\ \A k \in 1..(LogBlocks + 1) : T[k] = Turned(T[k - 1], image)
    BY TurnsAre
  <2> HIDE DEF T
  <2>2. 0 \in S
    BY <1>2, <2>1, ScanBegins, Zenon
  <2>3. ASSUME NEW k \in S PROVE k + 1 \in S
    <3> SUFFICES ASSUME k + 1 <= LogBlocks + 1 PROVE Good(k + 1)
      OBVIOUS
    <3>1. k \in Nat /\ LogBlocks \in Nat
      BY JournalAssumption
    <3>2. k + 1 \in 1..(LogBlocks + 1) /\ (k + 1) - 1 = k /\ k <= LogBlocks + 1
      BY <3>1
    <3>3. Good(k)
      BY <3>2
    <3> DEFINE s == T[k]
               r == T[k + 1]
    <3>4. r = IF s.status = "run" THEN ScanStep(s, image) ELSE s
      BY <2>1, <3>2, TurnedIs, ZenonT(30)
    <3>5. Scanning(s, image, k) /\ s \in ScanState
      BY <3>3 DEF Scanning
    <3>6. CASE s.status = "run"
      <4> DEFINE u == ScanStep(s, image)
      <4>1. /\ Scanning(u, image, k + 1)
            /\ \/ u.writes = s.writes /\ (Replayed(u, image) <=> Replayed(s, image))
               \/ /\ ~Replayed(s, image) /\ Replayed(u, image) /\ Replay(image) \in Seq(Write)
                  /\ u.writes = s.writes \o Replay(image)
        <5> HIDE DEF s
        <5> QED BY <1>2, <3>1, <3>5, <3>6, ScanAdvances, Zenon
      <4>2. u = r
        BY <3>4, <3>6, Zenon
      <4> HIDE DEF u, s, r
      <4>3. CASE u.writes = s.writes /\ (Replayed(u, image) <=> Replayed(s, image))
        BY <3>3, <4>1, <4>2, <4>3, Zenon DEF s, r
      <4>4. CASE /\ ~Replayed(s, image) /\ Replayed(u, image) /\ Replay(image) \in Seq(Write)
                 /\ u.writes = s.writes \o Replay(image)
        <5>1. s.writes = <<>>
          BY <3>3, <4>4 DEF s
        <5>2. u.writes = Replay(image)
          <6> DEFINE w == Replay(image)
          <6> HIDE DEF w
          <6>1. w \in Seq(Write) /\ u.writes = <<>> \o w
            BY <4>4, <5>1 DEF w
          <6>2. u.writes = w
            BY <6>1
          <6> QED BY <6>2 DEF w
        <5> QED BY <4>1, <4>2, <4>4, <5>2 DEF r
      <4> QED BY <4>1, <4>3, <4>4, Zenon
    <3>7. CASE s.status # "run"
      <4>1. r = s
        BY <3>4, <3>7, Zenon
      <4>2. Scanning(s, image, k + 1)
        <5> HIDE DEF s
        <5>1. \A P, p : Ahead(s, image, p) => s.status = "run"
          BY DEF Ahead
        <5>2. Missed(s, image) \/ Replayed(s, image)
          BY <3>5, <3>7, <5>1 DEF Scanning
        <5> QED BY <3>5, <5>2 DEF Scanning
      <4> QED BY <3>3, <4>1, <4>2
    <3> QED BY <3>6, <3>7, Zenon
  <2>4. S = Nat
    <3> HIDE DEF S
    <3>1. S \in SUBSET Nat
      BY DEF S
    <3> QED BY <2>2, <2>3, <3>1, SetInduction
  <2>5. LogBlocks + 1 \in Nat /\ LogBlocks + 1 > LogBlocks /\ LogBlocks + 1 <= LogBlocks + 1
    BY JournalAssumption
  <2>6. Good(LogBlocks + 1)
    BY <2>4, <2>5
  <2> DEFINE e == T[LogBlocks + 1]
  <2>7. IF Live(image) THEN Replayed(e, image) ELSE Missed(e, image)
    BY <1>2, <2>5, <2>6, ScanEnds
  <2>8. e.writes = IF Live(image) THEN Replay(image) ELSE <<>>
    <3> HIDE DEF e
    <3>1. e.writes = IF Replayed(e, image) THEN Replay(image) ELSE <<>>
      BY <2>6 DEF e
    <3> QED BY <2>7, <3>1 DEF Replayed, Missed
  <2>9. Recovered(image) = FsPart(Written(image, e.writes))
    BY <1>2 DEF Recovered, Sb, T
  <2>10. Written(image, <<>>) = image
    BY WrittenNone DEF Device
  <2> HIDE DEF e
  <2> QED BY <1>2, <2>8, <2>9, <2>10 DEF Outcome
<1> QED BY <1>1, <1>2, Zenon
============================================================================
