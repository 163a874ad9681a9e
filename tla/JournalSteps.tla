---------------------------- MODULE JournalSteps ----------------------------
(***************************************************************************)
(* The devices that a power loss can leave behind, what all of them        *)
(* recover to at each place of the thread that owns the journal, and that  *)
(* the steps of the device, of commit after its beginning, of opening and  *)
(* of the scan keep this, on a device that destages writes in order.       *)
(***************************************************************************)
EXTENDS JournalLog

\* Every device that a power loss can leave behind, if it destages in order.
ImagesOf(m, c) == {Written(m, SubSeq(c, 1, k)) : k \in 0..Len(c)}

\* The ones among them that lose a write.
PartsOf(m, c) == {Written(m, SubSeq(c, 1, k)) : k \in 0..(Len(c) - 1)}

\* The medium is the device that loses every cached write, the view the one that
\* loses none.
LEMMA ImagesHave ==
    ASSUME NEW m \in Device, NEW c \in Seq(Write)
    PROVE  /\ m \in ImagesOf(m, c) /\ Written(m, c) \in ImagesOf(m, c)
           /\ \A image \in ImagesOf(m, c) : image \in Device
<1>1. SubSeq(c, 1, 0) = <<>> /\ SubSeq(c, 1, Len(c)) = c /\ Len(c) \in Nat
  OBVIOUS
<1>2. Written(m, <<>>) = m
  BY WrittenNone, Zenon DEF Device
<1>3. m \in ImagesOf(m, c)
  <2>1. m = Written(m, SubSeq(c, 1, 0))
    BY <1>1, <1>2, Zenon
  <2>2. 0 \in 0..Len(c)
    BY <1>1
  <2> QED BY <2>1, <2>2 DEF ImagesOf
<1>4. Written(m, c) \in ImagesOf(m, c)
  <2>1. Written(m, c) = Written(m, SubSeq(c, 1, Len(c)))
    BY <1>1, Zenon
  <2>2. Len(c) \in 0..Len(c)
    BY <1>1
  <2> QED BY <2>1, <2>2 DEF ImagesOf
<1>5. ASSUME NEW k \in 0..Len(c) PROVE Written(m, SubSeq(c, 1, k)) \in Device
  <2> DEFINE s == SubSeq(c, 1, k)
  <2>1. s \in Seq(Write)
    OBVIOUS
  <2> HIDE DEF s
  <2>2. Written(m, s) \in Device
    BY <2>1, WrittenType
  <2> QED BY <2>2 DEF s
<1> QED BY <1>3, <1>4, <1>5 DEF ImagesOf

\* A device that loses no write is the view.
LEMMA PartsHave ==
    ASSUME NEW m \in Device, NEW c \in Seq(Write)
    PROVE  /\ \A image \in ImagesOf(m, c) : image \in PartsOf(m, c) \/ image = Written(m, c)
           /\ PartsOf(m, c) \subseteq ImagesOf(m, c)
           /\ Len(c) > 0 => m \in PartsOf(m, c)
<1>1. SubSeq(c, 1, 0) = <<>> /\ SubSeq(c, 1, Len(c)) = c /\ Len(c) \in Nat
  OBVIOUS
<1>2. ASSUME NEW k \in 0..Len(c)
      PROVE  Written(m, SubSeq(c, 1, k)) \in PartsOf(m, c) \/ Written(m, SubSeq(c, 1, k)) = Written(m, c)
  <2>1. CASE k = Len(c)
    BY <1>1, <2>1, Zenon
  <2>2. CASE k # Len(c)
    <3> DEFINE n == Len(c)
    <3>1. n \in Nat /\ k \in 0..n /\ k # n
      BY <2>2
    <3> HIDE DEF n
    <3>2. k \in 0..(n - 1)
      BY <3>1
    <3> QED BY <3>2 DEF PartsOf, n
  <2> QED BY <2>1, <2>2
<1>3. PartsOf(m, c) \subseteq ImagesOf(m, c)
  <2> SUFFICES ASSUME NEW k \in 0..(Len(c) - 1) PROVE Written(m, SubSeq(c, 1, k)) \in ImagesOf(m, c)
    BY DEF PartsOf
  <2>1. k \in 0..Len(c)
    BY <1>1
  <2> QED BY <2>1 DEF ImagesOf
<1>4. ASSUME Len(c) > 0 PROVE m \in PartsOf(m, c)
  <2>1. 0 \in 0..(Len(c) - 1)
    BY <1>1, <1>4
  <2>2. Written(m, SubSeq(c, 1, 0)) = m
    <3>1. Written(m, <<>>) = m
      BY WrittenNone, Zenon DEF Device
    <3> QED BY <1>1, <3>1, Zenon
  <2>3. Written(m, SubSeq(c, 1, 0)) \in PartsOf(m, c)
    BY <2>1 DEF PartsOf
  <2> QED BY <2>2, <2>3
<1> QED BY <1>2, <1>3, <1>4 DEF ImagesOf

\* The first k of two sequences of writes.
LEMMA PrefixWritten ==
    ASSUME NEW m \in Device, NEW c \in Seq(Write), NEW ws \in Seq(Write),
           NEW k \in 0..Len(c \o ws)
    PROVE  /\ k <= Len(c) => Written(m, SubSeq(c \o ws, 1, k)) = Written(m, SubSeq(c, 1, k))
           /\ k > Len(c) => Written(m, SubSeq(c \o ws, 1, k))
                             = Written(Written(m, c), SubSeq(ws, 1, k - Len(c)))
<1>1. Len(c \o ws) = Len(c) + Len(ws) /\ Len(c) \in Nat /\ Len(ws) \in Nat
  OBVIOUS
<1>2. ASSUME k <= Len(c) PROVE SubSeq(c \o ws, 1, k) = SubSeq(c, 1, k)
  BY <1>1, <1>2
<1>3. ASSUME k > Len(c)
      PROVE  Written(m, SubSeq(c \o ws, 1, k)) = Written(Written(m, c), SubSeq(ws, 1, k - Len(c)))
  <2> DEFINE i == k - Len(c)
             vs == SubSeq(ws, 1, i)
  <2>1. i \in 1..Len(ws)
    BY <1>1, <1>3
  <2>2. SubSeq(c \o ws, 1, k) = c \o vs /\ vs \in Seq(Write)
    BY <1>1, <1>3, <2>1
  <2> HIDE DEF vs
  <2>3. Written(m, c \o vs) = Written(Written(m, c), vs)
    BY <2>2, WrittenCat
  <2> HIDE DEF i
  <2>4. Written(m, SubSeq(c \o ws, 1, k)) = Written(Written(m, c), vs)
    BY <2>2, <2>3, Zenon
  <2> QED BY <2>4 DEF vs, i
<1> QED BY <1>2, <1>3, Zenon

\* Writes add the devices that have some of them on top of the view.
LEMMA ImagesWrite ==
    ASSUME NEW m \in Device, NEW c \in Seq(Write), NEW ws \in Seq(Write)
    PROVE  /\ c \o ws \in Seq(Write) /\ Written(m, c \o ws) = Written(Written(m, c), ws)
           /\ \A image \in ImagesOf(m, c \o ws) :
                \/ image \in ImagesOf(m, c)
                \/ \E k \in 1..Len(ws) : image = Written(Written(m, c), SubSeq(ws, 1, k))
           /\ \A image \in PartsOf(m, c \o ws) :
                \/ image \in ImagesOf(m, c)
                \/ \E k \in 1..(Len(ws) - 1) : image = Written(Written(m, c), SubSeq(ws, 1, k))
<1> DEFINE cs == c \o ws
           V == Written(m, c)
<1>1. cs \in Seq(Write) /\ Written(m, cs) = Written(V, ws)
  BY WrittenCat
<1>2. Len(cs) = Len(c) + Len(ws) /\ Len(c) \in Nat /\ Len(ws) \in Nat
  OBVIOUS
<1>3. ASSUME NEW k \in 0..Len(cs)
      PROVE  /\ k <= Len(c) => Written(m, SubSeq(cs, 1, k)) = Written(m, SubSeq(c, 1, k))
             /\ k > Len(c) => Written(m, SubSeq(cs, 1, k)) = Written(V, SubSeq(ws, 1, k - Len(c)))
  BY PrefixWritten
<1> HIDE DEF cs, V
<1>4. ASSUME NEW k \in 0..Len(cs), k <= Len(c) PROVE Written(m, SubSeq(cs, 1, k)) \in ImagesOf(m, c)
  <2>1. k \in 0..Len(c)
    BY <1>2, <1>4
  <2> QED BY <1>3, <1>4, <2>1 DEF ImagesOf
<1>5. ASSUME NEW image \in ImagesOf(m, cs)
      PROVE  image \in ImagesOf(m, c) \/ \E i \in 1..Len(ws) : image = Written(V, SubSeq(ws, 1, i))
  <2>1. PICK k \in 0..Len(cs) : image = Written(m, SubSeq(cs, 1, k))
    BY DEF ImagesOf
  <2>2. CASE k > Len(c)
    <3>1. k - Len(c) \in 1..Len(ws)
      BY <1>2, <2>2
    <3> QED BY <1>3, <2>1, <2>2, <3>1
  <2> QED BY <1>2, <1>4, <2>1, <2>2
<1>6. ASSUME NEW image \in PartsOf(m, cs)
      PROVE  image \in ImagesOf(m, c) \/ \E i \in 1..(Len(ws) - 1) : image = Written(V, SubSeq(ws, 1, i))
  <2>1. PICK k \in 0..(Len(cs) - 1) : image = Written(m, SubSeq(cs, 1, k))
    BY DEF PartsOf
  <2>2. k \in 0..Len(cs)
    BY <1>2
  <2>3. CASE k > Len(c)
    <3>1. k - Len(c) \in 1..(Len(ws) - 1)
      BY <1>2, <2>3
    <3> QED BY <1>3, <2>1, <2>2, <2>3, <3>1
  <2> QED BY <1>2, <1>4, <2>1, <2>2, <2>3
<1> QED BY <1>1, <1>5, <1>6 DEF cs, V

\* After a flush and one write there are two such devices.
LEMMA ImagesFlush ==
    ASSUME NEW m \in Device, NEW w \in Write
    PROVE  /\ <<w>> \in Seq(Write)
           /\ \A image \in ImagesOf(m, <<w>>) : image = m \/ image = Written(m, <<w>>)
<1> DEFINE ws == <<w>>
<1>0. ws \in Seq(Write) /\ Len(ws) = 1
  OBVIOUS
<1>1. ws \in Seq(Write) /\ Len(ws) = 1 /\ SubSeq(ws, 1, 0) = <<>> /\ SubSeq(ws, 1, 1) = ws
  <2> HIDE DEF ws
  <2>1. SubSeq(ws, 1, 0) = <<>>
    BY <1>0
  <2>2. SubSeq(ws, 1, 1) = ws
    BY <1>0
  <2> QED BY <1>0, <2>1, <2>2
<1> HIDE DEF ws
<1>2. Written(m, <<>>) = m
  BY WrittenNone DEF Device
<1>3. \A k \in 0..Len(ws) : k = 0 \/ k = 1
  BY <1>1
<1>4. \A image \in ImagesOf(m, ws) : image = m \/ image = Written(m, ws)
  BY <1>1, <1>2, <1>3, Zenon DEF ImagesOf
<1> QED BY <1>1, <1>4 DEF ws

\* With nothing cached there is one.
LEMMA ImagesNone ==
    ASSUME NEW m \in Device
    PROVE  /\ <<>> \in Seq(Write) /\ Written(m, <<>>) = m
           /\ \A image \in ImagesOf(m, <<>>) : image = m
<1> DEFINE ws == <<>>
<1>1. ws \in Seq(Write) /\ Len(ws) = 0 /\ SubSeq(ws, 1, 0) = ws
  OBVIOUS
<1> HIDE DEF ws
<1>2. Written(m, ws) = m
  BY WrittenNone DEF Device, ws
<1>3. ASSUME NEW k \in 0..Len(ws) PROVE Written(m, SubSeq(ws, 1, k)) = m
  <2>1. k = 0
    BY <1>1
  <2> QED BY <1>1, <1>2, <2>1, Zenon
<1>4. \A image \in ImagesOf(m, ws) : image = m
  BY <1>3 DEF ImagesOf
<1> QED BY <1>1, <1>2, <1>4 DEF ws

\* The medium once the oldest cached write is destaged.
Destaged(m, c) == [m EXCEPT ![c[1].addr] = c[1].contents]

\* Destaging the oldest write makes it certain.
LEMMA ImagesDestage ==
    ASSUME NEW m \in Device, NEW c \in Seq(Write), Len(c) > 0, NEW m2, NEW c2,
           m2 = Destaged(m, c), c2 = Without(c, 1)
    PROVE  /\ m2 \in Device /\ c2 \in Seq(Write) /\ Written(m2, c2) = Written(m, c)
           /\ ImagesOf(m2, c2) \subseteq ImagesOf(m, c)
           /\ PartsOf(m2, c2) \subseteq PartsOf(m, c)
           /\ Len(c2) = 0 => m2 = Written(m, c)
<1> DEFINE w == c[1]
           ws == <<w>>
<1>1. w \in Write /\ Len(c) \in Nat /\ 1 \in 1..Len(c)
  OBVIOUS
<1>2. w.addr \in Address
  BY <1>1 DEF Write
<1>3. m2 = Written(m, <<w>>)
  <2>1. m \in [Address -> Block]
    BY DEF Device
  <2> HIDE DEF w
  <2>2. Written(m, <<w>>) = [m EXCEPT ![w.addr] = w.contents]
    BY <1>2, <2>1, WrittenOne, ZenonT(30)
  <2> QED BY <2>2 DEF w, Destaged
<1>4. ws \in Seq(Write) /\ Len(ws) = 1 /\ ws[1] = w
  BY <1>1
<1>5. c2 = SubSeq(c, 2, Len(c))
  <2>1. SubSeq(c, 1, 1 - 1) = <<>> /\ SubSeq(c, 1 + 1, Len(c)) \in Seq(Write)
    BY <1>1
  <2> QED BY <2>1 DEF Without
<1>6. c2 \in Seq(Write) /\ Len(c2) = Len(c) - 1 /\ c = ws \o c2
  <2>1. c2 \in Seq(Write) /\ Len(c2) = Len(c) - 1 /\ \A i \in 1..Len(c2) : c2[i] = c[i + 1]
    <3>1. SubSeq(c, 2, Len(c)) \in Seq(Write)
      BY <1>1
    <3>2. Len(c2) = Len(c) - 1
      BY <1>1, <1>5
    <3>3. ASSUME NEW i \in 1..(Len(c) - 1) PROVE SubSeq(c, 2, Len(c))[i] = c[i + 1]
      BY <1>1
    <3> QED BY <1>5, <3>1, <3>2, <3>3, Zenon
  <2> DEFINE b == ws \o c2
  <2>2. b \in Seq(Write) /\ Len(b) = Len(c) /\ b[1] = c[1]
        /\ \A i \in 1..Len(c2) : b[i + 1] = c2[i]
    BY <1>1, <1>4, <2>1
  <2> HIDE DEF b
  <2>3. ASSUME NEW i \in 1..Len(c) PROVE b[i] = c[i]
    <3>1. CASE i = 1
      BY <2>2, <3>1
    <3>2. CASE i # 1
      <4>1. i - 1 \in 1..Len(c2) /\ (i - 1) + 1 = i
        BY <1>1, <2>1, <3>2
      <4> QED BY <2>1, <2>2, <4>1, ZenonT(30)
    <3> QED BY <3>1, <3>2
  <2>4. b = c
    BY <2>2, <2>3
  <2> QED BY <2>1, <2>4 DEF b
<1>7. ASSUME NEW k \in 0..Len(c2)
      PROVE  SubSeq(c2, 1, k) \in Seq(Write) /\ SubSeq(c, 1, k + 1) = ws \o SubSeq(c2, 1, k)
             /\ k + 1 \in 0..Len(c)
  BY <1>1, <1>4, <1>5, <1>6
<1> HIDE DEF ws, w
<1>8. m2 \in Device
  BY <1>3, <1>4, WrittenType, Zenon DEF ws
<1>9. Written(m2, c2) = Written(m, c)
  <2>1. Written(m, ws \o c2) = Written(Written(m, ws), c2)
    BY <1>4, <1>6, WrittenCat
  <2> QED BY <1>3, <1>6, <2>1 DEF ws
<1>10. ASSUME NEW k \in 0..Len(c2)
       PROVE  Written(m2, SubSeq(c2, 1, k)) = Written(m, SubSeq(c, 1, k + 1)) /\ k + 1 \in 0..Len(c)
  <2> DEFINE vs == SubSeq(c2, 1, k)
  <2>1. vs \in Seq(Write) /\ SubSeq(c, 1, k + 1) = ws \o vs /\ k + 1 \in 0..Len(c)
    BY <1>7
  <2> HIDE DEF vs
  <2>2. Written(m, ws \o vs) = Written(Written(m, ws), vs)
    BY <1>4, <2>1, WrittenCat
  <2>3. Written(m2, vs) = Written(m, SubSeq(c, 1, k + 1))
    BY <1>3, <2>1, <2>2, Zenon DEF ws
  <2> QED BY <2>1, <2>3 DEF vs
<1>11. ImagesOf(m2, c2) \subseteq ImagesOf(m, c)
  BY <1>10 DEF ImagesOf
<1>12. PartsOf(m2, c2) \subseteq PartsOf(m, c)
  <2> SUFFICES ASSUME NEW k \in 0..(Len(c2) - 1) PROVE Written(m2, SubSeq(c2, 1, k)) \in PartsOf(m, c)
    BY DEF PartsOf
  <2>1. k \in 0..Len(c2) /\ k + 1 \in 0..(Len(c) - 1)
    BY <1>1, <1>6
  <2> QED BY <1>10, <2>1 DEF PartsOf
<1>13. ASSUME Len(c2) = 0 PROVE m2 = Written(m, c)
  <2>1. c2 = <<>>
    BY <1>6, <1>13
  <2>2. Written(m2, <<>>) = m2
    BY <1>8, WrittenNone, Zenon DEF Device
  <2> QED BY <1>9, <2>1, <2>2, Zenon
<1> QED BY <1>6, <1>8, <1>9, <1>11, <1>12, <1>13, Zenon
-----------------------------------------------------------------------------
(* Transactions.                                                           *)

\* What log_block collects, before commit has validated the targets.
Call == [target : Target, contents : DataBlock]
Distinct(r) == \A i, j \in 1..Len(r) : r[i].target = r[j].target => i = j

\* A set of indices has a first one.
LEMMA FirstIndex ==
    ASSUME NEW n \in Nat, NEW I \in SUBSET (1..n), I # {}
    PROVE  Min(I) \in I
<1> DEFINE S == {m \in Nat : \A J \in SUBSET (1..m) : J # {} => \E x \in J : \A y \in J : x <= y}
<1>1. 0 \in S
  <2>1. 1..0 = {}
    OBVIOUS
  <2>2. \A J \in SUBSET {} : J = {}
    OBVIOUS
  <2> QED BY <2>1, <2>2, Zenon
<1>2. ASSUME NEW m \in S PROVE m + 1 \in S
  <2> SUFFICES ASSUME NEW J \in SUBSET (1..(m + 1)), J # {} PROVE \E x \in J : \A y \in J : x <= y
    OBVIOUS
  <2> DEFINE K == J \ {m + 1}
  <2>1. CASE K = {}
    <3>1. \A y \in J : y = m + 1
      BY <2>1
    <3>2. m + 1 <= m + 1
      OBVIOUS
    <3> QED BY <3>1, <3>2
  <2>2. CASE K # {}
    <3>1. K \in SUBSET (1..m)
      <4>1. \A y \in 1..(m + 1) : y # m + 1 => y \in 1..m
        OBVIOUS
      <4> QED BY <4>1
    <3>2. PICK x \in K : \A y \in K : x <= y
      BY <2>2, <3>1, <1>2, Zenon
    <3>3. x \in J /\ x \in 1..m /\ \A y \in J : y \in K \/ y = m + 1
      BY <3>1, <3>2
    <3>4. \A y \in J : x <= y
      BY <3>2, <3>3
    <3> QED BY <3>3, <3>4
  <2> QED BY <2>1, <2>2
<1>3. S = Nat
  <2> HIDE DEF S
  <2>1. S \in SUBSET Nat
    BY DEF S
  <2> QED BY <1>1, <1>2, <2>1, SetInduction, Zenon
<1>4. \E x \in I : \A y \in I : x <= y
  BY <1>3
<1> QED BY <1>4, Zenon DEF Min

\* log_block keeps one record per target.
LEMMA LogBlockKeeps ==
    ASSUME NEW r \in Seq(Call), Distinct(r), NEW t \in Target, NEW c \in DataBlock
    PROVE  LogBlock(r, t, c) \in Seq(Call) /\ Distinct(LogBlock(r, t, c))
<1> DEFINE I == {i \in 1..Len(r) : r[i].target = t}
           k == Min(I)
           e == [target |-> t, contents |-> c]
<1>1. LogBlock(r, t, c) = IF I = {} THEN Append(r, e) ELSE [r EXCEPT ![k] = e]
  BY DEF LogBlock
<1>2. Len(r) \in Nat /\ I \in SUBSET (1..Len(r))
  OBVIOUS
<1>3. e \in Call /\ e.target = t
  BY DEF Call
<1> HIDE DEF e
<1>4. CASE I = {}
  <2>1. LogBlock(r, t, c) = Append(r, e)
    BY <1>1, <1>4
  <2>2. /\ Append(r, e) \in Seq(Call) /\ Len(Append(r, e)) = Len(r) + 1
        /\ \A i \in 1..Len(r) : Append(r, e)[i] = r[i]
        /\ Append(r, e)[Len(r) + 1] = e
    BY <1>2, <1>3
  <2>3. \A i \in 1..Len(r) : r[i].target # t
    BY <1>4
  <2> DEFINE s == Append(r, e)
             n == Len(r)
  <2>4. ASSUME NEW i \in 1..(n + 1), NEW j \in 1..(n + 1), s[i].target = s[j].target PROVE i = j
    <3>1. CASE i = n + 1 /\ j = n + 1
      BY <3>1
    <3>2. CASE i # n + 1 /\ j # n + 1
      <4>1. i \in 1..n /\ j \in 1..n
        BY <1>2, <3>2
      <4>2. r[i].target = r[j].target
        BY <2>2, <2>4, <4>1
      <4> QED BY <4>1, <4>2 DEF Distinct
    <3>3. CASE i = n + 1 /\ j # n + 1
      <4>1. j \in 1..n
        BY <1>2, <3>3
      <4> QED BY <1>3, <2>2, <2>3, <2>4, <3>3, <4>1, Zenon
    <3>4. CASE i # n + 1 /\ j = n + 1
      <4>1. i \in 1..n
        BY <1>2, <3>4
      <4> QED BY <1>3, <2>2, <2>3, <2>4, <3>4, <4>1, Zenon
    <3> QED BY <3>1, <3>2, <3>3, <3>4, Zenon
  <2>5. Distinct(s)
    BY <2>2, <2>4 DEF Distinct
  <2> QED BY <2>1, <2>2, <2>5
<1>5. CASE I # {}
  <2>1. Min(I) \in I
    <3> HIDE DEF I
    <3> QED BY <1>2, <1>5, FirstIndex, ZenonT(30)
  <2>2. k \in 1..Len(r) /\ r[k].target = t
    BY <1>2, <2>1, Zenon
  <2> HIDE DEF k
  <2> DEFINE s == [r EXCEPT ![k] = e]
  <2>3. LogBlock(r, t, c) = s
    BY <1>1, <1>5
  <2>4. s \in Seq(Call) /\ Len(s) = Len(r) /\ \A i \in 1..Len(r) : s[i] = IF i = k THEN e ELSE r[i]
    BY <1>2, <1>3, <2>2
  <2> HIDE DEF s
  <2>5. \A i \in 1..Len(r) : s[i].target = r[i].target
    BY <1>3, <2>2, <2>4
  <2>6. Distinct(s)
    BY <2>4, <2>5 DEF Distinct
  <2> QED BY <2>3, <2>4, <2>6
<1> QED BY <1>4, <1>5

\* The transaction that log_block calls build.
LEMMA RecordsAre ==
    ASSUME NEW calls \in Seq(Target), nTxn \in Nat
    PROVE  Records(calls) \in Seq(Call) /\ Distinct(Records(calls))
<1> DEFINE N == Len(calls)
           C(i) == Data(nTxn * (MaxCalls + 1) + i)
           Is(f, m) == f = [i \in 0..m |-> IF i = 0 THEN <<>> ELSE LogBlock(f[i - 1], calls[i], C(i))]
           S == {m \in Nat : \E f : Is(f, m)}
<1>1. 0 \in S
  <2> DEFINE f == [i \in 0..0 |-> <<>>]
  <2>1. Is(f, 0)
    OBVIOUS
  <2> QED BY <2>1, Zenon
<1>2. ASSUME NEW m \in S PROVE m + 1 \in S
  <2>1. PICK f : Is(f, m)
    OBVIOUS
  <2>2. m \in Nat
    OBVIOUS
  <2> DEFINE g == [i \in 0..(m + 1) |-> IF i = m + 1 THEN LogBlock(f[m], calls[i], C(i)) ELSE f[i]]
  <2>3. ASSUME NEW i \in 0..(m + 1)
        PROVE  g[i] = IF i = 0 THEN <<>> ELSE LogBlock(g[i - 1], calls[i], C(i))
    <3>1. CASE i = m + 1
      <4>1. i # 0 /\ i - 1 = m /\ m \in 0..(m + 1) /\ m # m + 1
        BY <2>2, <3>1
      <4> QED BY <3>1, <4>1
    <3>2. CASE i # m + 1
      <4>1. i \in 0..m
        BY <2>2, <3>2
      <4>2. f[i] = IF i = 0 THEN <<>> ELSE LogBlock(f[i - 1], calls[i], C(i))
        BY <2>1, <4>1
      <4>3. i # 0 => i - 1 \in 0..(m + 1) /\ i - 1 # m + 1
        BY <2>2, <4>1
      <4> QED BY <3>2, <4>2, <4>3, Zenon
    <3> QED BY <3>1, <3>2
  <2>4. Is(g, m + 1)
    BY <2>3
  <2> HIDE DEF g, Is
  <2>5. m + 1 \in Nat /\ \E h : Is(h, m + 1)
    BY <2>2, <2>4
  <2> QED BY <2>5
<1>3. \E f : Is(f, N)
  <2>1. S = Nat
    <3> HIDE DEF S
    <3>1. S \in SUBSET Nat
      BY DEF S
    <3> QED BY <1>1, <1>2, <3>1, SetInduction, Zenon
  <2>2. N \in Nat
    OBVIOUS
  <2>3. N \in S
    BY <2>1, <2>2
  <2> QED BY <2>3
<1> DEFINE F == CHOOSE f : Is(f, N)
<1>4. Records(calls) = F[N]
  BY DEF Records
<1>5. Is(F, N)
  BY <1>3, Zenon
<1> HIDE DEF F
<1>6. F = [i \in 0..N |-> IF i = 0 THEN <<>> ELSE LogBlock(F[i - 1], calls[i], C(i))]
  BY <1>5
<1> DEFINE T == {i \in Nat : i <= N => F[i] \in Seq(Call) /\ Distinct(F[i])}
<1>7. N \in Nat /\ 0 \in 0..N
  OBVIOUS
<1> HIDE DEF N
<1>8. 0 \in T
  <2>1. F[0] = <<>>
    BY <1>6, <1>7
  <2>2. <<>> \in Seq(Call)
    OBVIOUS
  <2>3. Distinct(<<>>)
    BY DEF Distinct
  <2> QED BY <2>1, <2>2, <2>3, Zenon
<1>9. ASSUME NEW i \in T PROVE i + 1 \in T
  <2> SUFFICES ASSUME i + 1 <= N PROVE F[i + 1] \in Seq(Call) /\ Distinct(F[i + 1])
    OBVIOUS
  <2>1. i \in Nat /\ i <= N /\ i + 1 \in 0..N /\ i + 1 # 0 /\ (i + 1) - 1 = i /\ i + 1 \in 1..N
    BY <1>7
  <2>2. F[i + 1] = LogBlock(F[i], calls[i + 1], C(i + 1))
    BY <1>6, <2>1
  <2>3. F[i] \in Seq(Call) /\ Distinct(F[i])
    BY <2>1
  <2>4. calls[i + 1] \in Target
    BY <2>1 DEF N
  <2>5. C(i + 1) \in DataBlock
    <3>1. MaxCalls \in Nat
      BY JournalAssumption
    <3> DEFINE v == nTxn * (MaxCalls + 1) + (i + 1)
    <3>2. v \in Nat
      BY <2>1, <3>1
    <3> HIDE DEF v
    <3>3. Data(v) \in DataBlock
      BY <3>2, Zenon DEF Data, DataBlock
    <3> QED BY <3>3 DEF v
  <2> HIDE DEF C
  <2> QED BY <2>2, <2>3, <2>4, <2>5, LogBlockKeeps, Zenon
<1>10. T = Nat
  <2> HIDE DEF T
  <2>1. T \in SUBSET Nat
    BY DEF T
  <2> QED BY <1>8, <1>9, <2>1, SetInduction
<1>11. F[N] \in Seq(Call) /\ Distinct(F[N])
  BY <1>7, <1>10
<1> QED BY <1>4, <1>11
-----------------------------------------------------------------------------
(* The inductive invariant.                                                *)

\* Every device that a power loss can leave is mounted to o.
Agree(o) == \A image \in ImagesOf(medium, cache) : Outcome(image) = o

Typed ==
    /\ medium \in Device /\ cache \in Seq(Write) /\ jnl \in Jnl
    /\ nTxn \in Nat /\ nFormat \in Nat /\ nErr \in Nat
    /\ \A image \in ImagesOf(medium, cache) : Sound(image)

\* Before the first format the device is blank.
Blank ==
    nFormat = 0 => /\ medium = [a \in Address |-> ZeroBlock] /\ cache = <<>> /\ pc = "off"
                   /\ outcomes = {[b \in FsBlock |-> ZeroBlock]}

\* What holds wherever the thread that owns the journal is.
OffInv == pc = "off" /\ txn = <<>> /\ scan = NoScan /\ \E o \in outcomes : Agree(o)

ScanInv ==
    /\ pc = "scan" /\ txn = <<>> /\ Sb(View) = Super(jnl) /\ (\E o \in outcomes : Agree(o))
    /\ scan.writes = <<>> /\ \E k \in Nat : Scanning(scan, View, k)
    /\ Replayed(scan, View) => FsPart(View) = Outcome(View)

MountedInv ==
    /\ pc = "mounted" /\ txn = <<>> /\ scan = NoScan
    /\ Sb(View) = Super(jnl) /\ Clean(View)
    /\ outcomes = {FsPart(View)} /\ Agree(FsPart(View))

LogInv ==
    /\ pc = "log" /\ txn \in Txn /\ scan = NoScan
    /\ Sb(View) = Super(jnl) /\ Clean(View) /\ Span(jnl) + Len(txn) + 2 <= LogBlocks
    /\ outcomes = {FsPart(View), Overlay(FsPart(View), txn)} /\ Agree(FsPart(View))

LoggedInv ==
    /\ pc = "logged" /\ scan = NoScan
    /\ Sb(View) = Super(jnl) /\ Complete(View, txn)
    /\ outcomes = {FsPart(View), Overlay(FsPart(View), txn)}
    /\ \A image \in PartsOf(medium, cache) : Outcome(image) = FsPart(View)

CheckpointInv ==
    /\ pc = "checkpoint" /\ scan = NoScan /\ cache = <<>>
    /\ Sb(View) = Super(jnl) /\ Complete(View, txn)
    /\ outcomes = {FsPart(View), Overlay(FsPart(View), txn)}

CheckpointedInv ==
    /\ pc = "checkpointed" /\ scan = NoScan
    /\ Sb(View) = Super(jnl) /\ Complete(View, txn) /\ Agree(FsPart(View))
    /\ FsPart(View) \in outcomes /\ \A o \in outcomes : Overlay(o, txn) = FsPart(View)

PhaseInv ==
    \/ OffInv \/ ScanInv \/ MountedInv \/ LogInv \/ LoggedInv \/ CheckpointInv \/ CheckpointedInv

JournalInv == Typed /\ Blank /\ PhaseInv

\* The device and the runs that the proofs are about: writes are destaged in
\* order and the device is formatted at most once.
OrderedDevice == Reorders = FALSE /\ MaxFormat \in {0, 1}

\* The view and the medium are among the devices a power loss can leave.
LEMMA ViewFacts ==
    ASSUME Typed
    PROVE  /\ View \in Device /\ Sound(View) /\ View \in ImagesOf(medium, cache)
           /\ Sound(medium) /\ medium \in ImagesOf(medium, cache)
           /\ FsData(View)
<1>1. medium \in Device /\ cache \in Seq(Write)
  BY DEF Typed
<1>2. View \in ImagesOf(medium, cache) /\ medium \in ImagesOf(medium, cache)
  BY <1>1, ImagesHave DEF View
<1>3. Sound(View) /\ Sound(medium)
  BY <1>2 DEF Typed
<1> QED BY <1>2, <1>3 DEF Sound

\* Whatever instant the power fails at, the device is mounted to an outcome.
LEMMA OutcomeKnown ==
    ASSUME JournalInv
    PROVE  Outcome(medium) \in outcomes
<1>1. medium \in ImagesOf(medium, cache) /\ Typed
  BY ViewFacts DEF JournalInv
<1>2. CASE OffInv \/ ScanInv
  BY <1>1, <1>2 DEF OffInv, ScanInv, Agree
<1>3. CASE MountedInv \/ LogInv \/ CheckpointedInv
  BY <1>1, <1>3 DEF MountedInv, LogInv, CheckpointedInv, Agree
<1>4. CASE LoggedInv
  <2>1. Outcome(View) = Overlay(FsPart(View), txn)
    BY <1>4, CompleteSound DEF LoggedInv
  <2>2. medium = View \/ medium \in PartsOf(medium, cache)
    BY <1>1, PartsHave DEF Typed, View
  <2> QED BY <1>4, <2>1, <2>2 DEF LoggedInv
<1>5. CASE CheckpointInv
  <2>1. Outcome(View) = Overlay(FsPart(View), txn)
    BY <1>5, CompleteSound DEF CheckpointInv
  <2>2. View = medium
    <3>1. medium \in Device /\ cache = <<>>
      BY <1>1, <1>5 DEF Typed, CheckpointInv
    <3> QED BY <3>1, ImagesNone, Zenon DEF View
  <2> QED BY <1>5, <2>1, <2>2, Zenon DEF CheckpointInv
<1> QED BY <1>2, <1>3, <1>4, <1>5, Zenon DEF JournalInv, PhaseInv

\* A blank device holds nothing to replay.
LEMMA BlankSound ==
    LET zeros == [a \in Address |-> ZeroBlock]
    IN  /\ zeros \in Device /\ Sound(zeros) /\ Sb(zeros).kind = "data"
        /\ Outcome(zeros) = [b \in FsBlock |-> ZeroBlock]
        /\ FsPart(zeros) = [b \in FsBlock |-> ZeroBlock]
<1> DEFINE zeros == [a \in Address |-> ZeroBlock]
<1>1. ZeroBlock \in DataBlock /\ ZeroBlock \in Block /\ ZeroBlock.kind = "data"
  BY DEF ZeroBlock, Data, DataBlock, Block
<1>2. SuperAddr \in Address /\ FsBlock \subseteq Address
  BY Outside
<1>3. zeros \in Device
  BY <1>1 DEF Device
<1>4. Sb(zeros).kind = "data"
  BY <1>1, <1>2 DEF Sb
<1>5. FsData(zeros) /\ FsPart(zeros) = [b \in FsBlock |-> ZeroBlock]
  BY <1>1, <1>2 DEF FsData, FsPart
<1> HIDE DEF zeros
<1>6. Sound(zeros)
  BY <1>3, <1>4, <1>5 DEF Sound
<1>7. Outcome(zeros) = FsPart(zeros)
  BY <1>4 DEF Outcome
<1> QED BY <1>3, <1>4, <1>5, <1>6, <1>7, Zenon DEF zeros

\* The journal of a device that is not mounted.
LEMMA NoJournalTyped == NoJournal \in Jnl
BY JournalAssumption DEF NoJournal, Jnl

\* The invariant holds at the start.
LEMMA JournalInit ==
    ASSUME Init
    PROVE  JournalInv
<1> DEFINE zeros == [a \in Address |-> ZeroBlock]
           files == [b \in FsBlock |-> ZeroBlock]
<1>1. zeros \in Device /\ Sound(zeros) /\ Outcome(zeros) = files
  BY BlankSound
<1>2. medium = zeros /\ cache = <<>> /\ outcomes = {files}
  BY DEF Init
<1> HIDE DEF zeros, files
<1>3. cache \in Seq(Write) /\ \A image \in ImagesOf(medium, cache) : image = zeros
  <2>1. <<>> \in Seq(Write) /\ \A image \in ImagesOf(zeros, <<>>) : image = zeros
    BY <1>1, ImagesNone
  <2> QED BY <1>2, <2>1, Zenon
<1>4. Typed
  BY <1>1, <1>2, <1>3, NoJournalTyped, ZenonT(30) DEF Typed, Init
<1>5. Blank
  BY DEF Blank, Init
<1>6. OffInv
  BY <1>1, <1>2, <1>3 DEF OffInv, Agree, Init
<1> QED BY <1>4, <1>5, <1>6 DEF JournalInv, PhaseInv

\* Steps 1-3 of commit: until the last of the writes is on the medium the
\* transaction is not there.
LEMMA WriteLogStep ==
    ASSUME JournalInv, WriteLog
    PROVE  JournalInv'
<1> DEFINE V == View
           ws == LogWrites
           n == Len(txn)
<1>1. LogInv /\ Typed /\ nFormat # 0
  BY DEF JournalInv, PhaseInv, OffInv, ScanInv, MountedInv, LoggedInv, CheckpointInv,
         CheckpointedInv, WriteLog, Blank
<1>2. /\ medium' = medium /\ cache' = cache \o ws /\ pc' = "logged"
      /\ UNCHANGED <<jnl, txn, scan, result, outcomes, nTxn, nCrash, nFormat, nErr>>
  BY DEF WriteLog, WriteBlocks, counters
<1>3. medium \in Device /\ cache \in Seq(Write) /\ jnl \in Jnl /\ txn \in Txn
  BY <1>1 DEF Typed, LogInv
<1>4. ws \in Seq(Write) /\ Len(ws) = n + 2 /\ n \in Nat
  BY <1>3, LogWritesAre, TxnParts
<1>5. V = Written(medium, cache)
  BY DEF View
<1>6. FsData(V)
  BY <1>1, ViewFacts
<1>7. ASSUME NEW m \in 0..(n + 2)
      PROVE  LET other == Written(V, SubSeq(ws, 1, m))
             IN  /\ other \in Device /\ Sb(other) = Sb(V) /\ FsPart(other) = FsPart(V) /\ FsData(other)
                 /\ IF m = n + 2 THEN Complete(other, txn) ELSE Clean(other)
  <2>1. Clean(V) /\ Sb(V) = Super(jnl) /\ Span(jnl) + Len(txn) + 2 <= LogBlocks
    BY <1>1 DEF LogInv
  <2> HIDE DEF V
  <2> QED BY <1>3, <1>6, <2>1, LogWritten, ZenonT(30)
<1> HIDE DEF ws, V, n
<1>8. SubSeq(ws, 1, n + 2) = ws /\ n + 2 \in 0..(n + 2)
  BY <1>4
<1> DEFINE W == Written(V, ws)
<1>9. /\ W \in Device /\ Sb(W) = Sb(V) /\ FsPart(W) = FsPart(V) /\ FsData(W)
      /\ Complete(W, txn)
  <2> DEFINE m == n + 2
             other == Written(V, SubSeq(ws, 1, m))
  <2>1. m \in 0..(n + 2) /\ m = n + 2 /\ W = other
    BY <1>8, Zenon
  <2> HIDE DEF m
  <2>2. /\ other \in Device /\ Sb(other) = Sb(V) /\ FsPart(other) = FsPart(V) /\ FsData(other)
        /\ IF m = n + 2 THEN Complete(other, txn) ELSE Clean(other)
    BY <1>7, <2>1
  <2> HIDE DEF other, W
  <2> QED BY <2>1, <2>2
<1> HIDE DEF W
<1>10. /\ cache' \in Seq(Write) /\ View' = W
       /\ \A image \in ImagesOf(medium, cache)' :
            \/ image \in ImagesOf(medium, cache)
            \/ \E k \in 1..Len(ws) : image = Written(V, SubSeq(ws, 1, k))
       /\ \A image \in PartsOf(medium, cache)' :
            \/ image \in ImagesOf(medium, cache)
            \/ \E k \in 1..(Len(ws) - 1) : image = Written(V, SubSeq(ws, 1, k))
  BY <1>2, <1>3, <1>4, <1>5, ImagesWrite DEF View, W
<1>11. ASSUME NEW image \in ImagesOf(medium, cache)' PROVE Sound(image)
  <2>1. CASE image \in ImagesOf(medium, cache)
    BY <1>1, <2>1 DEF Typed
  <2>2. ASSUME NEW k \in 1..Len(ws), image = Written(V, SubSeq(ws, 1, k)) PROVE Sound(image)
    <3>1. k \in 0..(n + 2)
      BY <1>4
    <3>2. CASE k = n + 2
      <4>1. image = W
        BY <1>8, <2>2, <3>2, ZenonT(30) DEF W
      <4> QED BY <1>9, <4>1 DEF Sound
    <3>3. CASE k # n + 2
      <4>1. Clean(image) /\ image \in Device /\ FsData(image)
        BY <1>7, <2>2, <3>1, <3>3, Zenon
      <4> QED BY <4>1 DEF Sound
    <3> QED BY <3>2, <3>3
  <2> QED BY <1>10, <2>1, <2>2, Zenon
<1>12. ASSUME NEW image \in PartsOf(medium, cache)' PROVE Outcome(image) = FsPart(V)
  <2>1. CASE image \in ImagesOf(medium, cache)
    BY <1>1, <2>1 DEF LogInv, Agree, V
  <2>2. ASSUME NEW k \in 1..(Len(ws) - 1), image = Written(V, SubSeq(ws, 1, k))
        PROVE  Outcome(image) = FsPart(V)
    <3>1. k \in 0..(n + 2) /\ k # n + 2
      BY <1>4
    <3>2. Clean(image) /\ FsPart(image) = FsPart(V)
      BY <1>7, <2>2, <3>1, Zenon
    <3> QED BY <3>2, CleanSound
  <2> QED BY <1>10, <2>1, <2>2, Zenon
<1>13. Typed'
  BY <1>1, <1>2, <1>10, <1>11, Zenon DEF Typed
<1>14. LoggedInv'
  BY <1>1, <1>2, <1>9, <1>10, <1>12, Zenon DEF LoggedInv, LogInv, V
<1>15. Blank'
  BY <1>1, <1>2 DEF Blank
<1> QED BY <1>13, <1>14, <1>15, ZenonT(30) DEF JournalInv, PhaseInv

\* The flush behind the log makes the transaction take effect.
LEMMA FlushLogStep ==
    ASSUME JournalInv, FlushLog
    PROVE  JournalInv'
<1> DEFINE V == View
<1>1. LoggedInv /\ Typed /\ nFormat # 0
  BY Zenon DEF JournalInv, PhaseInv, OffInv, ScanInv, MountedInv, LogInv, CheckpointInv,
         CheckpointedInv, FlushLog, Blank
<1>2. /\ medium' = V /\ cache' = <<>> /\ pc' = "checkpoint"
      /\ UNCHANGED <<jnl, txn, scan, result, outcomes, nTxn, nCrash, nFormat, nErr>>
  BY DEF FlushLog, Flush, FlushThenWrite, counters
<1>3. V \in Device /\ Sound(V)
  BY <1>1, ViewFacts
<1>4. <<>> \in Seq(Write) /\ Written(V, <<>>) = V /\ \A image \in ImagesOf(V, <<>>) : image = V
  <2> HIDE DEF V
  <2> QED BY <1>3, ImagesNone
<1>5. cache' \in Seq(Write) /\ View' = V /\ \A image \in ImagesOf(medium, cache)' : image = V
  <2> HIDE DEF V
  <2> QED BY <1>2, <1>4, Zenon DEF View
<1>6. Typed'
  BY <1>1, <1>2, <1>3, <1>5, Zenon DEF Typed
<1>7. CheckpointInv'
  <2> HIDE DEF V
  <2>1. Sb(V) = Super(jnl) /\ Complete(V, txn) /\ outcomes = {FsPart(V), Overlay(FsPart(V), txn)}
        /\ scan = NoScan
    BY <1>1 DEF LoggedInv, V
  <2> QED BY <1>2, <1>5, <2>1, Zenon DEF CheckpointInv
<1>8. Blank'
  BY <1>1, <1>2 DEF Blank
<1> QED BY <1>6, <1>7, <1>8 DEF JournalInv, PhaseInv

\* The checkpoint, whatever part of it reaches the medium, is repaired by the log.
LEMMA CheckpointStep ==
    ASSUME JournalInv, Checkpoint
    PROVE  JournalInv'
<1> DEFINE V == View
           ws == CheckpointWrites(txn)
           n == Len(txn)
           T == Overlay(FsPart(V), txn)
<1>1. CheckpointInv /\ Typed /\ nFormat # 0
  BY DEF JournalInv, PhaseInv, OffInv, ScanInv, MountedInv, LogInv, LoggedInv,
         CheckpointedInv, Checkpoint, Blank
<1>2. /\ medium' = medium /\ cache' = cache \o ws /\ pc' = "checkpointed"
      /\ UNCHANGED <<jnl, txn, scan, result, outcomes, nTxn, nCrash, nFormat, nErr>>
  BY DEF Checkpoint, WriteBlocks, counters
<1>3. medium \in Device /\ cache \in Seq(Write) /\ V \in Device /\ FsData(V)
      /\ V = Written(medium, cache)
  BY <1>1, ViewFacts DEF Typed, View
<1>4. /\ Complete(V, txn) /\ txn \in Txn /\ Sb(V) = Super(jnl) /\ scan = NoScan
      /\ outcomes = {FsPart(V), T} /\ cache = <<>>
  BY <1>1, Zenon DEF CheckpointInv, Complete
<1>5. ws \in Seq(Write) /\ Len(ws) = n
  BY <1>4, CheckpointParts
<1> HIDE DEF V
<1>6. n \in Nat /\ SubSeq(ws, 1, n) = ws
  BY <1>5
<1>7. ASSUME NEW m \in 0..n
      PROVE  LET other == Written(V, SubSeq(ws, 1, m))
             IN  /\ other \in Device /\ FsData(other) /\ Sb(other) = Sb(V)
                 /\ Complete(other, txn)
                 /\ Overlay(FsPart(other), txn) = T
                 /\ m = n => FsPart(other) = T
  BY <1>3, <1>4, CheckpointPart, Zenon
<1> HIDE DEF ws, n, T
<1>8. ASSUME NEW m \in 0..n, NEW image, image = Written(V, SubSeq(ws, 1, m))
      PROVE  Sound(image) /\ Complete(image, txn) /\ Outcome(image) = T
  <2>1. image \in Device /\ FsData(image) /\ Complete(image, txn) /\ Overlay(FsPart(image), txn) = T
    BY <1>7, <1>8
  <2>2. Outcome(image) = Overlay(FsPart(image), txn)
    BY <2>1, CompleteSound
  <2> QED BY <2>1, <2>2 DEF Sound
<1> DEFINE W == Written(V, ws)
<1>9. Complete(W, txn) /\ Sb(W) = Sb(V) /\ FsPart(W) = T
  <2> DEFINE m == n
             other == Written(V, SubSeq(ws, 1, m))
  <2>0. W = other
    BY <1>6, Zenon
  <2>1. m \in 0..n /\ m = n
    BY <1>6
  <2> HIDE DEF m
  <2>2. Sb(other) = Sb(V) /\ Complete(other, txn) /\ (m = n => FsPart(other) = T)
    BY <1>7, <2>1
  <2> HIDE DEF other, W
  <2> QED BY <2>0, <2>1, <2>2
<1> HIDE DEF W
<1>10. /\ cache' \in Seq(Write) /\ View' = W
       /\ \A image \in ImagesOf(medium, cache)' :
            \/ image \in ImagesOf(medium, cache)
            \/ \E k \in 1..Len(ws) : image = Written(V, SubSeq(ws, 1, k))
  BY <1>2, <1>3, <1>5, ImagesWrite DEF View, W
<1>11. ASSUME NEW image \in ImagesOf(medium, cache) PROVE Sound(image) /\ Outcome(image) = T
  <2>1. image = V
    <3>1. \A x \in ImagesOf(medium, <<>>) : x = medium
      BY <1>3, ImagesNone
    <3>2. Written(medium, <<>>) = medium
      BY <1>3, ImagesNone
    <3> QED BY <1>3, <1>4, <1>11, <3>1, <3>2, Zenon
  <2>2. Outcome(V) = T
    BY <1>4, CompleteSound DEF T
  <2> QED BY <1>1, <2>1, <2>2 DEF Typed
<1>12. ASSUME NEW image \in ImagesOf(medium, cache)' PROVE Sound(image) /\ Outcome(image) = T
  <2>1. ASSUME NEW k \in 1..Len(ws), image = Written(V, SubSeq(ws, 1, k))
        PROVE  Sound(image) /\ Outcome(image) = T
    <3>1. k \in 0..n
      BY <1>5, <1>6
    <3> QED BY <1>8, <2>1, <3>1, Zenon
  <2> QED BY <1>10, <1>11, <2>1
<1>13. Typed'
  BY <1>1, <1>2, <1>10, <1>12, ZenonT(30) DEF Typed
<1>14. \A o \in outcomes : Overlay(o, txn) = T
  <2>1. Overlay(T, txn) = T /\ Overlay(FsPart(V), txn) = T
    BY <1>4, OverlayAgain, Zenon DEF T
  <2> QED BY <1>4, <2>1
<1>15. CheckpointedInv'
  BY <1>2, <1>4, <1>9, <1>10, <1>12, <1>14, Zenon DEF CheckpointedInv, Agree
<1>16. Blank'
  BY <1>1, <1>2 DEF Blank
<1> QED BY <1>13, <1>15, <1>16, ZenonT(30) DEF JournalInv, PhaseInv

\* The second flush and step 5: the record joins the chain.
LEMMA CommitFinishStep ==
    ASSUME JournalInv, CommitFinish
    PROVE  JournalInv'
<1> DEFINE V == View
           w == SuperWrite(Advanced)
           W == Written(V, <<w>>)
           T == FsPart(V)
<1>1. CheckpointedInv /\ Typed /\ nFormat # 0
  BY Zenon DEF JournalInv, PhaseInv, OffInv, ScanInv, MountedInv, LogInv, LoggedInv,
         CheckpointInv, CommitFinish, Blank
<1>2. /\ medium' = V /\ cache' = <<w>> /\ jnl' = Advanced /\ pc' = "mounted" /\ txn' = <<>>
      /\ outcomes' = {Overlay(o, txn) : o \in outcomes}
      /\ UNCHANGED <<scan, nTxn, nCrash, nFormat, nErr>>
  BY DEF CommitFinish, FlushThenWrite, counters
<1>3. V \in Device /\ FsData(V) /\ Sound(V) /\ Outcome(V) = T /\ jnl \in Jnl
  <2>1. View \in ImagesOf(medium, cache)
    BY <1>1, ViewFacts
  <2>2. Outcome(View) = FsPart(View)
    BY <1>1, <2>1 DEF CheckpointedInv, Agree
  <2> QED BY <1>1, <2>2, ViewFacts DEF Typed
<1>4. Complete(V, txn) /\ Sb(V) = Super(jnl)
  BY <1>1 DEF CheckpointedInv
<1>5. Advanced = [jnl EXCEPT !.head = (jnl.head + Len(txn) + 2) % LogBlocks,
                             !.next_seq = jnl.next_seq + 1]
  BY DEF Advanced
<1> HIDE DEF V
<1>6. Advanced \in Jnl /\ Clean(W)
  BY <1>3, <1>4, <1>5, AdvancedClean, Zenon
<1>7. W \in Device /\ Sb(W) = Super(Advanced) /\ FsPart(W) = T /\ FsData(W)
  BY <1>3, <1>6, SuperWritten, ZenonT(30)
<1>8. w \in Write
  BY <1>6, SuperHolds
<1> HIDE DEF w
<1>9. <<w>> \in Seq(Write) /\ \A image \in ImagesOf(V, <<w>>) : image = V \/ image = W
  BY <1>3, <1>8, ImagesFlush
<1> HIDE DEF W, T
<1>10. cache' \in Seq(Write) /\ View' = W /\ \A image \in ImagesOf(medium, cache)' : image = V \/ image = W
  BY <1>2, <1>9, Zenon DEF View, W
<1>11. Sound(W) /\ Outcome(W) = T
  BY <1>6, <1>7, CleanSound, Zenon DEF Sound
<1>12. Typed'
  BY <1>1, <1>2, <1>3, <1>6, <1>10, <1>11, Zenon DEF Typed
<1>13. outcomes' = {T}
  <2>1. outcomes # {} /\ \A o \in outcomes : Overlay(o, txn) = T
    BY <1>1 DEF CheckpointedInv, T, V
  <2> QED BY <1>2, <2>1, ZenonT(30)
<1>14. MountedInv'
  <2>1. scan = NoScan
    BY <1>1 DEF CheckpointedInv
  <2> QED BY <1>2, <1>3, <1>6, <1>7, <1>10, <1>11, <1>13, <2>1, ZenonT(30) DEF MountedInv, Agree
<1>15. Blank'
  BY <1>1, <1>2 DEF Blank
<1> QED BY <1>12, <1>14, <1>15 DEF JournalInv, PhaseInv

\* A call that changes neither the device nor the journal keeps the invariant.
LEMMA Unmoved ==
    ASSUME JournalInv,
           UNCHANGED <<medium, cache, pc, jnl, txn, scan, outcomes, nTxn, nFormat, nErr>>
    PROVE  JournalInv'
<1>1. View' = View
  BY DEF View
<1>2. Typed' /\ Blank'
  BY DEF JournalInv, Typed, Blank
<1>3. PhaseInv'
  BY <1>1, ZenonT(30) DEF JournalInv, PhaseInv, OffInv, ScanInv, MountedInv, LogInv, LoggedInv,
              CheckpointInv, CheckpointedInv, Agree
<1> QED BY <1>2, <1>3 DEF JournalInv

\* A power loss leaves one of the known outcomes.
LEMMA PowerLossStep ==
    ASSUME JournalInv, PowerLoss
    PROVE  JournalInv'
<1>1. Typed /\ Blank /\ Outcome(medium) \in outcomes
  BY OutcomeKnown DEF JournalInv
<1>2. /\ medium' = medium /\ cache' = <<>> /\ pc' = "off" /\ jnl' = NoJournal
      /\ txn' = <<>> /\ scan' = NoScan /\ UNCHANGED <<outcomes, nTxn, nFormat, nErr>>
  BY DEF PowerLoss, LoseCache
<1>3. medium \in Device /\ Sound(medium)
  BY <1>1, ViewFacts DEF Typed
<1>4. cache' \in Seq(Write) /\ \A image \in ImagesOf(medium, cache)' : image = medium
  <2>1. <<>> \in Seq(Write) /\ \A image \in ImagesOf(medium, <<>>) : image = medium
    BY <1>3, ImagesNone, Zenon
  <2> QED BY <1>2, <2>1, Zenon
<1>5. Typed'
  BY <1>1, <1>2, <1>3, <1>4, NoJournalTyped, Zenon DEF Typed
<1>6. OffInv'
  BY <1>1, <1>2, <1>4, Zenon DEF OffInv, Agree
<1>7. Blank'
  BY <1>1, <1>2 DEF Blank
<1> QED BY <1>5, <1>6, <1>7 DEF JournalInv, PhaseInv

\* The device destages its oldest write: no read changes, and no device is added to
\* those that a power loss can leave.
LEMMA DestageOldest ==
    ASSUME Typed, DeviceDestages, Reorders = FALSE
    PROVE  /\ Len(cache) > 0 /\ medium \in Device /\ cache \in Seq(Write)
           /\ medium' \in Device /\ cache' \in Seq(Write)
           /\ Written(medium', cache') = Written(medium, cache)
           /\ ImagesOf(medium', cache') \subseteq ImagesOf(medium, cache)
           /\ PartsOf(medium', cache') \subseteq PartsOf(medium, cache)
           /\ Len(cache') = 0 => medium' = Written(medium, cache)
           /\ UNCHANGED <<pc, jnl, txn, scan, result, outcomes, nTxn, nCrash, nFormat, nErr>>
<1>1. medium \in Device /\ cache \in Seq(Write)
  BY DEF Typed
<1>2. /\ Len(cache) > 0 /\ medium' = [medium EXCEPT ![cache[1].addr] = cache[1].contents]
      /\ cache' = Without(cache, 1)
      /\ UNCHANGED <<pc, jnl, txn, scan, result, outcomes, nTxn, nCrash, nFormat, nErr>>
  <2>1. PICK i \in 1..Len(cache) :
           /\ i = 1 /\ medium' = [medium EXCEPT ![cache[i].addr] = cache[i].contents]
           /\ cache' = Without(cache, i)
    BY Zenon DEF DeviceDestages, Destage
  <2>2. Len(cache) > 0
    BY <1>1, <2>1
  <2> QED BY <2>1, <2>2 DEF DeviceDestages, counters
<1> DEFINE m == medium'
           c == cache'
<1>3. m = Destaged(medium, cache) /\ c = Without(cache, 1)
  BY <1>2 DEF Destaged
<1> HIDE DEF m, c
<1>4. /\ m \in Device /\ c \in Seq(Write) /\ Written(m, c) = Written(medium, cache)
      /\ ImagesOf(m, c) \subseteq ImagesOf(medium, cache)
      /\ PartsOf(m, c) \subseteq PartsOf(medium, cache)
      /\ Len(c) = 0 => m = Written(medium, cache)
  BY <1>1, <1>2, <1>3, ImagesDestage
<1> QED BY <1>1, <1>2, <1>4, Zenon DEF m, c

\* Destaging keeps the invariant.
LEMMA DestageStep ==
    ASSUME JournalInv, DeviceDestages, Reorders = FALSE
    PROVE  JournalInv'
<1>1. Typed /\ Blank
  BY DEF JournalInv
<1>2. medium \in Device /\ cache \in Seq(Write) /\ View = Written(medium, cache)
  BY <1>1 DEF Typed, View
<1>3. Len(cache) > 0 /\ UNCHANGED <<pc, jnl, txn, scan, result, outcomes, nTxn, nCrash, nFormat, nErr>>
  BY <1>1, DestageOldest, Zenon
<1>4. /\ medium' \in Device /\ cache' \in Seq(Write) /\ Written(medium', cache') = Written(medium, cache)
      /\ ImagesOf(medium', cache') \subseteq ImagesOf(medium, cache)
      /\ PartsOf(medium', cache') \subseteq PartsOf(medium, cache)
  BY <1>1, DestageOldest, Zenon
<1>5. /\ View' = View /\ \A image \in ImagesOf(medium, cache)' : image \in ImagesOf(medium, cache)
      /\ \A image \in PartsOf(medium, cache)' : image \in PartsOf(medium, cache)
  BY <1>2, <1>4, Zenon DEF View
<1>6. cache # <<>>
  BY <1>3
<1>7. Typed'
  BY <1>1, <1>3, <1>4, <1>5, Zenon DEF Typed
<1>8. Blank'
  BY <1>1, <1>3, <1>6, Zenon DEF Blank
<1>9. PhaseInv'
  <2>1. CASE OffInv
    BY <1>3, <1>5, <2>1, Zenon DEF OffInv, Agree, PhaseInv
  <2>2. CASE ScanInv
    BY <1>3, <1>5, <2>2, Zenon DEF ScanInv, Agree, PhaseInv
  <2>3. CASE MountedInv
    BY <1>3, <1>5, <2>3, Zenon DEF MountedInv, Agree, PhaseInv
  <2>4. CASE LogInv
    BY <1>3, <1>5, <2>4, Zenon DEF LogInv, Agree, PhaseInv
  <2>5. CASE LoggedInv
    BY <1>3, <1>5, <2>5, Zenon DEF LoggedInv, PhaseInv
  <2>6. CASE CheckpointInv
    BY <1>6, <2>6, Zenon DEF CheckpointInv
  <2>7. CASE CheckpointedInv
    BY <1>3, <1>5, <2>7, ZenonT(30) DEF CheckpointedInv, Agree, PhaseInv
  <2> QED BY <2>1, <2>2, <2>3, <2>4, <2>5, <2>6, <2>7, Zenon DEF JournalInv, PhaseInv
<1> QED BY <1>7, <1>8, <1>9, Zenon DEF JournalInv

\* A sound log is an orderly one, with a record to replay only if it is complete.
LEMMA SoundCases ==
    ASSUME NEW image, Sound(image), Sb(image).kind = "super"
    PROVE  /\ image \in Device /\ Orderly(image) /\ LogSound(image)
           /\ ~Live(image) => Clean(image)
           /\ Live(image) => \E t : Complete(image, t)
<1>1. LogSound(image) /\ image \in Device
  BY SoundRecovered, Zenon DEF Sound
<1>2. CASE Clean(image)
  BY <1>1, <1>2, CleanSound, Zenon DEF Clean
<1>3. ASSUME NEW t, Complete(image, t)
      PROVE  Orderly(image) /\ Live(image)
  BY <1>3, CompleteSound, Zenon DEF Complete
<1> QED BY <1>1, <1>2, <1>3, Zenon DEF Sound

\* Journal::open reads the positions that persist_super wrote.
LEMMA OpenStep ==
    ASSUME JournalInv, Open
    PROVE  JournalInv'
<1> DEFINE V == View
<1>1. OffInv /\ Typed /\ Blank
  BY Zenon DEF JournalInv, PhaseInv, ScanInv, MountedInv, LogInv, LoggedInv, CheckpointInv,
         CheckpointedInv, Open
<1>2. UNCHANGED <<medium, cache, txn, outcomes, nTxn, nFormat, nErr>>
  BY Zenon DEF Open, devVars, counters
<1>3. CASE Sb(V).kind # "super"
  <2>1. UNCHANGED <<pc, scan, jnl>>
    BY <1>3 DEF Open, Sb
  <2> QED BY <1>2, <2>1, Unmoved, ZenonT(30)
<1>4. CASE Sb(V).kind = "super"
  <2>1. /\ pc' = "scan" /\ scan' = ScanStart(Sb(V))
        /\ jnl' = [head |-> Sb(V).head, tail |-> Sb(V).tail,
                   next_seq |-> Sb(V).next_seq, life |-> Sb(V).life]
    BY <1>4 DEF Open, Sb
  <2>2. V \in Device /\ Sound(V) /\ LogSound(V) /\ Sb(V) \in SuperBlock
    BY <1>1, <1>4, ViewFacts, SoundCases, ZenonT(30) DEF Orderly
  <2>3. View' = V
    BY <1>2 DEF View
  <2> HIDE DEF V
  <2>4. jnl' \in Jnl /\ Super(jnl') = Sb(V)
    <3> DEFINE js == Sb(V)
               j == jnl'
    <3>1. js \in SuperBlock /\ j = [head |-> js.head, tail |-> js.tail,
                                    next_seq |-> js.next_seq, life |-> js.life]
      BY <2>1, <2>2, Zenon
    <3> HIDE DEF js, j
    <3>2. j \in Jnl
      BY <3>1 DEF SuperBlock, Jnl
    <3>3. js = [kind |-> "super", head |-> js.head, tail |-> js.tail,
                next_seq |-> js.next_seq, life |-> js.life]
      BY <3>1 DEF SuperBlock
    <3>4. j.head = js.head /\ j.tail = js.tail /\ j.next_seq = js.next_seq /\ j.life = js.life
      BY <3>1
    <3>5. Super(j) = js
      BY <3>3, <3>4, Zenon DEF Super
    <3> QED BY <3>2, <3>5, Zenon DEF js, j
  <2>5. Scanning(scan', V, 0) /\ scan'.writes = <<>> /\ ~Replayed(scan', V)
    BY <2>1, <2>2, ScanBegins, Zenon
  <2>6. nFormat # 0
    <3>1. SUFFICES ASSUME nFormat = 0 PROVE FALSE
      OBVIOUS
    <3> DEFINE zeros == [a \in Address |-> ZeroBlock]
    <3>2. zeros \in Device /\ Sb(zeros).kind = "data"
      BY BlankSound
    <3>3. medium = zeros /\ cache = <<>>
      BY <1>1, <3>1 DEF Blank
    <3> HIDE DEF zeros
    <3>4. V = zeros
      <4>1. Written(zeros, <<>>) = zeros
        BY <3>2, ImagesNone
      <4> QED BY <3>3, <4>1, Zenon DEF V, View
    <3> QED BY <1>4, <3>2, <3>4
  <2>7. Typed'
    BY <1>1, <1>2, <2>4 DEF Typed
  <2>8. ScanInv'
    BY <1>1, <1>2, <2>1, <2>3, <2>4, <2>5, Zenon DEF ScanInv, OffInv, Agree
  <2>9. Blank'
    BY <1>2, <2>6 DEF Blank
  <2> QED BY <2>7, <2>8, <2>9, ZenonT(30) DEF JournalInv, PhaseInv
<1> QED BY <1>3, <1>4

\* The turn's writes are handed to the device; the rest of the scan is kept.
LEMMA ScanningOn ==
    ASSUME NEW image, NEW k, NEW s, Scanning(s, image, k), NEW r, r = [s EXCEPT !.writes = <<>>]
    PROVE  /\ Scanning(r, image, k) /\ r \in ScanState /\ r.writes = <<>>
           /\ Replayed(r, image) <=> Replayed(s, image)
           /\ s.status # "corrupt"
<1>1. s \in ScanState
  BY DEF Scanning
<1>2. <<>> \in Seq(Write)
  OBVIOUS
<1>3. r \in ScanState /\ r.writes = <<>>
  <2> DEFINE e == <<>>
  <2>1. e \in Seq(Write) /\ r = [s EXCEPT !.writes = e] /\ e = <<>>
    BY <1>2
  <2> HIDE DEF e
  <2>2. r \in ScanState /\ r.writes = e
    BY <1>1, <2>1, Zenon DEF ScanState
  <2> QED BY <2>1, <2>2
<1>4. /\ r.status = s.status /\ r.last = s.last /\ r.expected = s.expected
      /\ r.pos = s.pos /\ r.budget = s.budget
  BY <1>1 DEF ScanState
<1>5. Replayed(r, image) <=> Replayed(s, image)
  BY <1>4 DEF Replayed
<1>6. Missed(s, image) => Missed(r, image)
  BY <1>4 DEF Missed
<1>7. \A p : Ahead(s, image, p) => Ahead(r, image, p)
  BY <1>4 DEF Ahead
<1>8. Scanning(r, image, k)
  BY <1>3, <1>5, <1>6, <1>7, Zenon DEF Scanning
<1>9. s.status # "corrupt"
  BY DEF Scanning, Ahead, Missed, Replayed
<1> QED BY <1>3, <1>5, <1>8, <1>9, Zenon

\* One turn of recover's loop: the replay, cut short anywhere, can be repeated.
LEMMA RecoverStepStep ==
    ASSUME JournalInv, RecoverStep
    PROVE  JournalInv'
<1> DEFINE V == View
           s == ScanStep(scan, V)
           r == [s EXCEPT !.writes = <<>>]
<1>1. ScanInv /\ Typed /\ nFormat # 0
  BY DEF JournalInv, PhaseInv, OffInv, MountedInv, LogInv, LoggedInv, CheckpointInv,
         CheckpointedInv, RecoverStep, Blank
<1>2. /\ medium' = medium /\ cache' = cache \o s.writes /\ scan' = r
      /\ pc' = IF s.status = "corrupt" THEN "off" ELSE "scan"
      /\ UNCHANGED <<jnl, txn, outcomes, nTxn, nFormat, nErr>> /\ scan.status = "run"
  BY DEF RecoverStep, WriteBlocks, counters
<1>3. /\ medium \in Device /\ cache \in Seq(Write) /\ V \in Device /\ FsData(V) /\ Sound(V)
      /\ V = Written(medium, cache) /\ V \in ImagesOf(medium, cache) /\ jnl \in Jnl
  BY <1>1, ViewFacts, Zenon DEF Typed, View
<1>4. Sb(V) = Super(jnl) /\ scan.writes = <<>> /\ (Replayed(scan, V) => FsPart(V) = Outcome(V))
  BY <1>1, Zenon DEF ScanInv
<1>5. PICK k \in Nat : Scanning(scan, V, k)
  BY <1>1 DEF ScanInv
<1>6. PICK o \in outcomes : Agree(o)
  BY <1>1 DEF ScanInv
<1> HIDE DEF V
<1>7. LogSound(V) /\ (Live(V) => \E t : Complete(V, t))
  BY <1>3, <1>4, SuperHolds, SoundCases, Zenon
<1>8. /\ Scanning(s, V, k + 1)
      /\ \/ s.writes = scan.writes /\ (Replayed(s, V) <=> Replayed(scan, V))
         \/ /\ ~Replayed(scan, V) /\ Replayed(s, V) /\ Replay(V) \in Seq(Write)
            /\ s.writes = scan.writes \o Replay(V)
  BY <1>2, <1>3, <1>5, <1>7, ScanAdvances, Zenon
<1> HIDE DEF s
<1>9. /\ Scanning(r, V, k + 1) /\ r \in ScanState /\ r.writes = <<>>
      /\ (Replayed(r, V) <=> Replayed(s, V)) /\ s.status # "corrupt"
  BY <1>8, ScanningOn
<1>10. k + 1 \in Nat /\ pc' = "scan"
  BY <1>2, <1>9
<1> HIDE DEF r
<1>11. Blank'
  BY <1>1, <1>2 DEF Blank
<1>12. CASE s.writes = scan.writes /\ (Replayed(s, V) <=> Replayed(scan, V))
  <2>1. cache' = cache
    BY <1>2, <1>3, <1>4, <1>12
  <2>2. View' = V
    BY <1>2, <1>3, <2>1, Zenon DEF View
  <2>3. Typed'
    BY <1>1, <1>2, <2>1 DEF Typed
  <2>4. ScanInv'
    <3>1. txn' = <<>> /\ (\E x \in outcomes' : Agree(x)')
      BY <1>1, <1>2, <1>6, <2>1, Zenon DEF ScanInv, Agree
    <3> QED BY <1>2, <1>4, <1>9, <1>10, <1>12, <2>2, <3>1, Zenon DEF ScanInv
  <2> QED BY <1>11, <2>3, <2>4, ZenonT(30) DEF JournalInv, PhaseInv
<1>13. CASE /\ ~Replayed(scan, V) /\ Replayed(s, V) /\ Replay(V) \in Seq(Write)
            /\ s.writes = scan.writes \o Replay(V)
  <2>1. PICK t : Complete(V, t)
    BY <1>7, <1>13 DEF Replayed
  <2> DEFINE ws == CheckpointWrites(t)
             T == Overlay(FsPart(V), t)
             n == Len(t)
             W == Written(V, ws)
  <2>2. Replay(V) = ws /\ Outcome(V) = T /\ t \in Txn
    BY <2>1, CompleteSound, Zenon DEF Complete
  <2>3. ws \in Seq(Write) /\ Len(ws) = n
    BY <2>2, CheckpointParts, Zenon
  <2>4. ASSUME NEW m \in 0..n
        PROVE  LET other == Written(V, SubSeq(ws, 1, m))
               IN  /\ other \in Device /\ FsData(other) /\ Sb(other) = Sb(V)
                   /\ Complete(other, t) /\ Overlay(FsPart(other), t) = T
                   /\ m = n => FsPart(other) = T
    BY <1>3, <2>1, <2>2, CheckpointPart, ZenonT(30)
  <2> HIDE DEF ws, n, T, W
  <2>5. s.writes = ws /\ n \in Nat
    BY <1>4, <1>13, <2>2, <2>3
  <2>6. ASSUME NEW m \in 0..n, NEW image, image = Written(V, SubSeq(ws, 1, m))
        PROVE  /\ Sound(image) /\ Outcome(image) = T /\ Complete(image, t) /\ Sb(image) = Sb(V)
               /\ m = n => FsPart(image) = T
    <3>1. /\ image \in Device /\ FsData(image) /\ Complete(image, t)
          /\ Overlay(FsPart(image), t) = T /\ Sb(image) = Sb(V) /\ (m = n => FsPart(image) = T)
      BY <2>4, <2>6, Zenon
    <3>2. Outcome(image) = Overlay(FsPart(image), t)
      BY <3>1, CompleteSound
    <3> QED BY <3>1, <3>2, Zenon DEF Sound
  <2>7. /\ cache' \in Seq(Write) /\ View' = W
        /\ \A image \in ImagesOf(medium, cache)' :
             \/ image \in ImagesOf(medium, cache)
             \/ \E i \in 1..Len(ws) : image = Written(V, SubSeq(ws, 1, i))
    <3>1. medium' = medium /\ cache' = cache \o ws
      BY <1>2, <2>5, Zenon
    <3>2. /\ cache \o ws \in Seq(Write) /\ Written(medium, cache \o ws) = Written(V, ws)
          /\ \A image \in ImagesOf(medium, cache \o ws) :
               \/ image \in ImagesOf(medium, cache)
               \/ \E i \in 1..Len(ws) : image = Written(V, SubSeq(ws, 1, i))
      <4>1. medium \in Device /\ cache \in Seq(Write) /\ V = Written(medium, cache)
        BY <1>3, Zenon
      <4>2. /\ cache \o ws \in Seq(Write)
            /\ Written(medium, cache \o ws) = Written(Written(medium, cache), ws)
            /\ \A image \in ImagesOf(medium, cache \o ws) :
                 \/ image \in ImagesOf(medium, cache)
                 \/ \E i \in 1..Len(ws) : image = Written(Written(medium, cache), SubSeq(ws, 1, i))
        BY <2>3, <4>1, ImagesWrite, ZenonT(30)
      <4> QED BY <4>1, <4>2, Zenon
    <3>3. View' = W /\ ImagesOf(medium, cache)' = ImagesOf(medium, cache \o ws)
      BY <3>1, <3>2, ZenonT(30) DEF View, W
    <3> QED BY <3>1, <3>2, <3>3, Zenon
  <2>8. ASSUME NEW image \in ImagesOf(medium, cache)' PROVE Sound(image) /\ Outcome(image) = T
    <3>1. CASE image \in ImagesOf(medium, cache)
      BY <1>1, <1>3, <1>6, <2>2, <3>1, Zenon DEF Typed, Agree
    <3>2. ASSUME NEW i \in 1..Len(ws), image = Written(V, SubSeq(ws, 1, i))
          PROVE  Sound(image) /\ Outcome(image) = T
      <4>1. i \in 0..n
        BY <2>3, <2>5
      <4> QED BY <2>6, <3>2, <4>1, ZenonT(30)
    <3> QED BY <2>7, <3>1, <3>2, Zenon
  <2>9. Complete(W, t) /\ Sb(W) = Sb(V) /\ FsPart(W) = T /\ Outcome(W) = T
    <3>1. SubSeq(ws, 1, n) = ws /\ n \in 0..n
      BY <2>3, <2>5
    <3>2. W = Written(V, SubSeq(ws, 1, n))
      BY <3>1, ZenonT(30) DEF W
    <3> QED BY <2>6, <3>1, <3>2, Zenon
  <2>10. Typed'
    BY <1>1, <1>2, <2>7, <2>8, Zenon DEF Typed
  <2>11. Scanning(r, W, k + 1)
    <3>1. Live(W)
      BY <2>9, CompleteSound
    <3>2. Replayed(r, W)
      BY <1>9, <1>13, <2>9, <3>1, Zenon DEF Replayed
    <3> QED BY <1>9, <3>2, Zenon DEF Scanning
  <2>12. ScanInv'
    <3>1. txn' = <<>> /\ o \in outcomes' /\ o = T
      BY <1>1, <1>2, <1>3, <1>6, <2>2, Zenon DEF ScanInv, Agree
    <3>2. Agree(o)'
      BY <2>8, <3>1 DEF Agree
    <3> QED BY <1>2, <1>4, <1>9, <1>10, <2>7, <2>9, <2>11, <3>1, <3>2, Zenon DEF ScanInv
  <2> QED BY <1>11, <2>10, <2>12, Zenon DEF JournalInv, PhaseInv
<1> QED BY <1>8, <1>12, <1>13, ZenonT(30)
=============================================================================
