----------------------------- MODULE JournalLog -----------------------------
(***************************************************************************)
(* The logs that commit and recover write, for any sizes of file system,   *)
(* ring and transactions: what a mount makes of a device at every point of *)
(* a commit, and what a new superblock makes of the log.                   *)
(***************************************************************************)
EXTENDS JournalScan

\* A transaction that commit accepts: it fits a descriptor and the ring, and
\* names each block of the file system at most once.
Record == [target : FsBlock, contents : DataBlock]
Txn == {t \in Seq(Record) :
            /\ Len(t) \in 1..MaxTargets /\ Len(t) + 2 <= LogBlocks
            /\ \A i, j \in 1..Len(t) : t[i].target = t[j].target => i = j}

\* What every log has that commit and recover leave behind, ...
Orderly(image) ==
    /\ image \in Device /\ Sb(image) \in SuperBlock
    /\ Numbered(image) /\ \E P : Chain(image, P)

\* ... one with nothing to replay, ...
Clean(image) ==
    /\ Orderly(image)
    /\ \A a \in Address : image[a].kind = "commit" => image[a].seq < Sb(image).next_seq

\* ... and one with the transaction t complete at its head.
Complete(image, t) ==
    LET h == Sb(image).head
        q == Sb(image).next_seq
        n == Len(t)
    IN  /\ Orderly(image) /\ t \in Txn /\ Span(Sb(image)) + n + 2 <= LogBlocks
        /\ image[LogAddr(h)].kind = "desc" /\ image[LogAddr(h)].seq = q
        /\ image[LogAddr(h)].targets = Targets(t)
        /\ \A i \in 1..n : image[LogAddr(h + i)] = t[i].contents
        /\ image[LogAddr(h + 1 + n)] = CommitRecord(q, Contents(t))
        /\ \A a \in Address : image[a].kind = "commit" /\ image[a].seq = q => a = LogAddr(h + 1 + n)

FsData(image) == \A b \in FsBlock : image[b] \in DataBlock

Sound(image) ==
    /\ image \in Device /\ FsData(image)
    /\ Sb(image).kind = "super" => Clean(image) \/ \E t : Complete(image, t)

\* The parts of a transaction.
LEMMA TxnParts ==
    ASSUME NEW t \in Txn
    PROVE  /\ Len(t) \in 1..LogBlocks /\ Len(t) \in 1..MaxTargets /\ Len(t) + 2 <= LogBlocks
           /\ \A i \in 1..Len(t) : t[i] \in Record /\ t[i].target \in FsBlock /\ t[i].contents \in DataBlock
           /\ Targets(t) \in Seq(Nat) /\ Len(Targets(t)) = Len(t)
           /\ \A i \in 1..Len(t) : Targets(t)[i] = t[i].target
           /\ Contents(t) \in Seq(DataBlock) /\ Len(Contents(t)) = Len(t)
           /\ \A i \in 1..Len(t) : Contents(t)[i] = t[i].contents
           /\ Contents(t) = [i \in 1..Len(t) |-> t[i].contents]
<1>1. t \in Seq(Record) /\ Len(t) \in 1..MaxTargets /\ Len(t) + 2 <= LogBlocks
  BY DEF Txn
<1>2. DOMAIN t = 1..Len(t) /\ Len(t) \in Nat /\ \A i \in 1..Len(t) : t[i] \in Record
  BY <1>1
<1>3. \A i \in 1..Len(t) : t[i].target \in FsBlock /\ t[i].contents \in DataBlock
  BY <1>2 DEF Record
<1>4. \A i \in 1..Len(t) : t[i].target \in Nat
  BY <1>3 DEF FsBlock
<1> DEFINE n == Len(t)
           ts == [i \in 1..n |-> t[i].target]
           cs == [i \in 1..n |-> t[i].contents]
<1>5. Targets(t) = ts /\ Contents(t) = cs
  BY <1>2 DEF Targets, Contents
<1>6. n \in Nat
  BY <1>2
<1>7. ts \in [1..n -> Nat] /\ cs \in [1..n -> DataBlock]
  BY <1>3, <1>4
<1>8. ts \in Seq(Nat) /\ Len(ts) = n
  <2> HIDE DEF ts, n
  <2> QED BY <1>6, <1>7
<1>9. cs \in Seq(DataBlock) /\ Len(cs) = n
  <2> HIDE DEF cs, n
  <2> QED BY <1>6, <1>7
<1>10. n \in 1..LogBlocks
  BY <1>1, <1>6, JournalAssumption
<1> QED BY <1>1, <1>2, <1>3, <1>5, <1>8, <1>9, <1>10

\* The checkpoint's writes.
LEMMA CheckpointParts ==
    ASSUME NEW t \in Txn
    PROVE  /\ CheckpointWrites(t) \in Seq(Write) /\ Len(CheckpointWrites(t)) = Len(t)
           /\ \A i \in 1..Len(t) : /\ CheckpointWrites(t)[i].addr = t[i].target
                                   /\ CheckpointWrites(t)[i].contents = t[i].contents
                                   /\ CheckpointWrites(t)[i].addr \in FsBlock
                                   /\ CheckpointWrites(t)[i].contents \in DataBlock
<1>1. t \in Seq(Record) /\ \A i \in 1..Len(t) : t[i].target \in FsBlock /\ t[i].contents \in DataBlock
  BY TxnParts DEF Txn
<1>2. DOMAIN t = 1..Len(t) /\ Len(t) \in Nat
  BY <1>1
<1> DEFINE n == Len(t)
           ws == [i \in 1..n |-> BlockWrite(t[i].target, t[i].contents)]
<1>3. CheckpointWrites(t) = ws
  BY <1>2 DEF CheckpointWrites
<1>4. ASSUME NEW i \in 1..n PROVE BlockWrite(t[i].target, t[i].contents) \in Write
  <2>1. t[i].target \in Address /\ t[i].contents \in Block
    BY <1>1, JournalAssumption DEF FsBlock, Address, Block
  <2> QED BY <2>1 DEF BlockWrite, Write
<1>5. ws \in Seq(Write) /\ Len(ws) = n
  <2>1. ws \in [1..n -> Write] /\ n \in Nat
    BY <1>2, <1>4
  <2> HIDE DEF ws, n
  <2> QED BY <2>1
<1>6. \A i \in 1..n : ws[i].addr = t[i].target /\ ws[i].contents = t[i].contents
  BY DEF BlockWrite
<1> HIDE DEF ws
<1> QED BY <1>1, <1>3, <1>5, <1>6

\* The kinds of blocks.
LEMMA Kinds ==
    ASSUME NEW c \in Block
    PROVE  /\ c.kind \in {"data", "super", "desc", "commit"}
           /\ c \in DataBlock => c.kind = "data"
           /\ c \in SuperBlock <=> c.kind = "super"
           /\ c \in DescriptorBlock <=> c.kind = "desc"
           /\ c \in CommitBlock <=> c.kind = "commit"
           /\ c.kind \in {"desc", "commit"} => c.seq \in Nat
BY DEF Block, DataBlock, SuperBlock, DescriptorBlock, CommitBlock

\* Nothing is replayed from a clean log.
LEMMA CleanSound ==
    ASSUME NEW image, Clean(image)
    PROVE  /\ LogSound(image) /\ ~Live(image) /\ Outcome(image) = FsPart(image)
<1>1. /\ image \in Device /\ Sb(image) \in SuperBlock /\ Numbered(image) /\ \E P : Chain(image, P)
      /\ \A a \in Address : image[a].kind = "commit" => image[a].seq < Sb(image).next_seq
  BY DEF Clean, Orderly
<1>2. /\ Sb(image).next_seq \in Nat /\ Sb(image).head \in 0..(LogBlocks - 1)
      /\ LogBlocks \in Nat \ {0}
  BY <1>1, SuperTyped, JournalAssumption
<1>3. ASSUME NEW pos \in 0..(LogBlocks - 1), NEW d, d = image[LogAddr(pos)], IsDescriptor(d),
             d.seq = Sb(image).next_seq, Committed(image, pos, d)
      PROVE  FALSE
  <2> DEFINE n == Len(d.targets)
             x == pos + 1 + n
  <2>1. d \in Block
    <3>1. pos \in Nat /\ pos < 2 * LogBlocks
      BY <1>2
    <3> QED BY <1>1, <1>3, <3>1, ReadBlock
  <2>2. n \in Nat /\ n + 2 <= LogBlocks
    BY <1>3, <2>1, DescriptorFits
  <2>3. x \in Nat /\ x < 2 * LogBlocks
    <3> HIDE DEF n
    <3> QED BY <1>2, <2>2
  <2>4. image[LogAddr(x)].kind = "commit" /\ image[LogAddr(x)].seq = Sb(image).next_seq
    BY <1>3 DEF Committed
  <2> HIDE DEF x
  <2>5. LogAddr(x) \in Address
    BY <2>3, LogAddrAt
  <2> QED BY <1>1, <1>2, <2>4, <2>5
<1>4. OneLive(image)
  BY <1>3 DEF OneLive
<1>5. ~Live(image)
  BY <1>2, <1>3 DEF Live, Foremost
<1> QED BY <1>1, <1>4, <1>5 DEF LogSound, Outcome

\* Records of one length that end in the same block begin in the same block.
LEMMA SameStart ==
    ASSUME NEW x \in 0..(LogBlocks - 1), NEW y \in 0..(LogBlocks - 1), NEW n \in Nat,
           n + 2 <= LogBlocks, LogAddr(x + 1 + n) = LogAddr(y + 1 + n)
    PROVE  x = y
<1>1. LogBlocks \in Nat \ {0}
  BY JournalAssumption
<1> DEFINE t == 1 + n
<1>2. t \in 0..(LogBlocks - 1) /\ t + x = x + 1 + n /\ t + y = y + 1 + n
  BY <1>1
<1> HIDE DEF t
<1>3. LogAddr(t + x) = LogAddr(t + y)
  BY <1>2
<1> QED BY <1>2, <1>3, LogAddrDiffer

\* From a complete log its transaction is replayed, and nothing else.
LEMMA CompleteSound ==
    ASSUME NEW image, NEW t, Complete(image, t)
    PROVE  /\ LogSound(image) /\ Live(image) /\ Replay(image) = CheckpointWrites(t)
           /\ Outcome(image) = Overlay(FsPart(image), t)
<1> DEFINE h == Sb(image).head
           q == Sb(image).next_seq
           n == Len(t)
           d == image[LogAddr(h)]
<1>1. /\ image \in Device /\ Sb(image) \in SuperBlock /\ Numbered(image) /\ \E P : Chain(image, P)
      /\ t \in Txn
  BY DEF Complete, Orderly
<1>2. /\ d.kind = "desc" /\ d.seq = q /\ d.targets = Targets(t)
      /\ \A i \in 1..n : image[LogAddr(h + i)] = t[i].contents
      /\ image[LogAddr(h + 1 + n)] = CommitRecord(q, Contents(t))
      /\ \A a \in Address : image[a].kind = "commit" /\ image[a].seq = q => a = LogAddr(h + 1 + n)
  BY Zenon DEF Complete
<1>3. q \in Nat /\ h \in 0..(LogBlocks - 1) /\ LogBlocks \in Nat \ {0} /\ Sb(image).kind = "super"
  BY <1>1, SuperTyped, JournalAssumption
<1>4. /\ n \in 1..LogBlocks /\ n \in 1..MaxTargets /\ n + 2 <= LogBlocks
      /\ Len(Targets(t)) = n
      /\ \A i \in 1..n : t[i].target \in FsBlock /\ Targets(t)[i] = t[i].target
      /\ Contents(t) = [i \in 1..n |-> t[i].contents]
  BY <1>1, TxnParts
<1>5. Len(d.targets) = n /\ \A i \in 1..n : d.targets[i] = t[i].target /\ d.targets[i] < FsBlocks
  BY <1>2, <1>4, JournalAssumption DEF FsBlock
<1> HIDE DEF h, q, n, d
<1>6. IsDescriptor(d)
  BY <1>2, <1>4, <1>5 DEF IsDescriptor
<1>7. LoggedData(image, h, n) = Contents(t)
  BY <1>2, <1>4 DEF LoggedData
<1>8. Committed(image, h, d)
  <2>1. Len(d.targets) = n
    BY <1>5
  <2> QED BY <1>2, <1>7, <2>1 DEF Committed, CommitRecord
<1>9. Foremost(image) = d
  BY DEF Foremost, d, h
<1>10. Live(image)
  BY <1>2, <1>6, <1>8, <1>9 DEF Live, h, q
<1>11. ASSUME NEW pos \in 0..(LogBlocks - 1), NEW e, e = image[LogAddr(pos)], IsDescriptor(e),
              e.seq = q, Committed(image, pos, e)
       PROVE  pos = h
  <2> DEFINE m == Len(e.targets)
             x == pos + 1 + m
  <2>1. e \in Block
    <3>1. pos \in Nat /\ pos < 2 * LogBlocks
      BY <1>3
    <3> QED BY <1>1, <1>11, <3>1, ReadBlock
  <2>2. m \in Nat /\ m + 2 <= LogBlocks
    BY <1>11, <2>1, DescriptorFits
  <2>3. x \in Nat /\ x < 2 * LogBlocks
    <3> HIDE DEF m
    <3> QED BY <1>3, <2>2
  <2>4. image[LogAddr(x)].kind = "commit" /\ image[LogAddr(x)].seq = q
        /\ image[LogAddr(x)].crc = LoggedData(image, pos, m)
    BY <1>11 DEF Committed
  <2> HIDE DEF m
  <2>5. LogAddr(x) \in Address
    <3> HIDE DEF x
    <3> QED BY <2>3, LogAddrAt
  <2>6. LogAddr(x) = LogAddr(h + 1 + n)
    BY <1>2, <2>4, <2>5
  <2>7. LoggedData(image, pos, m) = Contents(t)
    <3> HIDE DEF x
    <3> QED BY <1>2, <2>4, <2>6 DEF CommitRecord
  <2>8. m = n
    <3>1. DOMAIN LoggedData(image, pos, m) = 1..m /\ DOMAIN Contents(t) = 1..n
      BY <1>4 DEF LoggedData
    <3>2. 1..m = 1..n
      BY <2>7, <3>1
    <3> QED BY <1>4, <2>2, <3>2
  <2>9. n \in Nat /\ LogAddr(pos + 1 + n) = LogAddr(h + 1 + n)
    BY <1>4, <2>6, <2>8
  <2> QED BY <1>3, <1>4, <2>9, SameStart, Zenon
<1>12. OneLive(image)
  BY <1>5, <1>11 DEF OneLive, q, h, d
<1>13. LogSound(image)
  BY <1>1, <1>12 DEF LogSound
<1>14. Replay(image) = CheckpointWrites(t)
  <2>1. Replay(image) = [i \in 1..n |-> BlockWrite(d.targets[i], image[LogAddr(h + i)])]
    BY <1>5, <1>9 DEF Replay, h
  <2>2. DOMAIN t = 1..n
    BY <1>1 DEF Txn, n
  <2>3. CheckpointWrites(t) = [i \in 1..n |-> BlockWrite(t[i].target, t[i].contents)]
    BY <2>2 DEF CheckpointWrites
  <2>4. \A i \in 1..n : BlockWrite(d.targets[i], image[LogAddr(h + i)])
                        = BlockWrite(t[i].target, t[i].contents)
    BY <1>2, <1>5
  <2> QED BY <2>1, <2>3, <2>4
<1>15. Outcome(image) = Overlay(FsPart(image), t)
  <2> DEFINE ws == CheckpointWrites(t)
  <2>1. ws \in Seq(Write)
    BY <1>1, CheckpointParts
  <2>2. Outcome(image) = FsPart(Written(image, ws))
    BY <1>3, <1>10, <1>14 DEF Outcome
  <2> HIDE DEF ws
  <2>3. FsPart(Written(image, ws)) = Written(FsPart(image), ws)
    BY <1>1, <2>1, FsPartWritten
  <2> QED BY <2>2, <2>3 DEF Overlay, ws
<1> QED BY <1>10, <1>13, <1>14, <1>15

\* A mount of a sound device, whatever it has to replay.
LEMMA SoundRecovered ==
    ASSUME NEW image, Sound(image)
    PROVE  Recovered(image) = Outcome(image) /\ (Sb(image).kind = "super" => LogSound(image))
<1>1. image \in Device /\ (Sb(image).kind = "super" => LogSound(image))
  BY CleanSound, CompleteSound DEF Sound
<1> QED BY <1>1, RecoveredIs

\* The superblock and the log lie outside of the file system.
LEMMA Outside ==
    /\ SuperAddr \in Address \ FsBlock /\ FsBlock \subseteq Address
    /\ \A x \in Nat : x < 2 * LogBlocks => LogAddr(x) \in Address \ FsBlock /\ LogAddr(x) # SuperAddr
<1>1. LogBlocks \in Nat \ {0} /\ FsBlocks \in Nat \ {0}
  BY JournalAssumption
<1>2. ASSUME NEW x \in Nat, x < 2 * LogBlocks PROVE LogAddr(x) \in Address \ FsBlock /\ LogAddr(x) # SuperAddr
  <2>1. LogAddr(x) \in Address /\ LogAddr(x) > SuperAddr
    BY <1>2, LogAddrAt
  <2> QED BY <1>1, <2>1 DEF Address, FsBlock, SuperAddr
<1> QED BY <1>1, <1>2 DEF Address, FsBlock, SuperAddr

\* What the file system's blocks hold does not matter to the log.
LEMMA LogApart ==
    ASSUME NEW image, NEW other \in Device, FsData(other),
           \A a \in Address \ FsBlock : other[a] = image[a]
    PROVE  /\ Clean(image) => Clean(other)
           /\ \A t : Complete(image, t) => Complete(other, t)
<1>1. LogBlocks \in Nat \ {0} /\ Sb(other) = Sb(image)
  BY JournalAssumption, Outside DEF Sb
<1>2. \A x \in Nat : x < 2 * LogBlocks => other[LogAddr(x)] = image[LogAddr(x)]
  BY Outside
<1>3. \A a \in Address : other[a].kind \in {"desc", "commit"} => other[a] = image[a]
  <2>1. \A a \in FsBlock : other[a].kind = "data"
    BY DEF FsData, DataBlock
  <2> QED BY <2>1
<1>4. ASSUME Orderly(image) PROVE Orderly(other)
  <2>1. Sb(other) \in SuperBlock
    BY <1>1, <1>4 DEF Orderly
  <2>2. Numbered(other)
    BY <1>1, <1>3, <1>4 DEF Orderly, Numbered
  <2>3. PICK P : Chain(image, P)
    BY <1>4 DEF Orderly
  <2>4. Chain(other, P)
    <3>1. ASSUME NEW p \in P PROVE other[LogAddr(Sb(image).tail + p)] = image[LogAddr(Sb(image).tail + p)]
      <4> DEFINE x == Sb(image).tail + p
      <4>1. Sb(image).tail \in 0..(LogBlocks - 1) /\ Span(Sb(image)) \in 0..(LogBlocks - 1)
        BY <1>1, <2>1, SuperTyped
      <4>2. p \in 0..Span(Sb(image))
        BY <2>3 DEF Chain
      <4>3. x \in Nat /\ x < 2 * LogBlocks
        BY <1>1, <4>1, <4>2
      <4> HIDE DEF x
      <4>4. other[LogAddr(x)] = image[LogAddr(x)]
        BY <1>2, <4>3
      <4> QED BY <4>4 DEF x
    <3> QED BY <1>1, <2>3, <3>1 DEF Chain
  <2> QED BY <2>1, <2>2, <2>4 DEF Orderly
<1>5. ASSUME Clean(image) PROVE Clean(other)
  BY <1>1, <1>3, <1>4, <1>5 DEF Clean
<1>6. ASSUME NEW t, Complete(image, t) PROVE Complete(other, t)
  <2> DEFINE h == Sb(image).head
             n == Len(t)
  <2>1. Orderly(image) /\ t \in Txn /\ Sb(image) \in SuperBlock
    BY <1>6 DEF Complete, Orderly
  <2>2. h \in 0..(LogBlocks - 1) /\ n \in 1..LogBlocks /\ n + 2 <= LogBlocks
    BY <2>1, SuperTyped, TxnParts
  <2> HIDE DEF h, n
  <2>3. other[LogAddr(h)] = image[LogAddr(h)]
    <3>1. h \in Nat /\ h < 2 * LogBlocks
      BY <1>1, <2>2
    <3> QED BY <1>2, <3>1
  <2>4. ASSUME NEW i \in 1..n PROVE other[LogAddr(h + i)] = image[LogAddr(h + i)]
    <3>1. h + i \in Nat /\ h + i < 2 * LogBlocks
      BY <1>1, <2>2
    <3> QED BY <1>2, <3>1
  <2>5. other[LogAddr(h + 1 + n)] = image[LogAddr(h + 1 + n)]
    <3>1. h + 1 + n \in Nat /\ h + 1 + n < 2 * LogBlocks
      BY <1>1, <2>2
    <3> QED BY <1>2, <3>1
  <2>6. Orderly(other)
    BY <1>4, <2>1
  <2> QED BY <1>1, <1>3, <1>6, <2>3, <2>4, <2>5, <2>6, ZenonT(30) DEF Complete, h, n
<1> QED BY <1>5, <1>6

\* Writes to the file system leave the log alone.
LEMMA FsWritten ==
    ASSUME NEW image \in Device, FsData(image), NEW ws \in Seq(Write),
           \A i \in 1..Len(ws) : ws[i].addr \in FsBlock /\ ws[i].contents \in DataBlock
    PROVE  /\ Written(image, ws) \in Device /\ FsData(Written(image, ws))
           /\ Sb(Written(image, ws)) = Sb(image)
           /\ Clean(image) => Clean(Written(image, ws))
           /\ \A t : Complete(image, t) => Complete(Written(image, ws), t)
<1> DEFINE other == Written(image, ws)
<1>1. other \in Device
  BY WrittenType
<1>2. FsBlock \subseteq Address /\ DOMAIN image = Address
  BY Outside DEF Device
<1>3. ASSUME NEW a \in Address \ FsBlock PROVE other[a] = image[a]
  <2>1. \A i \in 1..Len(ws) : ws[i].addr # a
    OBVIOUS
  <2> QED BY <1>2, <2>1, WrittenElsewhere
<1>4. ASSUME NEW b \in FsBlock PROVE other[b] \in DataBlock
  <2>1. b \in DOMAIN image /\ image[b] \in DataBlock
    BY <1>2 DEF FsData
  <2>2. CASE \A i \in 1..Len(ws) : ws[i].addr # b
    BY <2>1, <2>2, WrittenElsewhere
  <2>3. CASE ~ \A i \in 1..Len(ws) : ws[i].addr # b
    <3>1. \E i \in 1..Len(ws) :
              /\ ws[i].addr = b /\ \A j \in 1..Len(ws) : j > i => ws[j].addr # b
              /\ other[b] = ws[i].contents
      BY <2>1, <2>3, WrittenAt
    <3> QED BY <3>1
  <2> QED BY <2>2, <2>3
<1> HIDE DEF other
<1>5. FsData(other)
  BY <1>4 DEF FsData
<1>6. Sb(other) = Sb(image)
  BY <1>3, Outside DEF Sb
<1>7. (Clean(image) => Clean(other)) /\ \A t : Complete(image, t) => Complete(other, t)
  BY <1>1, <1>3, <1>5, LogApart, Zenon
<1> QED BY <1>1, <1>5, <1>6, <1>7 DEF other
-----------------------------------------------------------------------------
(* A new superblock.                                                       *)

Jnl == [head : 0..(LogBlocks - 1), tail : 0..(LogBlocks - 1), next_seq : Nat \ {0}, life : Nat]

\* The superblock that persist_super writes holds the journal's positions.
LEMMA SuperHolds ==
    ASSUME NEW j \in Jnl
    PROVE  /\ Super(j) \in SuperBlock /\ Super(j) \in Block /\ Super(j).kind = "super"
           /\ Super(j).head = j.head /\ Super(j).tail = j.tail /\ Super(j).next_seq = j.next_seq
           /\ SuperWrite(j) \in Write /\ SuperWrite(j).addr = SuperAddr
           /\ SuperWrite(j).contents = Super(j)
           /\ Span(Super(j)) = Span(j)
<1>1. /\ Super(j) \in SuperBlock /\ Super(j).kind = "super"
      /\ Super(j).head = j.head /\ Super(j).tail = j.tail /\ Super(j).next_seq = j.next_seq
  BY DEF Super, SuperBlock, Jnl
<1>2. Super(j) \in Block
  BY <1>1 DEF Block
<1>3. SuperAddr \in Address
  BY Outside
<1>4. /\ SuperWrite(j) = BlockWrite(SuperAddr, Super(j))
      /\ BlockWrite(SuperAddr, Super(j)).addr = SuperAddr
      /\ BlockWrite(SuperAddr, Super(j)).contents = Super(j)
  BY DEF SuperWrite, BlockWrite
<1>5. SuperWrite(j) \in Write
  BY <1>2, <1>3 DEF SuperWrite, BlockWrite, Write
<1>6. Span(Super(j)) = Span(j)
  BY <1>1 DEF Span
<1> QED BY <1>1, <1>2, <1>4, <1>5, <1>6, Zenon

\* persist_super changes the superblock only.
LEMMA SuperWritten ==
    ASSUME NEW image \in Device, NEW j \in Jnl
    PROVE  LET other == Written(image, <<SuperWrite(j)>>)
           IN  /\ other \in Device /\ Sb(other) = Super(j) /\ FsPart(other) = FsPart(image)
               /\ \A a \in Address : a # SuperAddr => other[a] = image[a]
               /\ FsData(image) => FsData(other)
<1> DEFINE w == SuperWrite(j)
           other == Written(image, <<w>>)
<1>1. w \in Write /\ w.addr = SuperAddr /\ w.contents = Super(j) /\ Super(j) \in Block
  BY SuperHolds
<1>2. SuperAddr \in Address \ FsBlock /\ FsBlock \subseteq Address
  BY Outside
<1>3. other = [image EXCEPT ![SuperAddr] = Super(j)]
  <2> HIDE DEF w
  <2>1. image \in [Address -> Block] /\ w.addr \in Address
    BY <1>1, <1>2 DEF Device
  <2>2. Written(image, <<w>>) = [image EXCEPT ![w.addr] = w.contents]
    BY <2>1, WrittenOne, ZenonT(30)
  <2> QED BY <1>1, <2>2
<1> HIDE DEF other
<1>4. other \in Device /\ other[SuperAddr] = Super(j)
      /\ \A a \in Address : a # SuperAddr => other[a] = image[a]
  BY <1>1, <1>2, <1>3 DEF Device
<1>5. \A b \in FsBlock : other[b] = image[b]
  BY <1>2, <1>4
<1>6. FsPart(other) = FsPart(image) /\ (FsData(image) => FsData(other))
  BY <1>5 DEF FsPart, FsData
<1> QED BY <1>4, <1>6 DEF other, Sb, w

\* After persist_super has set the tail to the head nothing is left to replay,
\* whatever records lie in the ring.
LEMMA EmptiedClean ==
    ASSUME NEW image, Orderly(image), NEW j \in Jnl, j.head = j.tail,
           j.next_seq >= Sb(image).next_seq,
           \A a \in Address : image[a].kind = "commit" => image[a].seq < j.next_seq
    PROVE  Clean(Written(image, <<SuperWrite(j)>>))
<1> DEFINE other == Written(image, <<SuperWrite(j)>>)
<1>1. image \in Device /\ Numbered(image) /\ Sb(image) \in SuperBlock
  BY DEF Orderly
<1>2. other \in Device /\ Sb(other) = Super(j) /\ \A a \in Address : a # SuperAddr => other[a] = image[a]
  BY <1>1, SuperWritten, Zenon
<1>3. Super(j) \in SuperBlock /\ Super(j).kind = "super" /\ Super(j).head = j.head
      /\ Super(j).tail = j.tail /\ Super(j).next_seq = j.next_seq
  BY SuperHolds, Zenon
<1>4. Sb(image).next_seq \in Nat /\ j.next_seq \in Nat /\ LogBlocks \in Nat
      /\ j.head \in 0..(LogBlocks - 1)
  BY <1>1, SuperTyped, JournalAssumption DEF Jnl
<1> HIDE DEF other
<1>5. \A a \in Address : other[a].kind \in {"desc", "commit"} => other[a] = image[a]
  BY <1>2, <1>3 DEF Sb
<1>6. Numbered(other)
  <2> SUFFICES ASSUME NEW a \in Address, other[a].kind \in {"desc", "commit"}
               PROVE  other[a].seq <= j.next_seq
    BY <1>2, <1>3 DEF Numbered
  <2>1. other[a] = image[a] /\ image[a] \in Block
    BY <1>1, <1>5 DEF Device
  <2>2. image[a].seq \in Nat /\ image[a].seq <= Sb(image).next_seq
    BY <1>1, <2>1, Kinds DEF Numbered
  <2> QED BY <1>4, <2>1, <2>2
<1>7. Span(Sb(other)) = 0
  BY <1>2, <1>3, <1>4 DEF Span
<1>8. Chain(other, {0})
  BY <1>7 DEF Chain
<1>9. \A a \in Address : other[a].kind = "commit" => other[a].seq < j.next_seq
  BY <1>5
<1>10. Clean(other)
  BY <1>2, <1>3, <1>6, <1>8, <1>9, Zenon DEF Clean, Orderly
<1> QED BY <1>10 DEF other

\* The distance from the tail to a head that has moved on; a ring that is full
\* looks empty.
LEMMA SpanMoves ==
    ASSUME NEW h \in 0..(LogBlocks - 1), NEW t \in 0..(LogBlocks - 1), NEW n \in Nat, NEW s,
           s = IF h >= t THEN h - t ELSE h + LogBlocks - t, s + n + 2 <= LogBlocks
    PROVE  LET g == (h + n + 2) % LogBlocks
           IN  /\ g \in 0..(LogBlocks - 1)
               /\ (IF g >= t THEN g - t ELSE g + LogBlocks - t)
                  = IF s + n + 2 = LogBlocks THEN 0 ELSE s + n + 2
<1>1. LogBlocks \in Nat \ {0}
  BY JournalAssumption
<1> DEFINE x == h + n + 2
           g == x % LogBlocks
<1>2. x \in Nat /\ x < 2 * LogBlocks /\ s \in Nat
  BY <1>1
<1>3. g = IF x < LogBlocks THEN x ELSE x - LogBlocks
  <2> HIDE DEF x
  <2> QED BY <1>1, <1>2, WrapOnce, Zenon
<1> HIDE DEF g
<1>4. g \in 0..(LogBlocks - 1)
  BY <1>1, <1>2, <1>3
<1>5. (IF g >= t THEN g - t ELSE g + LogBlocks - t) = IF s + n + 2 = LogBlocks THEN 0 ELSE s + n + 2
  <2>1. CASE h >= t
    BY <1>1, <1>2, <1>3, <2>1
  <2>2. CASE ~(h >= t)
    BY <1>1, <1>2, <1>3, <2>2
  <2> QED BY <2>1, <2>2
<1> QED BY <1>4, <1>5 DEF g

\* Step 5 of commit: the record at the head joins the chain behind it, or the
\* chain starts over in a full ring.
LEMMA AdvancedClean ==
    ASSUME NEW image, NEW t, Complete(image, t), NEW j \in Jnl, Sb(image) = Super(j), NEW k,
           k = [j EXCEPT !.head = (j.head + Len(t) + 2) % LogBlocks, !.next_seq = j.next_seq + 1]
    PROVE  k \in Jnl /\ Clean(Written(image, <<SuperWrite(k)>>))
<1> DEFINE other == Written(image, <<SuperWrite(k)>>)
           n == Len(t)
           s == Span(j)
           g == (j.head + Len(t) + 2) % LogBlocks
<1>1. image \in Device /\ Numbered(image) /\ Sb(image) \in SuperBlock /\ t \in Txn
      /\ Span(Sb(image)) + n + 2 <= LogBlocks
  BY DEF Complete, Orderly
<1>2. Super(j).head = j.head /\ Super(j).tail = j.tail /\ Super(j).next_seq = j.next_seq
      /\ Span(Sb(image)) = s
  BY SuperHolds
<1>3. /\ j.head \in 0..(LogBlocks - 1) /\ j.tail \in 0..(LogBlocks - 1) /\ j.next_seq \in Nat \ {0}
      /\ s = (IF j.head >= j.tail THEN j.head - j.tail ELSE j.head + LogBlocks - j.tail)
      /\ LogBlocks \in Nat \ {0}
  BY JournalAssumption DEF Jnl, Span
<1>4. n \in Nat /\ n \in 1..MaxTargets /\ n + 2 <= LogBlocks /\ Len(Targets(t)) = n
  BY <1>1, TxnParts
<1>5. /\ g \in 0..(LogBlocks - 1)
      /\ (IF g >= j.tail THEN g - j.tail ELSE g + LogBlocks - j.tail)
         = IF s + n + 2 = LogBlocks THEN 0 ELSE s + n + 2
  <2>1. s + n + 2 <= LogBlocks
    BY <1>1, <1>2
  <2> DEFINE h == j.head
             b == j.tail
  <2>2. g = (h + n + 2) % LogBlocks /\ h \in 0..(LogBlocks - 1) /\ b \in 0..(LogBlocks - 1)
        /\ s = IF h >= b THEN h - b ELSE h + LogBlocks - b
    BY <1>3
  <2> HIDE DEF s, n, h, b, g
  <2>3. /\ g \in 0..(LogBlocks - 1)
        /\ (IF g >= b THEN g - b ELSE g + LogBlocks - b)
           = IF s + n + 2 = LogBlocks THEN 0 ELSE s + n + 2
    BY <1>4, <2>1, <2>2, SpanMoves
  <2> QED BY <2>3 DEF b
<1> HIDE DEF g
<1>6. k \in Jnl /\ k.head = g /\ k.tail = j.tail /\ k.next_seq = j.next_seq + 1
  <2>1. k = [j EXCEPT !.head = g, !.next_seq = j.next_seq + 1]
    BY DEF g
  <2>2. j.next_seq + 1 \in Nat \ {0}
    BY <1>3
  <2> QED BY <1>5, <2>1, <2>2, Zenon DEF Jnl
<1>7. Span(k) = IF s + n + 2 = LogBlocks THEN 0 ELSE s + n + 2
  BY <1>5, <1>6 DEF Span
<1> HIDE DEF s, n
<1>8. /\ Super(k) \in SuperBlock /\ Super(k).tail = k.tail /\ Super(k).next_seq = k.next_seq
      /\ Super(k).kind = "super" /\ Span(Super(k)) = Span(k)
  BY <1>6, SuperHolds, Zenon
<1>9. other \in Device /\ Sb(other) = Super(k) /\ \A a \in Address : a # SuperAddr => other[a] = image[a]
  BY <1>1, <1>6, SuperWritten
<1> HIDE DEF other
<1>10. \A a \in Address : other[a].kind \in {"desc", "commit"} =>
           other[a] = image[a] /\ other[a].seq \in Nat /\ other[a].seq <= j.next_seq
  <2> SUFFICES ASSUME NEW a \in Address, other[a].kind \in {"desc", "commit"}
               PROVE  other[a] = image[a] /\ other[a].seq \in Nat /\ other[a].seq <= j.next_seq
    OBVIOUS
  <2>1. other[a] = image[a] /\ image[a] \in Block
    BY <1>1, <1>8, <1>9 DEF Sb, Device
  <2> QED BY <1>1, <1>2, <2>1, Kinds DEF Numbered
<1>a. Sb(other).next_seq = j.next_seq + 1 /\ j.next_seq \in Nat
  BY <1>3, <1>6, <1>8, <1>9, Zenon
<1>11. Numbered(other)
  BY <1>10, <1>a DEF Numbered
<1>12. \A a \in Address : other[a].kind = "commit" => other[a].seq < Sb(other).next_seq
  BY <1>10, <1>a
<1>13. \E P : Chain(other, P)
  <2>1. CASE s + n + 2 = LogBlocks
    <3>1. Span(Sb(other)) = 0
      BY <1>7, <1>8, <1>9, <2>1
    <3>2. Chain(other, {0})
      BY <3>1 DEF Chain
    <3> QED BY <3>2
  <2>2. CASE s + n + 2 # LogBlocks
    <3>1. Span(Sb(other)) = s + n + 2 /\ s \in 0..(LogBlocks - 1) /\ s + n + 2 < LogBlocks
      <4>1. s \in 0..(LogBlocks - 1)
        BY <1>3
      <4>2. s + n + 2 <= LogBlocks
        BY <1>1, <1>2
      <4>3. Span(Sb(other)) = s + n + 2
        BY <1>7, <1>8, <1>9, <2>2
      <4>4. s + n + 2 < LogBlocks
        <5>1. s \in Nat /\ n \in Nat /\ LogBlocks \in Nat
          BY <1>3, <1>4, <4>1
        <5> QED BY <2>2, <4>2, <5>1
      <4> QED BY <4>1, <4>3, <4>4
    <3>2. PICK P : Chain(image, P)
      BY DEF Complete, Orderly
    <3>3. P \subseteq 0..s /\ 0 \in P
      BY <1>2, <3>2 DEF Chain
    <3> DEFINE Q == P \cup {s + n + 2}
               at(p) == LogAddr(j.tail + p)
    <3>4. ASSUME NEW p \in P PROVE other[at(p)] = image[at(p)]
      <4> DEFINE x == j.tail + p
      <4>1. x \in Nat /\ x < 2 * LogBlocks
        BY <1>3, <3>1, <3>3
      <4> HIDE DEF x
      <4>2. LogAddr(x) \in Address /\ LogAddr(x) # SuperAddr
        BY <4>1, Outside
      <4>3. other[LogAddr(x)] = image[LogAddr(x)]
        BY <1>9, <4>2
      <4> QED BY <4>3 DEF x
    <3>5. ASSUME NEW p \in Q, p < s + n + 2
          PROVE  LET d == other[at(p)]
                 IN  IsDescriptor(d) /\ d.seq < k.next_seq /\ p + Len(d.targets) + 2 \in Q
      <4>1. p \in P /\ p \in 0..s
        BY <1>4, <3>1, <3>3, <3>5
      <4>2. CASE p < s
        <5> DEFINE d == image[at(p)]
        <5>1. IsDescriptor(d) /\ d.seq < j.next_seq /\ p + Len(d.targets) + 2 \in P
          BY <1>2, <3>2, <4>1, <4>2 DEF Chain
        <5>2. d \in Block
          <6> DEFINE x == j.tail + p
          <6>1. x \in Nat /\ x < 2 * LogBlocks
            BY <1>3, <3>1, <4>1
          <6> HIDE DEF x
          <6>2. image[LogAddr(x)] \in Block
            BY <1>1, <6>1, ReadBlock
          <6> QED BY <6>2 DEF x
        <5>3. d.seq \in Nat
          BY <5>1, <5>2, DescriptorFits
        <5>4. other[at(p)] = d
          BY <3>4, <4>1
        <5> HIDE DEF d
        <5>5. d.seq < k.next_seq
          BY <1>3, <1>6, <5>1, <5>3
        <5> QED BY <5>1, <5>4, <5>5
      <4>3. CASE p = s
        <5> DEFINE d == image[LogAddr(j.head)]
        <5>1. d.kind = "desc" /\ d.seq = j.next_seq /\ d.targets = Targets(t)
          BY <1>2 DEF Complete
        <5>2. IsDescriptor(d) /\ Len(d.targets) = n
          BY <1>4, <5>1 DEF IsDescriptor
        <5>3. at(p) = LogAddr(j.head)
          <6> DEFINE x == j.tail + s
          <6>1. x \in Nat /\ x < 2 * LogBlocks /\ x % LogBlocks = j.head
            <7>1. (Sb(image).tail + Span(Sb(image))) % LogBlocks = Sb(image).head
              BY <1>1, SuperTyped
            <7> QED BY <1>2, <1>3, <3>1, <7>1
          <6> HIDE DEF x
          <6>2. LogAddr(x) = LogAddr(j.head)
            BY <6>1, LogAddrAt
          <6> QED BY <4>3, <6>2 DEF x
        <5>4. other[at(p)] = d
          BY <3>4, <4>1, <5>3
        <5> HIDE DEF d
        <5>5. d.seq < k.next_seq /\ p + Len(d.targets) + 2 \in Q
          BY <1>3, <1>6, <4>3, <5>1, <5>2
        <5> QED BY <5>2, <5>4, <5>5, Zenon
      <4> QED BY <3>1, <4>1, <4>2, <4>3
    <3>6. Q \subseteq 0..(s + n + 2) /\ 0 \in Q
      <4>1. n \in Nat /\ s \in Nat /\ P \subseteq 0..s /\ 0 \in P
        BY <1>4, <3>1, <3>3
      <4> QED BY ONLY <4>1
    <3> HIDE DEF Q
    <3>7. Chain(other, Q)
      BY <1>6, <1>8, <1>9, <3>1, <3>5, <3>6, Zenon DEF Chain
    <3> QED BY <3>7
  <2> QED BY <2>1, <2>2
<1>14. Clean(other)
  BY <1>8, <1>9, <1>11, <1>12, <1>13, ZenonT(30) DEF Clean, Orderly
<1> QED BY <1>6, <1>14 DEF other
-----------------------------------------------------------------------------
(* The writes of a commit.                                                 *)

LoggedBlock(i) ==
    LET n == Len(txn)
    IN  IF i = 1 THEN Descriptor(jnl.next_seq, Targets(txn), jnl.life)
        ELSE IF i = n + 2 THEN CommitRecord(jnl.next_seq, Contents(txn))
        ELSE txn[i - 1].contents

\* Steps 1-3 of commit fill the blocks from the head on, in order.
LEMMA LogWritesAre ==
    ASSUME jnl \in Jnl, txn \in Txn
    PROVE  /\ LogWrites \in Seq(Write) /\ Len(LogWrites) = Len(txn) + 2
           /\ \A i \in 1..(Len(txn) + 2) :
                /\ LogWrites[i].addr = LogAddr(jnl.head + (i - 1))
                /\ LogWrites[i].contents = LoggedBlock(i)
<1> DEFINE n == Len(txn)
           h == jnl.head
           q == jnl.next_seq
           A == BlockWrite(LogAddr(h), Descriptor(q, Targets(txn), jnl.life))
           W(i) == BlockWrite(LogAddr(h + i), txn[i].contents)
           B == BlockWrite(LogAddr(h + 1 + n), CommitRecord(q, Contents(txn)))
           mid == [i \in 1..n |-> W(i)]
           ws == <<A>> \o mid \o <<B>>
<1>1. /\ n \in 1..LogBlocks /\ n + 2 <= LogBlocks /\ Targets(txn) \in Seq(Nat)
      /\ Contents(txn) \in Seq(DataBlock)
      /\ \A i \in 1..n : txn[i].contents \in DataBlock
  BY TxnParts
<1>2. h \in 0..(LogBlocks - 1) /\ q \in Nat /\ jnl.life \in Nat /\ LogBlocks \in Nat \ {0}
  BY JournalAssumption DEF Jnl
<1>3. A \in Write
  <2>1. h \in Nat /\ h < 2 * LogBlocks
    BY <1>2
  <2>2. LogAddr(h) \in Address
    BY <2>1, LogAddrAt
  <2>3. Descriptor(q, Targets(txn), jnl.life) \in Block
    BY <1>1, <1>2 DEF Descriptor, Block, DescriptorBlock
  <2> QED BY <2>2, <2>3 DEF BlockWrite, Write
<1>4. ASSUME NEW i \in 1..n PROVE W(i) \in Write
  <2>1. h + i \in Nat /\ h + i < 2 * LogBlocks
    BY <1>1, <1>2
  <2>2. LogAddr(h + i) \in Address
    <3> DEFINE x == h + i
    <3> HIDE DEF x
    <3> SUFFICES LogAddr(x) \in Address
      BY DEF x
    <3> QED BY <2>1, LogAddrAt DEF x
  <2>3. txn[i].contents \in Block
    BY <1>1 DEF Block
  <2> QED BY <2>2, <2>3 DEF BlockWrite, Write
<1>5. B \in Write
  <2>1. h + 1 + n \in Nat /\ h + 1 + n < 2 * LogBlocks
    BY <1>1, <1>2
  <2>2. LogAddr(h + 1 + n) \in Address
    <3> DEFINE x == h + 1 + n
    <3>1. x \in Nat /\ x < 2 * LogBlocks
      BY <2>1
    <3> HIDE DEF x
    <3>2. LogAddr(x) \in Address
      BY <3>1, LogAddrAt
    <3> QED BY <3>2 DEF x
  <2>3. CommitRecord(q, Contents(txn)) \in Block
    BY <1>1, <1>2 DEF CommitRecord, Block, CommitBlock
  <2> QED BY <2>2, <2>3 DEF BlockWrite, Write
<1>6. n \in Nat
  BY <1>1
<1>7. LogWrites = ws
  BY DEF LogWrites
<1>8. mid \in Seq(Write) /\ Len(mid) = n
  <2>1. mid \in [1..n -> Write]
    BY <1>4
  <2> HIDE DEF mid, n
  <2> QED BY <1>6, <2>1
<1>9. \A i \in 1..n : mid[i] = W(i)
  OBVIOUS
<1> HIDE DEF A, B, mid, W
<1>10. /\ ws \in Seq(Write) /\ Len(ws) = n + 2 /\ ws[1] = A /\ ws[n + 2] = B
       /\ \A i \in 1..n : ws[i + 1] = mid[i]
  <2> HIDE DEF n
  <2> QED BY <1>3, <1>5, <1>6, <1>8
<1> HIDE DEF ws
<1>11. ASSUME NEW i \in 1..(n + 2)
       PROVE  ws[i].addr = LogAddr(h + (i - 1)) /\ ws[i].contents = LoggedBlock(i)
  <2>1. CASE i = 1
    <3>1. h + (i - 1) = h
      BY <1>2, <2>1
    <3> QED BY <1>10, <2>1, <3>1 DEF A, BlockWrite, LoggedBlock
  <2>2. CASE i = n + 2
    <3>1. h + (i - 1) = h + 1 + n /\ i # 1
      BY <1>2, <1>6, <2>2
    <3> QED BY <1>10, <2>2, <3>1 DEF B, BlockWrite, LoggedBlock
  <2>3. CASE i # 1 /\ i # n + 2
    <3>1. i - 1 \in 1..n /\ (i - 1) + 1 = i
      BY <1>6, <2>3
    <3>2. ws[i] = W(i - 1)
      BY <1>9, <1>10, <3>1, Zenon
    <3> QED BY <2>3, <3>2 DEF W, BlockWrite, LoggedBlock
  <2> QED BY <2>1, <2>2, <2>3
<1> QED BY <1>7, <1>10, <1>11

\* A record written at the head does not reach the records behind the tail.
LEMMA Beyond ==
    ASSUME NEW h \in 0..(LogBlocks - 1), NEW t \in 0..(LogBlocks - 1), NEW s, NEW p \in Nat,
           NEW o \in Nat, s = IF h >= t THEN h - t ELSE h + LogBlocks - t,
           p < s, s + o < LogBlocks
    PROVE  LogAddr(t + p) # LogAddr(h + o)
<1>1. LogBlocks \in Nat \ {0} /\ FsBlocks \in Nat
  BY JournalAssumption
<1> DEFINE x == t + p
           y == h + o
<1>2. x \in Nat /\ x < 2 * LogBlocks /\ y \in Nat /\ y < 2 * LogBlocks
  BY <1>1
<1>3. LogAddr(x) = FsBlocks + 1 + (IF x < LogBlocks THEN x ELSE x - LogBlocks)
  <2> HIDE DEF x
  <2> QED BY <1>2, LogAddrAt
<1>4. LogAddr(y) = FsBlocks + 1 + (IF y < LogBlocks THEN y ELSE y - LogBlocks)
  <2> HIDE DEF y
  <2> QED BY <1>2, LogAddrAt
<1> SUFFICES ASSUME LogAddr(x) = LogAddr(y) PROVE FALSE
  OBVIOUS
<1>5. (IF x < LogBlocks THEN x ELSE x - LogBlocks) = IF y < LogBlocks THEN y ELSE y - LogBlocks
  <2> DEFINE u == IF x < LogBlocks THEN x ELSE x - LogBlocks
             v == IF y < LogBlocks THEN y ELSE y - LogBlocks
  <2>1. u \in Nat /\ v \in Nat
    BY <1>1, <1>2
  <2>2. FsBlocks + 1 + u = FsBlocks + 1 + v
    BY <1>3, <1>4
  <2> HIDE DEF u, v
  <2>3. u = v
    BY <1>1, <2>1, <2>2
  <2> QED BY <2>3 DEF u, v
<1>6. CASE h >= t
  BY <1>1, <1>5, <1>6
<1>7. CASE ~(h >= t)
  BY <1>1, <1>5, <1>7
<1> QED BY <1>6, <1>7

\* A power loss in the middle of steps 1-3 leaves a clean log; after them the
\* transaction is complete.
LEMMA LogWritten ==
    ASSUME NEW image, Clean(image), jnl \in Jnl, Sb(image) = Super(jnl), txn \in Txn,
           Span(jnl) + Len(txn) + 2 <= LogBlocks, NEW m \in 0..(Len(txn) + 2)
    PROVE  LET other == Written(image, SubSeq(LogWrites, 1, m))
           IN  /\ other \in Device /\ Sb(other) = Sb(image) /\ FsPart(other) = FsPart(image)
               /\ FsData(image) => FsData(other)
               /\ IF m = Len(txn) + 2 THEN Complete(other, txn) ELSE Clean(other)
<1> DEFINE n == Len(txn)
           h == jnl.head
           q == jnl.next_seq
           ls == LogWrites
           ws == SubSeq(ls, 1, m)
           at(i) == LogAddr(h + (i - 1))
           other == Written(image, ws)
<1>1. /\ image \in Device /\ Numbered(image) /\ Sb(image) \in SuperBlock
      /\ \A a \in Address : image[a].kind = "commit" => image[a].seq < q
      /\ Sb(image).head = h /\ Sb(image).tail = jnl.tail /\ Sb(image).next_seq = q
      /\ Span(Sb(image)) = Span(jnl)
  BY SuperHolds, ZenonT(30) DEF Clean, Orderly
<1>2. /\ h \in 0..(LogBlocks - 1) /\ jnl.tail \in 0..(LogBlocks - 1) /\ q \in Nat \ {0}
      /\ LogBlocks \in Nat \ {0} /\ DOMAIN image = Address /\ Span(jnl) \in 0..(LogBlocks - 1)
  BY <1>1, SuperTyped, JournalAssumption, ZenonT(30) DEF Jnl, Device
<1>3. /\ n \in Nat /\ n + 2 <= LogBlocks /\ \A i \in 1..n : txn[i].contents \in DataBlock
  BY TxnParts
<1>4. /\ ls \in Seq(Write) /\ Len(ls) = n + 2
      /\ \A i \in 1..(n + 2) : ls[i].addr = at(i) /\ ls[i].contents = LoggedBlock(i)
  BY LogWritesAre
<1> HIDE DEF n, ls
<1>5. /\ ws \in Seq(Write) /\ Len(ws) = m /\ m \in Nat /\ m <= n + 2
      /\ \A i \in 1..m : i \in 1..(n + 2) /\ ws[i] = ls[i]
  <2>1. m \in 0..(n + 2)
    BY DEF n
  <2> QED BY <1>3, <1>4, <2>1
<1> HIDE DEF ws
<1>6. ASSUME NEW i \in 1..m
      PROVE  /\ ws[i].addr = at(i) /\ ws[i].contents = LoggedBlock(i)
             /\ at(i) \in Address \ FsBlock /\ at(i) # SuperAddr
  <2> DEFINE x == h + (i - 1)
  <2>0. h \in 0..(LogBlocks - 1) /\ LogBlocks \in Nat \ {0} /\ m \in Nat /\ m <= n + 2 /\ n + 2 <= LogBlocks /\ n \in Nat
    BY <1>2, <1>3, <1>5, Zenon
  <2> HIDE DEF h
  <2>1. x \in Nat /\ x < 2 * LogBlocks
    BY ONLY <2>0, i \in 1..m DEF x
  <2> HIDE DEF x
  <2>2. LogAddr(x) \in Address \ FsBlock /\ LogAddr(x) # SuperAddr
    BY <2>1, Outside
  <2> QED BY <1>4, <1>5, <2>2 DEF x
<1>7. ASSUME NEW i \in 1..m, NEW j \in 1..m, at(i) = at(j) PROVE i = j
  <2> DEFINE x == i - 1
             y == j - 1
  <2>1. x \in 0..(LogBlocks - 1) /\ y \in 0..(LogBlocks - 1) /\ LogAddr(h + x) = LogAddr(h + y)
    <3>1. m \in Nat /\ m <= n + 2 /\ n + 2 <= LogBlocks /\ n \in Nat /\ LogBlocks \in Nat
      BY <1>2, <1>3, <1>5
    <3>2. x \in 0..(LogBlocks - 1) /\ y \in 0..(LogBlocks - 1)
      BY ONLY <3>1, i \in 1..m, j \in 1..m
    <3> QED BY <1>7, <3>2
  <2> HIDE DEF x, y, h
  <2>2. x = y
    BY <1>2, <2>1, LogAddrDiffer
  <2> QED BY <2>2 DEF x, y
<1>8. other \in Device
  BY <1>1, <1>5, WrittenType, Zenon
<1>9. ASSUME NEW i \in 1..m PROVE other[at(i)] = LoggedBlock(i)
  <2>1. i \in 1..Len(ws) /\ \A j \in 1..Len(ws) : j > i => ws[j].addr # at(i)
    BY <1>5, <1>6, <1>7
  <2>2. other[at(i)] = ws[i].contents
    <3>1. at(i) \in DOMAIN image /\ ws[i].addr = at(i)
      BY <1>2, <1>6
    <3>2. ws \in Seq(Write)
      BY <1>5, Zenon
    <3> HIDE DEF at
    <3> QED BY <2>1, <3>1, <3>2, WrittenLast, ZenonT(30)
  <2> QED BY <1>6, <2>2
<1>10. ASSUME NEW a \in Address, \A i \in 1..m : a # at(i) PROVE other[a] = image[a]
  <2>1. \A i \in 1..Len(ws) : ws[i].addr # a
    BY <1>5, <1>6, <1>10
  <2> QED BY <1>2, <1>5, <2>1, WrittenElsewhere
<1> HIDE DEF other, at
<1>11. \A a \in Address : other[a] = image[a] \/ \E i \in 1..m : a = at(i) /\ other[a] = LoggedBlock(i)
  BY <1>9, <1>10
<1>12. Sb(other) = Sb(image) /\ \A b \in FsBlock : other[b] = image[b]
  BY <1>6, <1>10, Outside DEF Sb
<1>13. FsPart(other) = FsPart(image) /\ (FsData(image) => FsData(other))
  BY <1>12 DEF FsPart, FsData
<1>14. ASSUME NEW i \in 1..m
       PROVE  /\ i = 1 => /\ LoggedBlock(i).kind = "desc" /\ LoggedBlock(i).seq = q
                          /\ LoggedBlock(i).targets = Targets(txn)
              /\ i = n + 2 => LoggedBlock(i) = CommitRecord(q, Contents(txn))
              /\ i # 1 /\ i # n + 2 => /\ LoggedBlock(i) = txn[i - 1].contents
                                       /\ LoggedBlock(i).kind = "data"
  <2>1. CASE i = 1
    BY <1>3, <2>1 DEF LoggedBlock, Descriptor, n
  <2>2. CASE i = n + 2
    BY <1>3, <2>2 DEF LoggedBlock, n
  <2>3. CASE i # 1 /\ i # n + 2
    <3>1. i - 1 \in 1..n
      BY <1>3, <1>5, <2>3
    <3>2. LoggedBlock(i) = txn[i - 1].contents
      BY <2>3 DEF LoggedBlock, n
    <3> QED BY <1>3, <2>3, <3>1, <3>2 DEF DataBlock
  <2> QED BY <2>1, <2>2, <2>3, ZenonT(30)
<1>15. ASSUME NEW i \in 1..m, LoggedBlock(i).kind \in {"desc", "commit"} PROVE LoggedBlock(i).seq = q
  <2>1. i = 1 \/ i = n + 2
    BY <1>14, <1>15
  <2> QED BY <1>14, <2>1 DEF CommitRecord
<1>16. Numbered(other)
  <2> SUFFICES ASSUME NEW a \in Address, other[a].kind \in {"desc", "commit"} PROVE other[a].seq <= q
    BY <1>1, <1>12 DEF Numbered
  <2>1. CASE other[a] = image[a]
    BY <1>1, <2>1 DEF Numbered
  <2>2. CASE \E i \in 1..m : a = at(i) /\ other[a] = LoggedBlock(i)
    <3>1. other[a].seq = q
      BY <1>15, <2>2
    <3> QED BY <1>2, <3>1
  <2> QED BY <1>11, <2>1, <2>2, ZenonT(30)
<1>17. PICK P : Chain(image, P)
  BY DEF Clean, Orderly
<1>18. ASSUME NEW p \in P, p < Span(jnl)
       PROVE  other[LogAddr(jnl.tail + p)] = image[LogAddr(jnl.tail + p)]
  <2> DEFINE t == jnl.tail
             s == Span(jnl)
             x == t + p
  <2>0. p \in 0..s /\ s \in 0..(LogBlocks - 1) /\ t \in 0..(LogBlocks - 1) /\ LogBlocks \in Nat \ {0}
    BY <1>1, <1>2, <1>17, Zenon DEF Chain
  <2>1. p \in Nat /\ x \in Nat /\ x < 2 * LogBlocks
    <3> HIDE DEF s, t
    <3> QED BY ONLY <2>0 DEF x
  <2>2. LogAddr(x) \in Address
    <3> HIDE DEF x
    <3> QED BY <2>1, LogAddrAt
  <2>3. s = IF h >= t THEN h - t ELSE h + LogBlocks - t
    BY DEF Span
  <2>4. ASSUME NEW i \in 1..m PROVE LogAddr(x) # at(i)
    <3> DEFINE o == i - 1
    <3>1. s + n + 2 <= LogBlocks
      BY DEF n
    <3>2. s \in Nat /\ s + o < LogBlocks /\ o \in Nat /\ p < s
      <4>1. m \in Nat /\ m <= n + 2 /\ n \in Nat /\ LogBlocks \in Nat /\ s \in Nat
        BY <1>3, <1>5, <2>0
      <4> HIDE DEF s
      <4>2. s + o < LogBlocks /\ o \in Nat
        BY ONLY <3>1, <4>1, i \in 1..m
      <4> QED BY <1>18, <4>1, <4>2 DEF s
    <3> HIDE DEF s, t, h, o
    <3>3. LogAddr(t + p) # LogAddr(h + o)
      BY <1>2, <2>1, <2>3, <3>2, Beyond, Zenon DEF t, h
    <3> QED BY <3>3 DEF o, at
  <2> HIDE DEF x
  <2>5. other[LogAddr(x)] = image[LogAddr(x)]
    BY <1>10, <2>2, <2>4, ZenonT(30)
  <2> QED BY <2>5 DEF x
<1>19. Chain(other, P)
  <2>1. Sb(other) = Sb(image) /\ Span(Sb(image)) = Span(jnl) /\ Sb(image).tail = jnl.tail
    BY <1>1, <1>12
  <2> QED BY <1>17, <1>18, <2>1, Zenon DEF Chain
<1>20. Orderly(other)
  BY <1>1, <1>8, <1>12, <1>16, <1>19, Zenon DEF Orderly
<1>21. CASE m # n + 2
  <2>1. ASSUME NEW a \in Address, other[a].kind = "commit" PROVE other[a].seq < q
    <3>1. CASE other[a] = image[a]
      BY <1>1, <2>1, <3>1, Zenon
    <3>2. ASSUME NEW i \in 1..m, other[a] = LoggedBlock(i) PROVE FALSE
      <4>1. i # n + 2
        BY <1>3, <1>5, <1>21
      <4> QED BY <1>14, <2>1, <3>2, <4>1, ZenonT(30)
    <3> QED BY <1>11, <3>1, <3>2, ZenonT(30)
  <2>2. Clean(other)
    BY <1>1, <1>12, <1>20, <2>1, Zenon DEF Clean
  <2> QED BY <1>8, <1>12, <1>13, <1>21, <2>2, Zenon DEF other, ws, ls, n
<1>22. CASE m = n + 2
  <2>1. 1 \in 1..m /\ n + 2 \in 1..m /\ n + 2 # 1 /\ h + (1 - 1) = h /\ h + ((n + 2) - 1) = h + 1 + n
    BY <1>2, <1>3, <1>22
  <2>2. at(1) = LogAddr(h) /\ at(n + 2) = LogAddr(h + 1 + n)
    BY <2>1, Zenon DEF at
  <2>3. /\ other[LogAddr(h)].kind = "desc" /\ other[LogAddr(h)].seq = q
        /\ other[LogAddr(h)].targets = Targets(txn)
    BY <1>9, <1>14, <2>1, <2>2
  <2>4. other[LogAddr(h + 1 + n)] = CommitRecord(q, Contents(txn))
    BY <1>9, <1>14, <2>1, <2>2, Zenon
  <2>5. ASSUME NEW i \in 1..n PROVE other[LogAddr(h + i)] = txn[i].contents
    <3>1. i + 1 \in 1..m /\ i + 1 # 1 /\ i + 1 # n + 2 /\ (i + 1) - 1 = i
      BY <1>3, <1>22
    <3>2. at(i + 1) = LogAddr(h + i)
      BY <3>1 DEF at
    <3> QED BY <1>9, <1>14, <3>1, <3>2, Zenon
  <2>6. ASSUME NEW a \in Address, other[a].kind = "commit", other[a].seq = q
        PROVE  a = LogAddr(h + 1 + n)
    <3>1. other[a] # image[a]
      BY <1>1, <1>2, <2>6
    <3>2. PICK i \in 1..m : a = at(i) /\ other[a] = LoggedBlock(i)
      BY <1>11, <3>1, Zenon
    <3>3. i = n + 2
      BY <1>14, <2>6, <3>2
    <3> QED BY <2>2, <3>2, <3>3, Zenon
  <2>7. Complete(other, txn)
    BY <1>1, <1>12, <1>20, <2>3, <2>4, <2>5, <2>6, Zenon DEF Complete, n
  <2> QED BY <1>8, <1>12, <1>13, <1>22, <2>7, Zenon DEF other, ws, ls, n
<1> QED BY <1>21, <1>22 DEF n

\* A transaction applied twice is applied once.
LEMMA OverlayAgain ==
    ASSUME NEW fs, NEW t \in Txn
    PROVE  Overlay(Overlay(fs, t), t) = Overlay(fs, t)
<1> DEFINE ws == CheckpointWrites(t)
<1>1. ws \in Seq(Write)
  BY CheckpointParts
<1> HIDE DEF ws
<1>2. Written(Written(fs, ws), ws) = Written(fs, ws)
  BY <1>1, WrittenOver
<1> QED BY <1>2 DEF Overlay, ws

\* A checkpoint, complete or cut short, leaves the log as it is, and replaying
\* the log over it has the effect of the whole transaction.
LEMMA CheckpointPart ==
    ASSUME NEW image \in Device, FsData(image), NEW t \in Txn, NEW m \in 0..Len(t)
    PROVE  LET other == Written(image, SubSeq(CheckpointWrites(t), 1, m))
           IN  /\ other \in Device /\ FsData(other) /\ Sb(other) = Sb(image)
               /\ \A u : Complete(image, u) => Complete(other, u)
               /\ Overlay(FsPart(other), t) = Overlay(FsPart(image), t)
               /\ m = Len(t) => FsPart(other) = Overlay(FsPart(image), t)
<1> DEFINE ws == CheckpointWrites(t)
           vs == SubSeq(ws, 1, m)
           fs == FsPart(image)
           other == Written(image, vs)
           n == Len(t)
<1>1. ws \in Seq(Write) /\ Len(ws) = n
      /\ \A i \in 1..n : ws[i].addr \in FsBlock /\ ws[i].contents \in DataBlock
  BY CheckpointParts
<1> HIDE DEF ws, n
<1>2. m \in 0..n
  BY DEF n
<1>3. vs \in Seq(Write) /\ Len(vs) = m /\ \A i \in 1..m : i \in 1..n /\ vs[i] = ws[i]
  BY <1>1, <1>2
<1>4. m = n => vs = ws
  BY <1>1, <1>2
<1> HIDE DEF vs
<1>5. /\ other \in Device /\ FsData(other) /\ Sb(other) = Sb(image)
      /\ \A u : Complete(image, u) => Complete(other, u)
  BY <1>1, <1>3, FsWritten, ZenonT(30)
<1>6. FsPart(other) = Written(fs, vs)
  BY <1>3, FsPartWritten
<1>7. Written(Written(fs, vs), ws) = Written(fs, ws)
  <2>1. \A i \in 1..Len(vs) : \E j \in 1..Len(ws) : ws[j].addr = vs[i].addr
    BY <1>1, <1>3
  <2> HIDE DEF fs
  <2> QED BY <1>1, <1>3, <2>1, WrittenOver
<1> HIDE DEF other, fs
<1>8. Overlay(FsPart(other), t) = Overlay(fs, t) /\ (m = n => FsPart(other) = Overlay(fs, t))
  BY <1>4, <1>6, <1>7 DEF Overlay, ws
<1> QED BY <1>5, <1>8 DEF other, fs, vs, ws, n
=============================================================================
