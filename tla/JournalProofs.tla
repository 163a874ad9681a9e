--------------------------- MODULE JournalProofs ---------------------------
(***************************************************************************)
(* Crash atomicity of the write-ahead log and its refinement of the atomic *)
(* store, for any sizes of file system, ring, descriptors and histories,   *)
(* on a device that destages writes in order and reports no error, which   *)
(* is formatted at most once.                                              *)
(***************************************************************************)
EXTENDS JournalSteps

\* A transaction that is logged has a block.
LEMMA TxnNotEmpty ==
    ASSUME NEW t \in Txn
    PROVE  t # <<>>
<1>1. Len(t) \in 1..LogBlocks
  BY TxnParts, Zenon
<1> QED BY ONLY <1>1

\* The scan leaves the log empty behind it, numbered past all that it holds.
LEMMA RecoverFinishStep ==
    ASSUME JournalInv, RecoverFinish
    PROVE  JournalInv'
<1> DEFINE V == View
           j == EmptiedLog
           q == jnl.next_seq
           w == SuperWrite(j)
           W == Written(V, <<w>>)
           T == FsPart(V)
<1>1. ScanInv /\ Typed /\ nFormat # 0
  BY DEF JournalInv, PhaseInv, OffInv, MountedInv, LogInv, LoggedInv, CheckpointInv,
         CheckpointedInv, RecoverFinish, Blank
<1>2. /\ IF scan.last = 0 THEN medium' = medium /\ cache' = cache \o <<w>>
                          ELSE medium' = V /\ cache' = <<w>>
      /\ jnl' = j /\ pc' = "mounted" /\ scan' = NoScan /\ outcomes' = {T}
      /\ UNCHANGED <<txn, nTxn, nFormat, nErr>> /\ scan.status = "done"
  BY DEF RecoverFinish, WriteBlocks, FlushThenWrite, counters
<1>3. /\ medium \in Device /\ cache \in Seq(Write) /\ V \in Device /\ FsData(V) /\ Sound(V)
      /\ V = Written(medium, cache) /\ V \in ImagesOf(medium, cache) /\ jnl \in Jnl
  BY <1>1, ViewFacts DEF Typed, View
<1>4. Sb(V) = Super(jnl) /\ txn = <<>> /\ (Replayed(scan, V) => T = Outcome(V))
  BY <1>1 DEF ScanInv
<1>5. PICK k \in Nat : Scanning(scan, V, k)
  BY <1>1 DEF ScanInv
<1>6. PICK o \in outcomes : Agree(o)
  BY <1>1 DEF ScanInv
<1>7. j = [jnl EXCEPT !.head = scan.pos, !.tail = scan.pos,
                      !.next_seq = IF scan.last = 0 THEN q ELSE Max({q, scan.last + 1})]
  BY DEF EmptiedLog
<1> HIDE DEF V
<1>8. /\ LogSound(V) /\ Orderly(V) /\ (~Live(V) => Clean(V))
      /\ Sb(V).next_seq = q /\ q \in Nat \ {0}
  BY <1>3, <1>4, SuperHolds, SoundCases, ZenonT(30) DEF Jnl
<1>9. IF Live(V) THEN Replayed(scan, V) ELSE Missed(scan, V)
  BY <1>2, <1>5, <1>8, ScanEnds, Zenon
<1>10. scan.pos \in 0..(LogBlocks - 1)
  BY <1>5 DEF Scanning, ScanState
<1>11. ASSUME NEW p, p = IF scan.last = 0 THEN q ELSE Max({q, scan.last + 1})
       PROVE  IF Live(V) THEN p = q + 1 /\ scan.last # 0 ELSE p = q /\ scan.last = 0
  <2>1. CASE Live(V)
    <3>1. scan.last = q
      BY <1>8, <1>9, <2>1, Zenon DEF Replayed
    <3>2. p = Max({q, q + 1})
      BY <1>8, <1>11, <3>1, Zenon
    <3>3. p = q + 1
      BY <1>8, <3>2 DEF Max
    <3> QED BY <1>8, <2>1, <3>1, <3>3, ZenonT(30)
  <2>2. CASE ~Live(V)
    BY <1>9, <1>11, <2>2 DEF Missed
  <2> QED BY <2>1, <2>2
<1> DEFINE p == IF scan.last = 0 THEN q ELSE Max({q, scan.last + 1})
<1>12. j = [jnl EXCEPT !.head = scan.pos, !.tail = scan.pos, !.next_seq = p]
  BY <1>7
<1>13. IF Live(V) THEN p = q + 1 /\ scan.last # 0 ELSE p = q /\ scan.last = 0
  BY <1>11
<1> HIDE DEF p, j
<1>14. j \in Jnl /\ j.head = j.tail /\ j.next_seq = p
  <2>1. p \in Nat \ {0}
    BY <1>8, <1>13
  <2> HIDE DEF q
  <2> QED BY <1>3, <1>10, <1>12, <2>1, ZenonT(30) DEF Jnl
<1>15. \A a \in Address : V[a].kind = "commit" => V[a].seq < p
  <2> SUFFICES ASSUME NEW a \in Address, V[a].kind = "commit" PROVE V[a].seq < p
    OBVIOUS
  <2>1. V[a].seq \in Nat /\ V[a].seq <= q
    <3>1. V[a] \in Block
      BY <1>3 DEF Device
    <3>2. V[a].seq \in Nat
      BY <3>1, Kinds
    <3> QED BY <1>8, <3>2 DEF Orderly, Numbered
  <2>2. ~Live(V) => V[a].seq < q
    BY <1>8 DEF Clean
  <2> HIDE DEF q
  <2> QED BY <1>8, <1>13, <2>1, <2>2
<1>16. Clean(W)
  <2>1. j.next_seq >= Sb(V).next_seq
    <3> HIDE DEF q
    <3> QED BY <1>8, <1>13, <1>14
  <2>2. \A a \in Address : V[a].kind = "commit" => V[a].seq < j.next_seq
    BY <1>14, <1>15
  <2> QED BY <1>8, <1>14, <2>1, <2>2, EmptiedClean, Zenon
<1>17. W \in Device /\ Sb(W) = Super(j) /\ FsPart(W) = T /\ FsData(W)
  BY <1>3, <1>14, SuperWritten, Zenon
<1>18. w \in Write
  BY <1>14, SuperHolds
<1> HIDE DEF w, q, T
<1>19. /\ cache' \in Seq(Write) /\ View' = W
       /\ \A image \in ImagesOf(medium, cache)' :
            image = V \/ image = W \/ (~Live(V) /\ image \in ImagesOf(medium, cache))
  <2> DEFINE ws == <<w>>
  <2>0. ws \in Seq(Write) /\ Len(ws) = 1
    BY <1>18
  <2>1. ws \in Seq(Write) /\ Len(ws) = 1 /\ SubSeq(ws, 1, 1) = ws
    <3> HIDE DEF ws
    <3> QED BY <2>0
  <2>2. \A image \in ImagesOf(V, ws) : image = V \/ image = W
    BY <1>3, <1>18, ImagesFlush, Zenon
  <2>3. W = Written(V, ws)
    OBVIOUS
  <2> HIDE DEF ws, W
  <2>4. CASE Live(V)
    <3>1. medium' = V /\ cache' = ws
      BY <1>2, <1>13, <2>4 DEF ws
    <3> QED BY <2>1, <2>2, <2>3, <3>1, Zenon DEF View
  <2>5. CASE ~Live(V)
    <3>1. medium' = medium /\ cache' = cache \o ws
      BY <1>2, <1>13, <2>5, Zenon DEF ws
    <3>2. /\ cache \o ws \in Seq(Write) /\ Written(medium, cache \o ws) = Written(V, ws)
          /\ \A image \in ImagesOf(medium, cache \o ws) :
                \/ image \in ImagesOf(medium, cache)
                \/ \E i \in 1..Len(ws) : image = Written(V, SubSeq(ws, 1, i))
      <4>1. medium \in Device /\ cache \in Seq(Write) /\ ws \in Seq(Write) /\ V = Written(medium, cache)
        BY <1>3, <2>1
      <4> QED BY <4>1, ImagesWrite
    <3>3. ASSUME NEW image \in ImagesOf(medium, cache \o ws)
          PROVE  image = W \/ image \in ImagesOf(medium, cache)
      <4>1. ASSUME NEW i \in 1..Len(ws), image = Written(V, SubSeq(ws, 1, i)) PROVE image = W
        <5>1. i = 1
          BY <2>1
        <5> QED BY <2>1, <2>3, <4>1, <5>1, Zenon
      <4> QED BY <3>2, <4>1
    <3> QED BY <2>3, <2>5, <3>1, <3>2, <3>3, Zenon DEF View
  <2> QED BY <2>4, <2>5
<1> HIDE DEF W
<1>20. Sound(W) /\ Outcome(W) = T
  BY <1>16, <1>17, CleanSound, Zenon DEF Sound
<1>21. Outcome(V) = T
  BY <1>4, <1>8, <1>9, CleanSound, Zenon DEF T
<1>22. ASSUME NEW image \in ImagesOf(medium, cache)' PROVE Sound(image) /\ Outcome(image) = T
  <2>1. ASSUME image \in ImagesOf(medium, cache) PROVE Sound(image) /\ Outcome(image) = T
    <3>1. Outcome(image) = o /\ Outcome(V) = o
      BY <1>3, <1>6, <2>1, Zenon DEF Agree
    <3> QED BY <1>1, <1>21, <2>1, <3>1, ZenonT(30) DEF Typed
  <2> QED BY <1>3, <1>19, <1>20, <1>21, <2>1, ZenonT(30)
<1>23. Typed'
  <2>1. medium' \in Device
    BY <1>2, <1>3
  <2> QED BY <1>1, <1>2, <1>14, <1>19, <1>22, <2>1, Zenon DEF Typed
<1>24. MountedInv'
  BY <1>2, <1>4, <1>16, <1>17, <1>19, <1>22, Zenon DEF MountedInv, Agree
<1>25. Blank'
  BY <1>1, <1>2 DEF Blank
<1> QED BY <1>23, <1>24, <1>25, Zenon DEF JournalInv, PhaseInv

\* Format writes zeros, and the superblock of an empty log.
LEMMA FormatWritesAre ==
    ASSUME nFormat \in Nat, NEW j, j = [NoJournal EXCEPT !.life = nFormat + 1]
    PROVE  /\ j \in Jnl /\ j.head = 0 /\ j.tail = 0
           /\ FormatWrites \in Seq(Write)
           /\ \A i \in 1..Len(FormatWrites) :
                \/ FormatWrites[i].contents = ZeroBlock
                \/ FormatWrites[i].addr = SuperAddr /\ FormatWrites[i].contents = Super(j)
<1>1. j \in Jnl /\ j.head = 0 /\ j.tail = 0
  BY JournalAssumption DEF NoJournal, Jnl
<1> DEFINE Zero(b) == BlockWrite(b - 1, ZeroBlock)
           A == [b \in 1..FsBlocks |-> Zero(b)]
           B == SuperWrite(j)
           C == BlockWrite(LogAddr(0), ZeroBlock)
           D == <<B, C>>
<1>2. FormatWrites = A \o D
  BY DEF FormatWrites
<1>3. FsBlocks \in Nat /\ 0 < 2 * LogBlocks /\ ZeroBlock \in Block
  BY JournalAssumption, BlankSound, Outside DEF Block, DataBlock, ZeroBlock, Data
<1>4. B \in Write /\ B.addr = SuperAddr /\ B.contents = Super(j)
  BY <1>1, SuperHolds
<1>5. C \in Write /\ C.contents = ZeroBlock
  BY <1>3, Outside, ZenonT(30) DEF BlockWrite, Write
<1>6. ASSUME NEW b \in 1..FsBlocks PROVE Zero(b) \in Write /\ Zero(b).contents = ZeroBlock
  <2>1. b - 1 \in FsBlock
    BY <1>3 DEF FsBlock
  <2> QED BY <1>3, <2>1, Outside DEF BlockWrite, Write
<1> HIDE DEF B, C, Zero
<1>7. /\ A \in Seq(Write) /\ Len(A) = FsBlocks
      /\ \A i \in 1..FsBlocks : A[i].contents = ZeroBlock
  BY <1>3, <1>6
<1>8. D \in Seq(Write) /\ Len(D) = 2 /\ D[1] = B /\ D[2] = C
  BY <1>4, <1>5
<1> HIDE DEF A, D
<1> DEFINE F == A \o D
<1>9. F \in Seq(Write) /\ Len(F) = FsBlocks + 2
      /\ \A i \in 1..(FsBlocks + 2) : F[i] = IF i <= FsBlocks THEN A[i] ELSE D[i - FsBlocks]
  <2>0. A \in Seq(Write) /\ D \in Seq(Write)
    BY <1>7, <1>8
  <2>1. F \in Seq(Write) /\ Len(F) = Len(A) + Len(D)
    BY <2>0
  <2>2. \A i \in 1..(Len(A) + Len(D)) : F[i] = IF i <= Len(A) THEN A[i] ELSE D[i - Len(A)]
    BY <2>0
  <2> HIDE DEF F
  <2>3. Len(A) = FsBlocks /\ Len(D) = 2
    BY <1>7, <1>8
  <2> QED BY <2>1, <2>2, <2>3, ZenonT(30)
<1> HIDE DEF F
<1>10. ASSUME NEW i \in 1..Len(F)
       PROVE  F[i].contents = ZeroBlock \/ (F[i].addr = SuperAddr /\ F[i].contents = Super(j))
  <2>1. CASE i <= FsBlocks
    BY <1>3, <1>7, <1>9, <2>1
  <2>2. CASE i > FsBlocks
    <3>1. i - FsBlocks = 1 \/ i - FsBlocks = 2
      BY <1>3, <1>9, <2>2
    <3>2. F[i] = B \/ F[i] = C
      <4>1. i \in 1..(FsBlocks + 2) /\ ~(i <= FsBlocks)
        BY <1>3, <1>9, <2>2
      <4>2. F[i] = D[i - FsBlocks]
        BY <1>9, <4>1, Zenon
      <4> QED BY <1>8, <3>1, <4>2, Zenon
    <3> QED BY <1>4, <1>5, <3>2, Zenon
  <2> QED BY <1>3, <1>9, <2>1, <2>2
<1> QED BY <1>1, <1>2, <1>9, <1>10, ZenonT(30) DEF F

\* The first format of a blank device: however much of it is on the medium, there is
\* no journal yet or an empty one.
LEMMA FormatStep ==
    ASSUME JournalInv, Format, MaxFormat \in {0, 1}
    PROVE  JournalInv'
<1> DEFINE zeros == [a \in Address |-> ZeroBlock]
           files == [b \in FsBlock |-> ZeroBlock]
           j == [NoJournal EXCEPT !.life = nFormat + 1]
           ws == FormatWrites
<1>1. Typed /\ nFormat = 0 /\ OffInv
  <2>1. Typed /\ PhaseInv /\ pc = "off" /\ nFormat < MaxFormat
    BY Zenon DEF JournalInv, Format
  <2>2. nFormat \in Nat
    BY <2>1, Zenon DEF Typed
  <2>3. OffInv
    BY <2>1, Zenon DEF PhaseInv, ScanInv, MountedInv, LogInv, LoggedInv, CheckpointInv, CheckpointedInv
  <2>4. nFormat = 0
    BY ONLY <2>1, <2>2, MaxFormat \in {0, 1}
  <2> QED BY <2>1, <2>3, <2>4, ZenonT(30)
<1>2. medium = zeros /\ cache = <<>>
  BY <1>1 DEF JournalInv, Blank
<1>3. /\ medium' = medium /\ cache' = cache \o ws /\ nFormat' = nFormat + 1 /\ outcomes' = {files}
      /\ UNCHANGED <<pc, jnl, txn, scan, nTxn, nErr>>
  BY DEF Format, WriteBlocks
<1>4. /\ zeros \in Device /\ Sound(zeros) /\ Outcome(zeros) = files /\ FsPart(zeros) = files
      /\ \A a \in Address : zeros[a] = ZeroBlock
  BY BlankSound
<1>5. j \in Jnl /\ j.head = 0 /\ j.tail = 0 /\ ws \in Seq(Write)
  BY <1>1, FormatWritesAre, Zenon DEF Typed
<1>6. \A i \in 1..Len(ws) : ws[i].contents = ZeroBlock
                            \/ (ws[i].addr = SuperAddr /\ ws[i].contents = Super(j))
  BY <1>1, FormatWritesAre DEF Typed
<1> HIDE DEF zeros, files, j, ws
<1>7. cache' = ws
  BY <1>2, <1>3, <1>5
<1>8. Super(j) \in SuperBlock /\ Super(j).kind = "super" /\ Super(j).head = 0 /\ Super(j).tail = 0
  BY <1>5, SuperHolds, Zenon
<1>9. ZeroBlock.kind = "data"
  BY DEF ZeroBlock, Data
<1>10. ASSUME NEW vs \in Seq(Write), NEW image, image = Written(zeros, vs),
              \A i \in 1..Len(vs) : vs[i].contents = ZeroBlock
                                    \/ (vs[i].addr = SuperAddr /\ vs[i].contents = Super(j))
       PROVE  Sound(image) /\ Outcome(image) = files
  <2>1. image \in Device
    BY <1>4, <1>10, WrittenType, ZenonT(30)
  <2>2. ASSUME NEW a \in Address
        PROVE  image[a] = ZeroBlock \/ (a = SuperAddr /\ image[a] = Super(j))
    <3>1. a \in DOMAIN zeros
      BY <1>4 DEF Device
    <3>2. \/ image[a] = zeros[a]
          \/ \E i \in 1..Len(vs) : vs[i].addr = a /\ image[a] = vs[i].contents
      BY <1>10, <3>1, WrittenAt
    <3> QED BY <1>4, <1>10, <3>2, Zenon
  <2>3. FsPart(image) = files /\ FsData(image)
    <3>1. \A b \in FsBlock : image[b] = ZeroBlock
      BY <2>2, Outside
    <3>2. ZeroBlock \in DataBlock
      BY DEF ZeroBlock, Data, DataBlock
    <3> QED BY <3>1, <3>2, Zenon DEF FsPart, FsData, files
  <2>4. CASE Sb(image).kind # "super"
    BY <2>1, <2>3, <2>4, Zenon DEF Sound, Outcome
  <2>5. CASE Sb(image).kind = "super"
    <3>1. Sb(image) = Super(j)
      BY <1>9, <2>2, <2>5, Outside, ZenonT(30) DEF Sb
    <3>2. \A a \in Address : image[a].kind = "data" \/ image[a].kind = "super"
      BY <1>8, <1>9, <2>2, ZenonT(30)
    <3>3. Span(Sb(image)) = 0
      BY <1>8, <3>1 DEF Span
    <3>4. Chain(image, {0})
      BY <3>3 DEF Chain
    <3>5. Clean(image)
      BY <1>8, <2>1, <3>1, <3>2, <3>4, ZenonT(30) DEF Clean, Orderly, Numbered
    <3>6. Outcome(image) = FsPart(image)
      BY <3>5, CleanSound
    <3> QED BY <2>1, <2>3, <3>5, <3>6, Zenon DEF Sound
  <2> QED BY <2>4, <2>5
<1>11. ASSUME NEW image \in ImagesOf(medium, cache)' PROVE Sound(image) /\ Outcome(image) = files
  <2>1. PICK k \in 0..Len(ws) : image = Written(zeros, SubSeq(ws, 1, k))
    BY <1>2, <1>3, <1>7, Zenon DEF ImagesOf
  <2> DEFINE vs == SubSeq(ws, 1, k)
  <2>2. vs \in Seq(Write) /\ Len(vs) = k /\ \A i \in 1..k : vs[i] = ws[i]
    BY <1>5
  <2>3. \A i \in 1..Len(vs) : i \in 1..Len(ws) /\ vs[i] = ws[i]
    BY <1>5, <2>2
  <2>4. image = Written(zeros, vs)
    BY <2>1
  <2> HIDE DEF vs
  <2> QED BY <1>6, <1>10, <2>2, <2>3, <2>4, Zenon
<1>12. Typed'
  BY <1>1, <1>3, <1>5, <1>7, <1>11 DEF Typed
<1>13. OffInv'
  BY <1>1, <1>3, <1>11, Zenon DEF OffInv, Agree
<1>14. Blank'
  BY <1>1, <1>3 DEF Blank
<1> QED BY <1>12, <1>13, <1>14, Zenon DEF JournalInv, PhaseInv

\* commit's reclaim: the emptied log is on the medium before the record is written,
\* and the record fits in front of the tail.
LEMMA ReclaimStep ==
    ASSUME Typed, MountedInv, NEW n \in Nat, Fits(n), ReclaimLog(n)
    PROVE  /\ medium' \in Device /\ cache' \in Seq(Write) /\ jnl' \in Jnl
           /\ Sb(View') = Super(jnl') /\ Clean(View') /\ FsPart(View') = FsPart(View)
           /\ Span(jnl') + n + 2 <= LogBlocks
           /\ \A image \in ImagesOf(medium, cache)' : Sound(image) /\ Outcome(image) = FsPart(View)
<1> DEFINE V == View
           j == Reclaimed
           w == SuperWrite(j)
           W == Written(V, <<w>>)
           T == FsPart(V)
<1>1. /\ medium \in Device /\ cache \in Seq(Write) /\ V \in Device /\ FsData(V) /\ jnl \in Jnl
      /\ Clean(V) /\ Sb(V) = Super(jnl)
      /\ \A image \in ImagesOf(medium, cache) : Sound(image) /\ Outcome(image) = T
  BY ViewFacts DEF Typed, MountedInv, Agree
<1>2. LogBlocks \in Nat \ {0} /\ n + 3 <= LogBlocks
  BY JournalAssumption DEF Fits
<1>3. jnl.head \in 0..(LogBlocks - 1) /\ jnl.tail \in 0..(LogBlocks - 1)
  BY <1>1 DEF Jnl
<1>4. Used = Span(jnl) /\ Span(jnl) \in 0..(LogBlocks - 1)
  BY <1>2, <1>3 DEF Used, Span
<1>5. CASE ~MustReclaim(n)
  <2>1. medium' = medium /\ cache' = cache /\ jnl' = jnl
    BY <1>5 DEF ReclaimLog, devVars
  <2>2. Span(jnl) + n + 2 <= LogBlocks
    BY <1>2, <1>4, <1>5 DEF MustReclaim, Free
  <2>3. View' = V
    BY <2>1 DEF View
  <2> HIDE DEF V
  <2> QED BY <1>1, <2>1, <2>2, <2>3, Zenon DEF V
<1>6. CASE MustReclaim(n)
  <2>1. medium' = W /\ cache' = <<>> /\ jnl' = j
    BY <1>6 DEF ReclaimLog
  <2>2. j = [jnl EXCEPT !.tail = jnl.head]
    BY DEF Reclaimed
  <2> HIDE DEF j, V
  <2>3. j \in Jnl /\ j.head = j.tail /\ j.next_seq = jnl.next_seq
    BY <1>1, <1>3, <2>2 DEF Jnl
  <2>4. Span(j) = 0
    <3>1. j.head \in Nat
      BY <1>2, <2>3 DEF Jnl
    <3> QED BY <2>3, <3>1 DEF Span
  <2>5. Sb(V).next_seq = jnl.next_seq /\ jnl.next_seq \in Nat
    BY <1>1, SuperHolds, Zenon DEF Jnl
  <2>6. Orderly(V) /\ \A a \in Address : V[a].kind = "commit" => V[a].seq < j.next_seq
    BY <1>1, <2>3, <2>5, ZenonT(30) DEF Clean
  <2>7. Clean(W)
    <3>1. j.next_seq >= Sb(V).next_seq
      <4>1. j.next_seq = Sb(V).next_seq /\ j.next_seq \in Nat
        BY <2>3, <2>5, Zenon
      <4> QED BY ONLY <4>1
    <3> QED BY <2>3, <2>6, <3>1, EmptiedClean, ZenonT(30)
  <2>8. W \in Device /\ Sb(W) = Super(j) /\ FsPart(W) = T /\ FsData(W)
    BY <1>1, <2>3, SuperWritten, ZenonT(30)
  <2> HIDE DEF W, T
  <2>9. Sound(W) /\ Outcome(W) = T
    BY <2>7, <2>8, CleanSound, Zenon DEF Sound
  <2>10. cache' \in Seq(Write) /\ View' = W /\ \A image \in ImagesOf(medium, cache)' : image = W
    <3>1. <<>> \in Seq(Write) /\ Written(W, <<>>) = W /\ \A image \in ImagesOf(W, <<>>) : image = W
      BY <2>8, ImagesNone
    <3> QED BY <2>1, <3>1, ZenonT(30) DEF View
  <2>11. 0 + n + 2 <= LogBlocks
    BY <1>2
  <2> QED BY <2>1, <2>3, <2>4, <2>7, <2>8, <2>9, <2>10, <2>11, Zenon DEF T, V
<1> QED BY <1>5, <1>6

\* What log_block has collected is a transaction once its targets are validated.
LEMMA ValidTxn ==
    ASSUME NEW r \in Seq(Call), Distinct(r), Fits(Len(r)), Len(r) > 0,
           \A i \in 1..Len(r) : r[i].target < FsBlocks
    PROVE  r \in Txn
<1>1. FsBlocks \in Nat /\ MaxTargets \in Nat /\ LogBlocks \in Nat
  BY JournalAssumption
<1>2. ASSUME NEW i \in 1..Len(r) PROVE r[i] \in Record
  <2>1. r[i] \in Call
    OBVIOUS
  <2>2. r[i].target \in FsBlock
    BY <1>1, <1>2, <2>1 DEF Call, Target, FsBlock
  <2> QED BY <2>1, <2>2 DEF Call, Record
<1>3. r \in Seq(Record)
  <2>1. r = [i \in 1..Len(r) |-> r[i]] /\ Len(r) \in Nat
    OBVIOUS
  <2> QED BY <1>2, <2>1
<1>4. Len(r) \in 1..MaxTargets /\ Len(r) + 2 <= LogBlocks
  BY <1>1 DEF Fits
<1> QED BY <1>3, <1>4 DEF Txn, Distinct

\* The calls that are bounded are calls.
LEMMA BoundedCalls ==
    ASSUME NEW calls \in SeqUpTo(Target, MaxCalls)
    PROVE  calls \in Seq(Target)
<1>1. PICK m \in 0..MaxCalls : calls \in [1..m -> Target]
  BY DEF SeqUpTo
<1>2. m \in Nat
  BY JournalAssumption
<1> QED BY <1>1, <1>2

\* commit up to the descriptor.
LEMMA CommitBeginStep ==
    ASSUME JournalInv, CommitBegin
    PROVE  JournalInv'
<1> DEFINE V == View
           T == FsPart(V)
<1>1. MountedInv /\ Typed /\ nFormat # 0
  BY Zenon DEF JournalInv, PhaseInv, OffInv, ScanInv, LogInv, LoggedInv, CheckpointInv,
         CheckpointedInv, CommitBegin, Blank
<1>2. PICK calls \in SeqUpTo(Target, MaxCalls) :
        LET records == Records(calls)
            n == Len(records)
            valid == \A i \in 1..n : records[i].target < FsBlocks
        IN  /\ n > 0 /\ Fits(n)
            /\ ReclaimLog(n)
            /\ IF valid
               THEN /\ txn' = records /\ pc' = "log"
                    /\ outcomes' = outcomes \cup {Overlay(o, records) : o \in outcomes}
               ELSE UNCHANGED <<txn, pc, outcomes>>
  BY Zenon DEF CommitBegin
<1> DEFINE r == Records(calls)
           n == Len(r)
           valid == \A i \in 1..n : r[i].target < FsBlocks
<1>3. nTxn' = nTxn + 1 /\ UNCHANGED <<scan, nFormat, nErr>>
  BY DEF CommitBegin
<1>4. r \in Seq(Call) /\ Distinct(r)
  BY <1>1, BoundedCalls, RecordsAre, ZenonT(30) DEF Typed
<1> HIDE DEF r
<1>5. /\ n > 0 /\ Fits(n) /\ ReclaimLog(n) /\ n \in Nat
      /\ IF valid THEN /\ txn' = r /\ pc' = "log"
                       /\ outcomes' = outcomes \cup {Overlay(o, r) : o \in outcomes}
                  ELSE UNCHANGED <<txn, pc, outcomes>>
  BY <1>2, <1>4 DEF r
<1>6. /\ txn = <<>> /\ scan = NoScan /\ outcomes = {T} /\ pc = "mounted"
      /\ nTxn \in Nat /\ nFormat \in Nat /\ nErr \in Nat
  BY <1>1 DEF MountedInv, Typed
<1> HIDE DEF n
<1>7. /\ medium' \in Device /\ cache' \in Seq(Write) /\ jnl' \in Jnl
      /\ Sb(View') = Super(jnl') /\ Clean(View') /\ FsPart(View') = T
      /\ Span(jnl') + n + 2 <= LogBlocks
      /\ \A image \in ImagesOf(medium, cache)' : Sound(image) /\ Outcome(image) = T
  BY <1>1, <1>5, ReclaimStep, ZenonT(30)
<1> HIDE DEF V, T
<1>8. Typed'
  <2>1. nTxn + 1 \in Nat
    BY <1>6
  <2> QED BY <1>3, <1>6, <1>7, <2>1, Zenon DEF Typed
<1>9. Blank'
  BY <1>1, <1>3 DEF Blank
<1>10. CASE valid
  <2>1. r \in Txn
    BY <1>4, <1>5, <1>10, ValidTxn, Zenon DEF n
  <2> HIDE DEF valid
  <2>2. outcomes' = {T, Overlay(T, r)}
    BY <1>5, <1>6, <1>10
  <2>3. LogInv'
    BY <1>3, <1>5, <1>6, <1>7, <1>10, <2>1, <2>2, Zenon DEF LogInv, Agree, n
  <2> QED BY <1>8, <1>9, <2>3, ZenonT(30) DEF JournalInv, PhaseInv
<1>11. CASE ~valid
  <2> HIDE DEF valid
  <2>1. MountedInv'
    BY <1>3, <1>5, <1>6, <1>7, <1>11, ZenonT(30) DEF MountedInv, Agree
  <2> QED BY <1>8, <1>9, <2>1, Zenon DEF JournalInv, PhaseInv
<1> QED BY <1>10, <1>11
-----------------------------------------------------------------------------
(* The theorems.                                                           *)

\* Every step of the log, the device and the power supply keeps the invariant.
LEMMA JournalStep ==
    ASSUME OrderedDevice, JournalInv, [Next]_vars
    PROVE  JournalInv'
<1>2. ASSUME CommitRefused PROVE JournalInv'
  <2>1. UNCHANGED <<medium, cache, pc, jnl, txn, scan, outcomes, nTxn, nFormat, nErr>>
    BY <1>2 DEF CommitRefused, devVars, counters
  <2> QED BY <2>1, Unmoved
<1>3. ASSUME UNCHANGED vars PROVE JournalInv'
  BY <1>3, Unmoved DEF vars
<1>4. Format => JournalInv'
  BY FormatStep DEF OrderedDevice
<1>5. DeviceDestages => JournalInv'
  BY DestageStep, Zenon DEF OrderedDevice
<1>6. Mount => JournalInv'
  BY OpenStep, RecoverStepStep, RecoverFinishStep DEF Mount
<1>7. Commit => JournalInv'
  BY WriteLogStep, FlushLogStep, CheckpointStep, CommitFinishStep, Zenon DEF Commit
<1>8. CommitBegin => JournalInv'
  BY CommitBeginStep
<1>9. PowerLoss => JournalInv'
  BY PowerLossStep
<1> QED BY <1>2, <1>3, <1>4, <1>5, <1>6, <1>7, <1>8, <1>9, ZenonT(30) DEF Next

\* The invariant holds always.
LEMMA JournalInvariant ==
    ASSUME OrderedDevice
    PROVE  Spec => []JournalInv
<1>1. Init => JournalInv
  BY JournalInit
<1>2. JournalInv /\ [Next]_vars => JournalInv'
  BY JournalStep
<1> QED BY <1>1, <1>2, PTL DEF Spec

\* Where the thread is and where the scan is.
LEMMA InvTypeOK ==
    ASSUME JournalInv
    PROVE  TypeOK
<1>1. Typed /\ medium \in Device /\ View \in Device /\ FsData(View) /\ jnl \in Jnl
  BY ViewFacts DEF JournalInv, Typed
<1>2. DOMAIN medium = Address
  BY <1>1 DEF Device
<1>3. \A b \in FsBlock : View[b].kind = "data"
  BY <1>1 DEF FsData, DataBlock
<1>4. jnl.head \in 0..(LogBlocks - 1) /\ jnl.tail \in 0..(LogBlocks - 1) /\ jnl.next_seq \in Nat \ {0}
  BY <1>1 DEF Jnl
<1>5. scan.pos \in 0..(LogBlocks - 1) /\ scan.budget \in 0..LogBlocks
  <2>1. CASE ScanInv
    BY <2>1 DEF ScanInv, Scanning, ScanState
  <2>2. CASE scan = NoScan
    <3>1. scan.pos = 0 /\ scan.budget = 0
      BY ONLY <2>2 DEF NoScan
    <3>2. LogBlocks \in Nat /\ LogBlocks >= 1
      BY ONLY JournalAssumption
    <3> QED BY ONLY <3>1, <3>2
  <2> QED BY <2>1, <2>2 DEF JournalInv, PhaseInv, OffInv, MountedInv, LogInv, LoggedInv,
                            CheckpointInv, CheckpointedInv
<1>6. /\ pc \in {"off", "scan", "mounted", "log", "logged", "checkpoint", "checkpointed"}
      /\ (txn # <<>>) = (pc \in {"log", "logged", "checkpoint", "checkpointed"})
  <2>1. CASE OffInv \/ ScanInv \/ MountedInv
    <3>1. txn = <<>> /\ pc \in {"off", "scan", "mounted"}
      BY <2>1, Zenon DEF OffInv, ScanInv, MountedInv
    <3> QED BY ONLY <3>1
  <2>2. CASE LogInv \/ LoggedInv \/ CheckpointInv \/ CheckpointedInv
    <3>1. txn \in Txn /\ pc \in {"log", "logged", "checkpoint", "checkpointed"}
      BY <2>2, Zenon DEF LogInv, LoggedInv, CheckpointInv, CheckpointedInv, Complete
    <3>2. txn # <<>>
      BY <3>1, TxnNotEmpty, Zenon
    <3> QED BY <3>1, <3>2
  <2> QED BY <2>1, <2>2 DEF JournalInv, PhaseInv
<1> QED BY <1>2, <1>3, <1>4, <1>5, <1>6, ZenonT(30) DEF TypeOK

\* The journal's positions stay inside the ring, the log never overwrites a file
\* system block, and a transaction is open exactly while commit runs, for every size
\* of file system, ring and descriptor.
THEOREM TypeOKHolds ==
    ASSUME OrderedDevice
    PROVE  Spec => []TypeOK
BY JournalInvariant, InvTypeOK, PTL

\* Crash atomicity: at whatever instant the power fails, the next mount finds every
\* transaction whole or absent, and every acknowledged one.
THEOREM CrashAtomicHolds ==
    ASSUME OrderedDevice
    PROVE  Spec => []CrashAtomic
<1>1. JournalInv => CrashAtomic
  <2> SUFFICES ASSUME JournalInv PROVE CrashAtomic
    OBVIOUS
  <2>1. Recovered(medium) = Outcome(medium)
    BY ViewFacts, SoundRecovered, ZenonT(30) DEF JournalInv
  <2> QED BY <2>1, OutcomeKnown DEF CrashAtomic
<1> QED BY <1>1, JournalInvariant, PTL

\* While mounted and idle, the reads are those of the store that a mount would
\* restore: the log holds nothing that is not checkpointed.
THEOREM ReadsSeeStoreHolds ==
    ASSUME OrderedDevice
    PROVE  Spec => []ReadsSeeStore
<1>1. JournalInv => ReadsSeeStore
  <2> SUFFICES ASSUME JournalInv, pc = "mounted" PROVE FsPart(View) = Recovered(View)
    BY DEF ReadsSeeStore
  <2>1. MountedInv
    BY Zenon DEF JournalInv, PhaseInv, OffInv, ScanInv, LogInv, LoggedInv, CheckpointInv, CheckpointedInv
  <2>2. Outcome(View) = FsPart(View)
    BY <2>1, CleanSound DEF MountedInv
  <2>3. Recovered(View) = Outcome(View)
    BY ViewFacts, SoundRecovered DEF JournalInv
  <2> QED BY <2>2, <2>3
<1> QED BY <1>1, JournalInvariant, PTL
-----------------------------------------------------------------------------
(* The refinement of AtomicStore.                                          *)

\* The checkpoint of a transaction has the effect that the store promises.
LEMMA EffectIs ==
    ASSUME NEW fs, DOMAIN fs = FsBlock, NEW t \in Txn
    PROVE  Store!Effect(fs, t) = Overlay(fs, t)
<1> DEFINE ws == CheckpointWrites(t)
           n == Len(t)
<1>1. /\ ws \in Seq(Write) /\ Len(ws) = n
      /\ \A i \in 1..n : ws[i].addr = t[i].target /\ ws[i].contents = t[i].contents
  BY CheckpointParts
<1>2. DOMAIN t = 1..n /\ \A i, k \in 1..n : t[i].target = t[k].target => i = k
  BY DEF Txn
<1>3. Overlay(fs, t) = Written(fs, ws) /\ DOMAIN Overlay(fs, t) = FsBlock
  BY DEF Overlay, Written
<1> HIDE DEF ws, n
<1>4. ASSUME NEW b \in FsBlock, NEW i \in 1..n, t[i].target = b
      PROVE  Written(fs, ws)[b] = t[i].contents
  <2>1. ws[i].addr = b /\ ws[i].contents = t[i].contents /\ i \in 1..Len(ws)
    BY <1>1, <1>4, Zenon
  <2>2. ASSUME NEW k \in 1..Len(ws), k > i PROVE ws[k].addr # b
    <3>1. k \in 1..n /\ k # i
      <4>1. Len(ws) = n /\ n \in Nat
        BY <1>1
      <4> QED BY ONLY <4>1, k \in 1..Len(ws), k > i, i \in 1..n
    <3> QED BY <1>1, <1>2, <1>4, <3>1, Zenon
  <2>3. Written(fs, ws)[b] = ws[i].contents
    <3>1. b \in DOMAIN fs /\ ws \in Seq(Write) /\ i \in 1..Len(ws) /\ ws[i].addr = b
      BY <1>1, <2>1, Zenon
    <3>2. \A k \in 1..Len(ws) : k > i => ws[k].addr # b
      BY <2>2, Zenon
    <3> QED BY ONLY <3>1, <3>2, WrittenLast
  <2> QED BY <2>1, <2>3, Zenon
<1>5. ASSUME NEW b \in FsBlock, \A i \in 1..n : t[i].target # b
      PROVE  Written(fs, ws)[b] = fs[b]
  <2>1. \A i \in 1..Len(ws) : ws[i].addr # b
    BY <1>1, <1>5, Zenon
  <2>2. b \in DOMAIN fs /\ ws \in Seq(Write)
    BY <1>1, Zenon
  <2> QED BY ONLY <2>1, <2>2, WrittenElsewhere
<1>6. ASSUME NEW b \in FsBlock PROVE Store!Effect(fs, t)[b] = Overlay(fs, t)[b]
  <2>1. CASE \E i \in 1..n : t[i].target = b
    <3> DEFINE i == CHOOSE i \in DOMAIN t : t[i].target = b
    <3>1. i \in 1..n /\ t[i].target = b
      BY <1>2, <2>1, Zenon
    <3>2. Store!Effect(fs, t)[b] = t[i].contents
      BY <1>2, <2>1, Zenon DEF Store!Effect
    <3> HIDE DEF i
    <3> QED BY <1>3, <1>4, <3>1, <3>2, Zenon
  <2>2. CASE ~\E i \in 1..n : t[i].target = b
    <3>1. Store!Effect(fs, t)[b] = fs[b]
      BY <1>2, <2>2, Zenon DEF Store!Effect
    <3> QED BY <1>3, <1>5, <2>2, <3>1, Zenon
  <2> QED BY <2>1, <2>2, Zenon
<1>7. Store!Effect(fs, t) = [b \in FsBlock |-> Store!Effect(fs, t)[b]]
  BY DEF Store!Effect
<1>8. Overlay(fs, t) = [b \in FsBlock |-> Overlay(fs, t)[b]]
  BY DEF Overlay, Written
<1> QED BY <1>6, <1>7, <1>8, ZenonT(30)

\* The store that a device holds.
LEMMA StoreIs ==
    ASSUME NEW m, NEW c, m \in Device, c \in Seq(Write), \A image \in ImagesOf(m, c) : Sound(image)
    PROVE  Recovered(m) = Outcome(m) /\ m \in ImagesOf(m, c)
BY ImagesHave, SoundRecovered

\* A step outside of commit that leaves the store alone.
LEMMA Quiet ==
    ASSUME txn = <<>>, txn' = <<>>, Recovered(medium') = Recovered(medium)
    PROVE  Store!ANext
BY DEF Store!ANext, Store!Forget

\* A mount makes a file system of any device.
LEMMA OutcomeDomain == ASSUME NEW image PROVE DOMAIN Outcome(image) = FsBlock
BY DEF Outcome, FsPart

\* The store before and after a step.
LEMMA StoreAround ==
    ASSUME JournalInv, JournalInv'
    PROVE  /\ Recovered(medium) = Outcome(medium) /\ medium \in ImagesOf(medium, cache)
           /\ Recovered(medium') = Outcome(medium') /\ medium' \in ImagesOf(medium', cache')
<1>1. medium \in Device /\ cache \in Seq(Write) /\ \A image \in ImagesOf(medium, cache) : Sound(image)
  BY DEF JournalInv, Typed
<1>2. medium' \in Device /\ cache' \in Seq(Write) /\ \A image \in ImagesOf(medium', cache') : Sound(image)
  BY DEF JournalInv, Typed
<1>3. Recovered(medium) = Outcome(medium) /\ medium \in ImagesOf(medium, cache)
  BY <1>1, StoreIs, Zenon
<1> DEFINE m == medium'
           c == cache'
<1>4. m \in Device /\ c \in Seq(Write) /\ \A image \in ImagesOf(m, c) : Sound(image)
  BY <1>2
<1> HIDE DEF m, c
<1>5. Recovered(m) = Outcome(m) /\ m \in ImagesOf(m, c)
  BY <1>4, StoreIs
<1> QED BY <1>3, <1>5, Zenon DEF m, c

\* The transaction in flight takes effect when its commit record reaches the medium.
LEMMA TakesEffect ==
    ASSUME JournalInv, JournalInv', LoggedInv, medium' = View, txn' = txn, result' = result
    PROVE  Store!ANext
<1>1. /\ Typed /\ txn \in Txn /\ Complete(View, txn)
      /\ \A image \in PartsOf(medium, cache) : Outcome(image) = FsPart(View)
  BY Zenon DEF JournalInv, LoggedInv, Complete
<1>2. Outcome(View) = Overlay(FsPart(View), txn)
  BY <1>1, CompleteSound
<1>3. medium = View \/ medium \in PartsOf(medium, cache)
  <2>1. medium \in Device /\ cache \in Seq(Write) /\ medium \in ImagesOf(medium, cache)
    BY <1>1, ViewFacts, Zenon DEF Typed
  <2> QED BY <2>1, PartsHave, Zenon DEF View
<1>4. Outcome(View) = Overlay(Outcome(medium), txn)
  <2>1. CASE medium = View
    BY <1>1, <1>2, <2>1, OverlayAgain, ZenonT(30)
  <2>2. CASE medium \in PartsOf(medium, cache)
    BY <1>1, <1>2, <2>2, ZenonT(30)
  <2> QED BY <1>3, <2>1, <2>2, ZenonT(30)
<1>5. Store!Effect(Outcome(medium), txn) = Overlay(Outcome(medium), txn)
  BY <1>1, OutcomeDomain, EffectIs, ZenonT(30)
<1>6. txn # <<>>
  BY <1>1, TxnNotEmpty, Zenon
<1>7. Recovered(medium') = Store!Effect(Recovered(medium), txn)
  BY <1>4, <1>5, StoreAround, ZenonT(30)
<1> QED BY <1>6, <1>7 DEF Store!ANext, Store!TakeEffect

\* A device that destages on its own makes the transaction in flight take effect, if
\* the write is the commit record, and leaves the store alone otherwise.
LEMMA DestageStore ==
    ASSUME JournalInv, JournalInv', DeviceDestages, Reorders = FALSE
    PROVE  Store!ANext \/ UNCHANGED Store!asVars
<1>1. Typed /\ txn' = txn /\ result' = result
  BY DestageOldest, Zenon DEF JournalInv
<1>2. /\ medium \in ImagesOf(medium, cache) /\ medium' \in ImagesOf(medium, cache)
      /\ Recovered(medium) = Outcome(medium) /\ Recovered(medium') = Outcome(medium')
  BY <1>1, StoreAround, DestageOldest, ZenonT(30)
<1>3. ASSUME Outcome(medium') = Outcome(medium) PROVE UNCHANGED Store!asVars
  BY <1>1, <1>2, <1>3, Zenon DEF Store!asVars
<1>4. ASSUME NEW o, Agree(o) PROVE UNCHANGED Store!asVars
  <2>1. Outcome(medium') = o /\ Outcome(medium) = o
    BY <1>2, <1>4 DEF Agree
  <2> QED BY <1>3, <2>1, ZenonT(30)
<1>5. CASE OffInv \/ ScanInv \/ MountedInv \/ LogInv \/ CheckpointedInv
  BY <1>4, <1>5, Zenon DEF OffInv, ScanInv, MountedInv, LogInv, CheckpointedInv
<1>6. CASE CheckpointInv
  <2>1. Len(cache) > 0
    BY <1>1, DestageOldest, Zenon
  <2>2. cache = <<>>
    BY <1>6 DEF CheckpointInv
  <2> QED BY <2>1, <2>2
<1>7. CASE LoggedInv
  <2>1. medium \in PartsOf(medium, cache)
    BY <1>1, DestageOldest, PartsHave, Zenon
  <2>2. CASE Len(cache') = 0
    <3>1. medium' = View
      BY <1>1, <2>2, DestageOldest, ZenonT(30) DEF View
    <3> QED BY <1>1, <1>7, <3>1, TakesEffect, Zenon
  <2>3. CASE Len(cache') # 0
    <3> DEFINE m == medium'
               c == cache'
    <3>1. m \in Device /\ c \in Seq(Write) /\ PartsOf(m, c) \subseteq PartsOf(medium, cache) /\ Len(c) # 0
      BY <1>1, <2>3, DestageOldest, ZenonT(30)
    <3> HIDE DEF m, c
    <3>2. Len(c) > 0
      BY <3>1
    <3>3. m \in PartsOf(medium, cache)
      BY <3>1, <3>2, PartsHave, Zenon
    <3>4. Outcome(medium') = Outcome(medium)
      BY <1>7, <2>1, <3>3, ZenonT(30) DEF LoggedInv, m
    <3> QED BY <1>3, <3>4
  <2> QED BY <2>2, <2>3
<1> QED BY <1>5, <1>6, <1>7, ZenonT(30) DEF JournalInv, PhaseInv

\* The end of a mount flushes what the mount has replayed: the store is the same.
LEMMA RecoverFinishStore ==
    ASSUME JournalInv, JournalInv', RecoverFinish
    PROVE  Store!ANext
<1>1. ScanInv /\ Typed
  BY Zenon DEF JournalInv, PhaseInv, OffInv, MountedInv, LogInv, LoggedInv, CheckpointInv,
         CheckpointedInv, RecoverFinish
<1>2. (medium' = medium \/ medium' = View) /\ txn' = txn /\ txn = <<>>
  BY <1>1, Zenon DEF RecoverFinish, WriteBlocks, FlushThenWrite, ScanInv
<1>3. medium \in ImagesOf(medium, cache) /\ View \in ImagesOf(medium, cache)
  BY <1>1, ViewFacts
<1>4. Outcome(medium) = Outcome(View)
  <2>1. PICK o \in outcomes : Agree(o)
    BY <1>1, Zenon DEF ScanInv
  <2> QED BY <1>3, <2>1, Zenon DEF Agree
<1>5. Recovered(medium') = Recovered(medium)
  BY <1>2, <1>4, StoreAround, ZenonT(30)
<1> QED BY <1>2, <1>5, Quiet, ZenonT(30)

\* commit up to the descriptor opens a transaction and leaves the store alone.
LEMMA CommitBeginStore ==
    ASSUME JournalInv, JournalInv', CommitBegin
    PROVE  Store!ANext
<1>1. MountedInv /\ Typed
  BY Zenon DEF JournalInv, PhaseInv, OffInv, ScanInv, LogInv, LoggedInv, CheckpointInv,
         CheckpointedInv, CommitBegin
<1>2. PICK calls \in SeqUpTo(Target, MaxCalls) :
        LET records == Records(calls)
            n == Len(records)
            valid == \A i \in 1..n : records[i].target < FsBlocks
        IN  /\ n > 0 /\ Fits(n)
            /\ ReclaimLog(n)
            /\ IF valid THEN txn' = records /\ result' = "none" ELSE UNCHANGED txn
  BY Zenon DEF CommitBegin
<1> DEFINE r == Records(calls)
           n == Len(r)
           valid == \A i \in 1..n : r[i].target < FsBlocks
<1>3. r \in Seq(Call)
  BY <1>1, BoundedCalls, RecordsAre, ZenonT(30) DEF Typed
<1> HIDE DEF r
<1>4. /\ n > 0 /\ Fits(n) /\ ReclaimLog(n) /\ n \in Nat
      /\ IF valid THEN txn' = r /\ result' = "none" ELSE UNCHANGED txn
  BY <1>2, <1>3 DEF r
<1>5. r # <<>>
  BY <1>3, <1>4
<1> HIDE DEF n, valid
<1>6. \A image \in ImagesOf(medium, cache)' : Outcome(image) = FsPart(View)
  BY <1>1, <1>4, ReclaimStep, Zenon
<1>7. txn = <<>> /\ \A image \in ImagesOf(medium, cache) : Outcome(image) = FsPart(View)
  BY <1>1 DEF MountedInv, Agree
<1>8. Recovered(medium') = Recovered(medium)
  BY <1>6, <1>7, StoreAround, ZenonT(30)
<1>9. CASE valid
  BY <1>4, <1>5, <1>7, <1>8, <1>9, Zenon DEF Store!ANext, Store!Begin
<1>10. CASE ~valid
  BY <1>4, <1>7, <1>8, <1>10, Quiet, Zenon
<1> QED BY <1>9, <1>10

\* commit answers "ok" once the transaction has taken effect.
LEMMA CommitFinishStore ==
    ASSUME JournalInv, JournalInv', CommitFinish
    PROVE  Store!ANext
<1>1. CheckpointedInv /\ Typed
  BY Zenon DEF JournalInv, PhaseInv, OffInv, ScanInv, MountedInv, LogInv, LoggedInv,
         CheckpointInv, CommitFinish
<1>2. medium' = View /\ txn' = <<>> /\ result' = "ok"
  BY DEF CommitFinish, FlushThenWrite
<1>3. medium \in ImagesOf(medium, cache) /\ View \in ImagesOf(medium, cache)
  BY <1>1, ViewFacts
<1>4. Outcome(medium) = FsPart(View) /\ Outcome(View) = FsPart(View)
  BY <1>1, <1>3 DEF CheckpointedInv, Agree
<1>5. txn \in Txn /\ Overlay(FsPart(View), txn) = FsPart(View)
  BY <1>1, Zenon DEF CheckpointedInv, Complete
<1>6. Store!Effect(Outcome(medium), txn) = Overlay(Outcome(medium), txn)
  BY <1>5, OutcomeDomain, EffectIs, Zenon
<1>7. txn # <<>>
  BY <1>5, TxnNotEmpty, ZenonT(30)
<1>8. Recovered(medium') = Recovered(medium) /\ Recovered(medium) = Store!Effect(Recovered(medium), txn)
  BY <1>2, <1>4, <1>5, <1>6, StoreAround, Zenon
<1> QED BY <1>2, <1>7, <1>8, Zenon DEF Store!ANext, Store!Acknowledge

\* Every step of the log, the device and the power supply is a step of the store or
\* leaves it alone.
LEMMA StoreStep ==
    ASSUME OrderedDevice, JournalInv, JournalInv', [Next]_vars
    PROVE  [Store!ANext]_(Store!asVars)
<1>2. ASSUME UNCHANGED <<medium, txn, result>> PROVE UNCHANGED Store!asVars
  BY <1>2 DEF Store!asVars
<1>3. ASSUME pc \in {"off", "scan", "mounted"} PROVE txn = <<>>
  BY <1>3, Zenon DEF JournalInv, PhaseInv, OffInv, ScanInv, MountedInv, LogInv, LoggedInv,
              CheckpointInv, CheckpointedInv
<1>4. ASSUME Format \/ Open \/ RecoverStep \/ CommitRefused PROVE Store!ANext
  <2>1. medium' = medium /\ txn' = txn /\ pc \in {"off", "scan", "mounted"}
    BY <1>4 DEF Format, Open, RecoverStep, CommitRefused, WriteBlocks, devVars
  <2> QED BY <1>3, <2>1, Quiet, ZenonT(30)
<1>5. ASSUME PowerLoss PROVE Store!ANext
  <2>1. medium' = medium /\ txn' = <<>> /\ result' = "none"
    BY <1>5 DEF PowerLoss, LoseCache
  <2> QED BY <2>1 DEF Store!ANext, Store!Forget
<1>6. ASSUME WriteLog \/ Checkpoint PROVE UNCHANGED Store!asVars
  <2>1. UNCHANGED <<medium, txn, result>>
    BY <1>6 DEF WriteLog, Checkpoint, WriteBlocks
  <2> QED BY <1>2, <2>1, ZenonT(30)
<1>7. ASSUME FlushLog PROVE Store!ANext
  <2>1. LoggedInv
    BY <1>7, Zenon DEF JournalInv, PhaseInv, OffInv, ScanInv, MountedInv, LogInv, CheckpointInv,
                CheckpointedInv, FlushLog
  <2>2. medium' = View /\ txn' = txn /\ result' = result
    BY <1>7 DEF FlushLog, Flush, FlushThenWrite
  <2> QED BY <2>1, <2>2, TakesEffect, Zenon
<1>8. ASSUME UNCHANGED vars PROVE UNCHANGED Store!asVars
  BY <1>2, <1>8 DEF vars
<1>9. ASSUME DeviceDestages PROVE Store!ANext \/ UNCHANGED Store!asVars
  BY <1>9, DestageStore, Zenon DEF OrderedDevice
<1> QED BY <1>4, <1>5, <1>6, <1>7, <1>8, <1>9, RecoverFinishStore, CommitBeginStore,
           CommitFinishStore, ZenonT(30) DEF Next, Mount, Commit

\* The blank device holds the initial store.
LEMMA StoreInit == Init => Store!AInit
<1> SUFFICES ASSUME Init PROVE Store!AInit
  OBVIOUS
<1>1. medium = [a \in Address |-> ZeroBlock] /\ txn = <<>> /\ result = "none"
  BY DEF Init
<1>2. Recovered(medium) = [b \in FsBlock |-> ZeroBlock]
  BY <1>1, BlankSound, SoundRecovered, ZenonT(30)
<1> QED BY <1>1, <1>2 DEF Store!AInit

\* The write-ahead log implements the atomic store (journal.rs: "atomic multi-block
\* transactions and crash-consistent replay"): commit, recover, the device's own
\* destaging and a power loss at any instant are steps of a store in which a
\* transaction takes effect at one instant, before it is answered "ok", or never.
THEOREM ImplementsAtomicStoreHolds ==
    ASSUME OrderedDevice
    PROVE  Spec => ImplementsAtomicStore
<1>1. Init => Store!AInit
  BY StoreInit
<1>2. JournalInv /\ JournalInv' /\ [Next]_vars => [Store!ANext]_(Store!asVars)
  BY StoreStep
<1>3. Spec => []JournalInv
  BY JournalInvariant
<1> QED BY <1>1, <1>2, <1>3, PTL DEF Spec, ImplementsAtomicStore, Store!ASpec
============================================================================
