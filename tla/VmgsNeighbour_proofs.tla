------------------------ MODULE VmgsNeighbour_proofs ------------------------
(***************************************************************************)
(* Proofs about any number of VmgsIO objects beside another program that   *)
(* writes blocks which are not the file's: what the objects store and      *)
(* return is made of bytes at their own places (BytesInPlace), and what    *)
(* the other program owns is left to it but for one block                  *)
(* (OwnerKeepsBlocks).                                                     *)
(***************************************************************************)
EXTENDS VmgsNeighbour, VmgsIO_proofs

---------------------------------------------------------------------------
(* The invariant behind BytesInPlace.                                      *)

\* Every byte of blk is one that the file may have there in block m.
InPlace(blk, m) ==
  \A j \in 1 .. BlockSize : blk.body[j] \in Sources(m * BlockSize + j)

AllInPlace(bytes) == \A i \in DOMAIN bytes : bytes[i] \in Sources(i)

Returnable(bytes) == AllInPlace(bytes) \/ Nulled(bytes)

\* On the device and on the medium, in a tail block that was read and is to be
\* written back, in what a read() has received, and in what it returned.
DataInv(h) ==
  /\ pc[h] \in WritePc => buf[h] \in Buffers
  /\ pc[h] = "tail_write" /\ DirectBlocks(h) < AllocationNum =>
       InPlace(single_block[h], DirectBlocks(h))
  /\ pc[h] = "reading" => AllInPlace(got[h])
  /\ ret[h].status = "read" => Returnable(ret[h].data)

\* The same for sizes: those of the image and of the buffers, wherever headers
\* are.
GivenSizes == {ActiveLocator(Original).data_size} \cup {Size(b) : b \in Buffers}
GivenVersions == {Resize(Original, s) : s \in GivenSizes \cap (0 .. MaxSize)}
GivenHeads(i) == {StoreHeader(v[i]) : v \in GivenVersions}

SizeInv(h) ==
  /\ pc[h] \in {"ready", "closed", "reading"} \cup WritePc =>
       m_vmgs_data[h] \in GivenVersions
  /\ pc[h] = "load1" => header_block[h][0].head \in GivenHeads(0)

MediumInv(d) ==
  /\ \A m \in 0 .. AllocationNum - 1 : InPlace(d[AllocationBlock(m)], m)
  /\ \A i \in {0, 1} : d[Dev(i)].head \in GivenHeads(i)

PlacesInv ==
  /\ MediumInv(disk) /\ MediumInv(media)
  /\ \A h \in Handles : DataInv(h) /\ SizeInv(h)

---------------------------------------------------------------------------
(* The invariant behind OwnerKeepsBlocks.                                  *)

\* A tail block that was read behind the allocation is one its owner wrote.
OwnerInv ==
  /\ owned \in [ForeignLbas -> Seq(Block) \ {<<>>}]
  /\ OwnerKeepsBlocks
  /\ \A h \in Handles : pc[h] = "tail_write" /\ Dev(Target(h)) = Behind =>
       Behind \in ForeignLbas /\ single_block[h] \in Given(Behind)

---------------------------------------------------------------------------
(* The bytes of the allocation.                                            *)

USE DEF Goto, At

\* A device whose blocks are in place, read byte by byte.
LEMMA BlocksToBytes ==
  ASSUME NEW d, HeadersOn(d) \in Versions,
         \A m \in 0 .. AllocationNum - 1 : InPlace(d[AllocationBlock(m)], m)
  PROVE  \A i \in 1 .. MaxSize : Bytes(d, MaxSize)[i] \in Sources(i)
<1> SUFFICES ASSUME NEW i \in 1 .. MaxSize
             PROVE  Bytes(d, MaxSize)[i] \in Sources(i)
  OBVIOUS
<1> DEFINE m == (i - 1) \div BlockSize
           j == ((i - 1) % BlockSize) + 1
<1>1. /\ m \in Nat /\ m < AllocationNum /\ j \in 1 .. BlockSize
      /\ m * BlockSize + j = i
  BY PlaceOfByte, AllocationBlocks, BlockSizeAssumption, OriginalTyped
<1> HIDE DEF m, j
<1>2. m \in 0 .. AllocationNum - 1
  BY <1>1, AllocationBlocks
<1>3. Bytes(d, MaxSize)[m * BlockSize + j] = d[AllocationBlock(m)].body[j]
  BY <1>1, <1>2, BytesOfBlocks
<1> QED
  BY <1>1, <1>2, <1>3 DEF InPlace

---------------------------------------------------------------------------
(* Blocks that go out, and headers.                                        *)

\* The image's bytes are at their place.
LEMMA ImageInPlace == MediumInv(Image)
<1>1. HeadersOn(Image) \in Versions
  BY OriginalIsVersion DEF Original
<1>2. ASSUME NEW m \in 0 .. AllocationNum - 1, NEW j \in 1 .. BlockSize
      PROVE  Image[AllocationBlock(m)].body[j] \in Sources(m * BlockSize + j)
  BY <1>1, <1>2, BytesOfBlocks DEF Sources
<1>3. ActiveLocator(Original).data_size \in GivenSizes \cap (0 .. MaxSize)
  BY OriginalIsVersion DEF GivenSizes
<1>4. Original \in GivenVersions
  BY <1>3, OriginalIsVersion DEF GivenVersions
<1>5. \A i \in {0, 1} : Image[Dev(i)].head \in GivenHeads(i)
  BY <1>4, ImageAssumption DEF GivenHeads
<1> QED
  BY <1>2, <1>5 DEF MediumInv, InPlace

\* The next whole block of a buffer is in place over any block.
LEMMA ChunkInPlace ==
  ASSUME TypeOK, NEW h \in Handles, buf[h] \in Buffers, k[h] < DirectBlocks(h),
         NEW blk
  PROVE  InPlace(Overlay(blk, Chunk(h)), k[h])
<1> DEFINE size == Size(buf[h])
           lo == k[h] * BlockSize
<1>1. size \in Nat
  BY SizeFacts DEF TypeOK
<1>2. /\ lo \in Nat /\ lo + BlockSize <= size /\ Len(Chunk(h)) = BlockSize
      /\ \A j \in 1 .. BlockSize : Chunk(h)[j] = buf[h].bytes[lo + j]
  BY ChunkBytes
<1> HIDE DEF lo, size
<1>3. ASSUME NEW j \in 1 .. BlockSize
      PROVE  Overlay(blk, Chunk(h)).body[j] \in Sources(lo + j)
  <2>1. lo + j <= size
    BY <1>1, <1>2, BlockSizeAssumption
  <2>2. Overlay(blk, Chunk(h)).body[j] = buf[h].bytes[lo + j]
    BY <1>2, BlockSizeAssumption DEF Overlay, BlockOf
  <2> QED
    BY <2>1, <2>2 DEF Sources, size
<1> QED
  BY <1>3 DEF InPlace, lo

\* The tail of a buffer is in place over a block that is.
LEMMA TailInPlace ==
  ASSUME TypeOK, NEW h \in Handles, buf[h] \in Buffers,
         InPlace(single_block[h], DirectBlocks(h))
  PROVE  InPlace(Overlay(single_block[h], TailBytes(h)), DirectBlocks(h))
<1> DEFINE size == Size(buf[h])
           lo == DirectBlocks(h) * BlockSize
<1>1. size \in Nat /\ TailBytes(h) \in Seq(Byte)
  BY PartsTyped, SizeFacts DEF TypeOK
<1>2. /\ lo \in Nat /\ lo <= size /\ Len(TailBytes(h)) = size - lo
      /\ \A j \in 1 .. size - lo : TailBytes(h)[j] = buf[h].bytes[lo + j]
  BY TailBytesAre
<1> HIDE DEF lo, size
<1>3. ASSUME NEW j \in 1 .. BlockSize
      PROVE  Overlay(single_block[h], TailBytes(h)).body[j] \in Sources(lo + j)
  <2>1. CASE j <= size - lo
    <3>1. lo + j <= size
      BY <1>1, <1>2, <2>1
    <3>2. Overlay(single_block[h], TailBytes(h)).body[j] = buf[h].bytes[lo + j]
      BY <1>1, <1>2, <2>1 DEF Overlay, BlockOf
    <3> QED
      BY <3>1, <3>2 DEF Sources, size
  <2>2. CASE ~ (j <= size - lo)
    <3>1. Overlay(single_block[h], TailBytes(h)).body[j] = single_block[h].body[j]
      BY <1>1, <1>2, <2>2 DEF Overlay, BlockOf
    <3> QED
      BY <3>1 DEF InPlace, lo
  <2> QED
    BY <2>1, <2>2
<1> QED
  BY <1>3 DEF InPlace, lo

---------------------------------------------------------------------------
(* BytesInPlace.                                                           *)

LEMMA GivenAreVersions == GivenVersions \subseteq Versions
  BY DEF GivenVersions, Versions

\* A device write puts bytes in place, and a header of a given size.
LEMMA PutBlockInPlace ==
  ASSUME IInv, PlacesInv,
         NEW h \in Handles, pc[h] \in OutPc, Served(h), PutBlock(h)
  PROVE  MediumInv(disk)'
<1> DEFINE n == IF pc[h] = "direct" THEN k[h] ELSE DirectBlocks(h)
<1>1. /\ TypeOK /\ HeadersInv(h) /\ TransferInv(h) /\ MediumInv(disk)
      /\ DataInv(h) /\ SizeInv(h) /\ k[h] \in Nat /\ disk \in [Lba -> Block]
  BY DEF IInv, PlacesInv, TypeOK
<1>2. m_vmgs_data[h] \in Versions /\ m_vmgs_data[h] \in GivenVersions /\ buf[h] \in Buffers
  BY <1>1 DEF HeadersInv, SizeInv, DataInv, OutPc, WritePc
<1>3. disk' = [disk EXCEPT ![Dev(Target(h))] = Outgoing(h)] /\ Dev(Target(h)) \in Lba
  BY DEF PutBlock, Served
<1>4. CASE pc[h] \in {"direct", "tail_write"}
  <2>1. /\ n \in Nat /\ Target(h) = ActiveLocator(Original).allocation_lba + n
        /\ Target(h) \in Nat /\ Target(h) >= 2
    BY <1>1, <1>2, <1>4, VersionFacts, PartsTyped, AllocationFacts DEF Target
  <2>2. n < AllocationNum => InPlace(Outgoing(h), n)
    <3>1. CASE pc[h] = "direct"
      BY <1>1, <1>2, <3>1, ChunkInPlace DEF Outgoing, TransferInv
    <3>2. CASE pc[h] = "tail_write"
      BY <1>1, <1>2, <3>2, TailInPlace DEF Outgoing, DataInv
    <3> QED
      BY <1>4, <3>1, <3>2
  <2> HIDE DEF n
  <2>3. ASSUME NEW m \in 0 .. AllocationNum - 1
        PROVE  InPlace(disk'[AllocationBlock(m)], m)
    <3>1. CASE Dev(Target(h)) = AllocationBlock(m)
      <4>1. n = m /\ n < AllocationNum
        BY <2>1, <3>1, AllocationBlocks
      <4> QED
        BY <1>1, <1>3, <2>2, <3>1, <4>1
    <3>2. CASE Dev(Target(h)) # AllocationBlock(m)
      BY <1>1, <1>3, <3>2, AllocationBlocks DEF MediumInv
    <3> QED
      BY <3>1, <3>2
  <2>4. \A i \in {0, 1} : disk'[Dev(i)].head \in GivenHeads(i)
    BY <1>1, <1>3, <2>1, HeaderLbasFacts DEF MediumInv
  <2> QED
    BY <2>3, <2>4 DEF MediumInv, InPlace, Sources, GivenHeads
<1>5. ASSUME NEW i \in {0, 1}, pc[h] = IF i = 0 THEN "store_write0" ELSE "store_write1"
      PROVE  MediumInv(disk)'
  <2>1. Target(h) = i /\ Outgoing(h) = Stored(h, i)
    BY <1>5 DEF Target, Outgoing
  <2>2. Stored(h, i).head \in GivenHeads(i)
    BY <1>2 DEF Stored, BlockOf, GivenHeads
  <2>3. \A m \in 0 .. AllocationNum - 1 : InPlace(disk'[AllocationBlock(m)], m)
    BY <1>1, <1>3, <2>1, AllocationBlocks DEF MediumInv, HeaderLbas
  <2>4. \A j \in {0, 1} : disk'[Dev(j)].head \in GivenHeads(j)
    BY <1>1, <1>3, <2>1, <2>2, HeaderLbasFacts DEF MediumInv
  <2> QED
    BY <2>3, <2>4 DEF MediumInv, InPlace, Sources, GivenHeads
<1> QED
  BY <1>4, <1>5 DEF OutPc

\* A block that goes from disk to media, or back, is in place there as well.
LEMMA MediaInPlace ==
  ASSUME PlacesInv,
         NEW d, \A b \in Lba : d[b] = media[b] \/ d[b] = disk[b]
  PROVE  MediumInv(d)
<1>1. MediumInv(disk) /\ MediumInv(media)
  BY DEF PlacesInv
<1>2. ASSUME NEW m \in 0 .. AllocationNum - 1
      PROVE  InPlace(d[AllocationBlock(m)], m)
  BY <1>1, AllocationBlocks DEF MediumInv
<1>3. \A i \in {0, 1} : d[Dev(i)].head \in GivenHeads(i)
  BY <1>1, HeaderLbasFacts DEF MediumInv
<1> QED
  BY <1>2, <1>3 DEF MediumInv

\* What a block read brings is in place.
LEMMA ReadInPlace ==
  ASSUME IInv, PlacesInv, NEW h \in Handles, At(h, "reading")
  PROVE  AllInPlace(got[h] \o disk[Dev(Target(h))].body)
<1> DEFINE blk == disk[Dev(Target(h))]
           lo == k[h] * BlockSize
<1>1. /\ TypeOK /\ m_vmgs_data[h] \in Versions /\ TransferInv(h) /\ MediumInv(disk)
      /\ AllInPlace(got[h]) /\ k[h] \in Nat /\ got[h] \in Seq(Byte)
      /\ disk \in [Lba -> Block]
  BY DEF IInv, PlacesInv, TypeOK, HeadersInv, DataInv
<1>2. k[h] < AllocationNum
  BY <1>1, ReadFits, AllocationBlocks DEF TransferInv, AllocationNum
<1>3. k[h] \in 0 .. AllocationNum - 1 /\ Dev(Target(h)) = AllocationBlock(k[h])
  BY <1>1, <1>2, VersionFacts, AllocationBlocks DEF Target, AllocationBlock
<1>4. blk \in Block /\ InPlace(blk, k[h])
  BY <1>1, <1>3, AllocationBlocks DEF MediumInv
<1>5. blk.body \in Seq(Byte) /\ Len(blk.body) = BlockSize
  BY <1>4, BlocksTyped
<1>6. lo \in Nat /\ Len(got[h]) = lo
  BY <1>1, BlockSizeAssumption, NextBlock DEF TransferInv
<1> HIDE DEF blk, lo
<1>7. ASSUME NEW i \in DOMAIN (got[h] \o blk.body)
      PROVE  (got[h] \o blk.body)[i] \in Sources(i)
  <2>1. CASE i <= lo
    <3>1. i \in DOMAIN got[h] /\ (got[h] \o blk.body)[i] = got[h][i]
      BY <1>1, <1>5, <1>6, <1>7, <2>1
    <3> QED
      BY <1>1, <3>1 DEF AllInPlace
  <2>2. CASE ~ (i <= lo)
    <3>1. /\ i - lo \in 1 .. BlockSize /\ i = lo + (i - lo)
          /\ (got[h] \o blk.body)[i] = blk.body[i - lo]
      <4>1. ASSUME NEW s \in Seq(Byte), NEW t \in Seq(Byte),
                   NEW x \in DOMAIN (s \o t), ~ (x <= Len(s))
            PROVE  /\ x \in Nat /\ x - Len(s) \in 1 .. Len(t)
                   /\ (s \o t)[x] = t[x - Len(s)]
        BY <4>1
      <4>2. i \in Nat /\ i - lo \in 1 .. BlockSize /\ (got[h] \o blk.body)[i] = blk.body[i - lo]
        BY <1>1, <1>5, <1>6, <2>2, <4>1
      <4> QED
        BY <1>6, <4>2
    <3> DEFINE j == i - lo
    <3>2. blk.body[j] \in Sources(lo + j)
      BY <1>4, <3>1 DEF InPlace, lo
    <3> QED
      BY <3>1, <3>2
  <2> QED
    BY <2>1, <2>2
<1> QED
  BY <1>7 DEF AllInPlace, blk

\* A call that ends leaves the object's headers as they are, and returns what
\* was in place.
LEMMA FinishInPlace ==
  ASSUME TypeOK, NEW g \in Handles, NEW result,
         Finish(g, "ready", result), m_vmgs_data'[g] \in GivenVersions,
         result.status = "read" => Returnable(result.data)
  PROVE  DataInv(g)' /\ SizeInv(g)'
<1>1. pc'[g] = "ready" /\ ret'[g] = result
  BY DEF TypeOK, Finish
<1>2. (ret[g].status = "read" => Returnable(ret[g].data))'
  BY <1>1 DEF Returnable, AllInPlace, Sources, Nulled, FromPartition
<1> QED
  BY <1>1, <1>2 DEF DataInv, SizeInv, Returnable, AllInPlace, Sources, GivenVersions, WritePc

LEMMA ForgetInPlace ==
  ASSUME TypeOK, NEW g \in Handles, Forget(g)
  PROVE  DataInv(g)' /\ SizeInv(g)'
<1>1. pc'[g] = "none" /\ ret'[g] = Nothing
  BY DEF TypeOK, Forget, Finish
<1> QED
  BY <1>1 DEF DataInv, SizeInv, Nothing, WritePc

\* What a process has in hand stays in place, and of a given size.
LEMMA OwnInPlace ==
  ASSUME IInv, PlacesInv, [Next]_vars, NEW g \in Handles
  PROVE  DataInv(g)' /\ SizeInv(g)'
<1>1. /\ TypeOK /\ HeadersInv(g) /\ TransferInv(g) /\ DataInv(g) /\ SizeInv(g)
      /\ MediumInv(disk)
  BY DEF IInv, PlacesInv
<1>2. CASE Still(g)
  <2>1. DirectBlocks(g)' = DirectBlocks(g)
    BY <1>2 DEF Still, DirectBlocks, Size
  <2>2. DataInv(g)'
    BY <1>1, <1>2, <2>1 DEF Still, DataInv, Returnable, AllInPlace, InPlace, Sources, AllocationNum
  <2>3. SizeInv(g)'
    BY <1>1, <1>2 DEF Still, SizeInv, GivenVersions, GivenHeads
  <2> QED
    BY <2>2, <2>3
<1>3. CASE Call(g)
  <2>1. ASSUME NEW w \in BOOLEAN, Open(g, w) PROVE DataInv(g)' /\ SizeInv(g)'
    <3>1. pc'[g] = "load0" /\ ret'[g] = ret[g]
      BY <1>1, <2>1 DEF Open, TypeOK
    <3> QED
      BY <1>1, <3>1 DEF DataInv, SizeInv, Returnable, AllInPlace, Sources, WritePc
  <2>2. ASSUME NEW b \in Buffers, WriteRefused(g, b) PROVE DataInv(g)' /\ SizeInv(g)'
    BY <1>1, <2>2, FinishInPlace DEF WriteRefused, Result, SizeInv
  <2>3. ASSUME NEW b \in Buffers, BeginWrite(g, b) PROVE DataInv(g)' /\ SizeInv(g)'
    <3>1. /\ pc'[g] \in {"direct", "tail_read"} /\ buf'[g] = b /\ ret'[g] = Nothing
          /\ m_vmgs_data'[g] \in GivenVersions
      BY <1>1, <2>3 DEF BeginWrite, TypeOK, SizeInv
    <3> QED
      BY <3>1 DEF DataInv, SizeInv, Nothing, GivenVersions, WritePc
  <2>4. ASSUME BeginRead(g) PROVE DataInv(g)' /\ SizeInv(g)'
    <3>1. CASE ReadBlocks(g) = 0
      <4>1. /\ Finish(g, "ready", Result("read", <<>>))
            /\ m_vmgs_data'[g] \in GivenVersions
        BY <1>1, <2>4, <3>1 DEF BeginRead, SizeInv
      <4>2. AllInPlace(<<>>)
        BY DEF AllInPlace
      <4> QED
        BY <1>1, <4>1, <4>2, FinishInPlace DEF Result, Returnable
    <3>2. CASE ReadBlocks(g) # 0
      <4>1. /\ pc'[g] = "reading" /\ got'[g] = <<>> /\ ret'[g] = Nothing
            /\ m_vmgs_data'[g] \in GivenVersions
        BY <1>1, <2>4, <3>2 DEF BeginRead, TypeOK, SizeInv, TransferInv
      <4> QED
        BY <4>1 DEF DataInv, SizeInv, Returnable, AllInPlace, Nothing, GivenVersions, WritePc
    <3> QED
      BY <3>1, <3>2
  <2>5. ASSUME Close(g) PROVE DataInv(g)' /\ SizeInv(g)'
    <3>1. /\ pc'[g] = "closed" /\ ret'[g] = ret[g] /\ m_vmgs_data'[g] \in GivenVersions
      BY <1>1, <2>5 DEF Close, TypeOK, SizeInv
    <3> QED
      BY <1>1, <3>1 DEF DataInv, SizeInv, Returnable, AllInPlace, Sources, GivenVersions, WritePc
  <2>6. \A kw \in Kwargs : Writable(kw) \in BOOLEAN
    BY DEF Writable
  <2> QED
    BY <1>1, <1>3, <2>1, <2>2, <2>3, <2>4, <2>5, <2>6, ForgetInPlace DEF Call, Gone
<1>4. CASE Step(g)
  <2>1. CASE Load0(g)
    <3>1. /\ pc'[g] = "load1" /\ ret'[g] = ret[g]
          /\ header_block'[g][0] = disk[Dev(0)]
      BY <1>1, <2>1 DEF Load0, TypeOK
    <3> QED
      BY <1>1, <3>1 DEF DataInv, SizeInv, MediumInv, GivenHeads, GivenVersions,
           Returnable, AllInPlace, Sources, WritePc
  <2>2. CASE Load1(g)
    <3>1. CASE Forget(g)
      BY <1>1, <3>1, ForgetInPlace
    <3>2. CASE ~ Forget(g)
      <4> DEFINE y0 == header_block[g][0].head
                 y1 == disk[Dev(1)].head
      <4>1. /\ Finish(g, "ready", Nothing) /\ pc[g] = "load1"
            /\ m_vmgs_data' = [m_vmgs_data EXCEPT ![g] = LoadPair(y0, y1)]
        BY <2>2, <3>2 DEF Load1
      <4>2. y0 \in GivenHeads(0) /\ y1 \in GivenHeads(1)
        BY <1>1, <4>1 DEF SizeInv, MediumInv
      <4>3. LoadPair(y0, y1) \in GivenVersions
        <5>1. PICK v \in GivenVersions, w \in GivenVersions :
                y0 = StoreHeader(v[0]) /\ y1 = StoreHeader(w[1])
          BY <4>2 DEF GivenHeads
        <5> HIDE DEF y0, y1
        <5>2. LoadPair(y0, y1) \in {v, w}
          BY <5>1, MixedVersions, GivenAreVersions
        <5> QED
          BY <5>2
      <4>4. m_vmgs_data'[g] \in GivenVersions
        BY <1>1, <4>1, <4>3 DEF TypeOK
      <4> QED
        BY <1>1, <4>1, <4>4, FinishInPlace DEF Nothing
    <3> QED
      BY <3>1, <3>2
  <2>3. CASE DirectWrite(g)
    <3>1. /\ pc'[g] \in {"direct", "tail_read"} /\ buf'[g] = buf[g] /\ ret'[g] = ret[g]
          /\ m_vmgs_data'[g] = m_vmgs_data[g] /\ pc[g] = "direct"
      BY <1>1, <2>3 DEF DirectWrite, TypeOK
    <3> QED
      BY <1>1, <3>1 DEF DataInv, SizeInv, Returnable, AllInPlace, Sources, GivenVersions, WritePc
  <2>4. CASE TailRead(g)
    <3>1. /\ pc[g] = "tail_read" /\ pc'[g] = "tail_write" /\ buf'[g] = buf[g]
          /\ ret'[g] = ret[g] /\ m_vmgs_data'[g] = m_vmgs_data[g]
          /\ single_block'[g] = disk[Dev(Target(g))]
          /\ DirectBlocks(g)' = DirectBlocks(g)
      BY <1>1, <2>4 DEF TailRead, TypeOK, DirectBlocks
    <3>2. ASSUME DirectBlocks(g) < AllocationNum
          PROVE  InPlace(single_block'[g], DirectBlocks(g))
      <4>1. m_vmgs_data[g] \in Versions /\ DirectBlocks(g) \in Nat
        BY <1>1, <3>1, PartsTyped DEF HeadersInv, WritePc
      <4>2. /\ DirectBlocks(g) \in 0 .. AllocationNum - 1
            /\ Dev(Target(g)) = AllocationBlock(DirectBlocks(g))
        BY <3>1, <3>2, <4>1, VersionFacts, AllocationBlocks DEF Target, AllocationBlock
      <4> QED
        BY <1>1, <3>1, <4>2 DEF MediumInv
    <3>3. /\ buf[g] \in Buffers /\ m_vmgs_data[g] \in GivenVersions
          /\ ret[g].status = "read" => Returnable(ret[g].data)
      BY <1>1, <3>1 DEF DataInv, SizeInv, WritePc
    <3>4. DataInv(g)'
      BY <3>1, <3>2, <3>3 DEF DataInv, Returnable, AllInPlace, InPlace, Sources, AllocationNum
    <3> QED
      BY <3>1, <3>3, <3>4 DEF SizeInv, GivenVersions
  <2>5. CASE TailWrite(g)
    <3>1. CASE Fits(m_vmgs_data[g], Size(buf[g]))
      <4>1. /\ pc[g] = "tail_write" /\ pc'[g] = "store_read0" /\ buf'[g] = buf[g]
            /\ ret'[g] = ret[g]
            /\ m_vmgs_data'[g] = Resize(m_vmgs_data[g], Size(buf[g]))
        BY <1>1, <2>5, <3>1 DEF TailWrite, TypeOK
      <4>2. buf[g] \in Buffers /\ m_vmgs_data[g] \in Versions
        BY <1>1, <4>1 DEF DataInv, HeadersInv, WritePc
      <4>3. Size(buf[g]) \in GivenSizes \cap (0 .. MaxSize)
        BY <3>1, <4>2, SizeFacts, VersionFacts, OriginalTyped DEF Fits, GivenSizes
      <4>4. Resize(m_vmgs_data[g], Size(buf[g])) \in GivenVersions
        <5>1. Resize(m_vmgs_data[g], Size(buf[g])) = Resize(Original, Size(buf[g]))
          BY <4>2, SizeFacts, VersionsResized
        <5> QED
          BY <4>3, <5>1 DEF GivenVersions
      <4> QED
        BY <1>1, <4>1, <4>2, <4>4 DEF DataInv, SizeInv, Returnable, AllInPlace, Sources,
             GivenVersions, WritePc
    <3>2. CASE ~ Fits(m_vmgs_data[g], Size(buf[g]))
      BY <1>1, <2>5, <3>2, FinishInPlace DEF TailWrite, Result, SizeInv, WritePc
    <3> QED
      BY <3>1, <3>2
  <2>6. CASE StoreTo(g)
    <3>1. CASE StoreWrite1(g)
      BY <1>1, <3>1, FinishInPlace DEF StoreWrite1, Result, SizeInv, WritePc
    <3>2. CASE ~ StoreWrite1(g)
      <4>1. /\ pc[g] \in WritePc /\ pc'[g] \in WritePc \ {"tail_write"}
            /\ buf'[g] = buf[g] /\ ret'[g] = ret[g] /\ m_vmgs_data'[g] = m_vmgs_data[g]
        BY <1>1, <2>6, <3>2 DEF StoreTo, StoreRead, StoreWrite0, TypeOK, WritePc
      <4> QED
        BY <1>1, <4>1 DEF DataInv, SizeInv, Returnable, AllInPlace, Sources, GivenVersions, WritePc
    <3> QED
      BY <3>1, <3>2
  <2>7. CASE ReadBlock(g)
    <3> DEFINE bytes == got[g] \o disk[Dev(Target(g))].body
               size == ActiveLocator(m_vmgs_data[g]).data_size
    <3>1. pc[g] = "reading" /\ AllInPlace(bytes)
      BY <2>7, ReadInPlace DEF ReadBlock
    <3>2. m_vmgs_data[g] \in GivenVersions /\ UNCHANGED m_vmgs_data
      BY <1>1, <2>7, <3>1 DEF ReadBlock, SizeInv
    <3>3. CASE k[g] + 1 < ReadBlocks(g)
      <4>1. pc'[g] = pc[g] /\ got'[g] = bytes /\ ret'[g] = ret[g]
        BY <1>1, <2>7, <3>3 DEF ReadBlock, TypeOK
      <4> HIDE DEF bytes
      <4> QED
        BY <1>1, <3>1, <3>2, <4>1 DEF DataInv, SizeInv, Returnable, AllInPlace, Sources,
             GivenVersions, WritePc
    <3>4. CASE ~ (k[g] + 1 < ReadBlocks(g))
      <4>1. Finish(g, "ready", Result("read", SubSeq(bytes, 1, size)))
        BY <2>7, <3>4 DEF ReadBlock
      <4>2. size \in Nat
        BY <3>2, GivenAreVersions, VersionFacts DEF Locator
      <4>3. bytes \in Seq(Byte) /\ size <= Len(bytes)
        <5>1. /\ Dev(Target(g)) \in Lba /\ got[g] \in Seq(Byte) /\ k[g] \in Nat
              /\ k[g] < ReadBlocks(g) /\ Len(got[g]) = k[g] * BlockSize
          BY <1>1, <2>7, <3>1 DEF ReadBlock, Served, TypeOK, TransferInv
        <5>2. disk[Dev(Target(g))] \in Block
          BY <1>1, <5>1 DEF TypeOK
        <5>3. /\ disk[Dev(Target(g))].body \in Seq(Byte)
              /\ Len(disk[Dev(Target(g))].body) = BlockSize
          BY <5>2, BlocksTyped
        <5>4. bytes \in Seq(Byte) /\ Len(bytes) = k[g] * BlockSize + BlockSize
          <6>1. ASSUME NEW s \in Seq(Byte), NEW t \in Seq(Byte)
                PROVE  s \o t \in Seq(Byte) /\ Len(s \o t) = Len(s) + Len(t)
            OBVIOUS
          <6> QED
            BY <5>1, <5>3, <6>1
        <5>5. ReadBlocks(g) \in Nat /\ size <= ReadBlocks(g) * BlockSize
          BY <4>2, BlockSizeAssumption, CeilBlocks DEF ReadBlocks, BlocksOf
        <5>6. ReadBlocks(g) = k[g] + 1
          BY <3>4, <5>1, <5>5
        <5>7. (k[g] + 1) * BlockSize = k[g] * BlockSize + BlockSize
          BY <5>1, <5>5, BlockSizeAssumption, NextBlock
        <5> QED
          BY <5>4, <5>5, <5>6, <5>7
      <4> HIDE DEF bytes, size
      <4>4. AllInPlace(SubSeq(bytes, 1, size))
        <5>1. ASSUME NEW i \in DOMAIN SubSeq(bytes, 1, size)
              PROVE  i \in DOMAIN bytes /\ SubSeq(bytes, 1, size)[i] = bytes[i]
          BY <4>2, <4>3, <5>1
        <5> QED
          BY <3>1, <5>1 DEF AllInPlace
      <4> QED
        BY <1>1, <3>2, <4>1, <4>4, FinishInPlace DEF Result, Returnable
    <3> QED
      BY <3>3, <3>4
  <2>8. CASE LoadFails(g)
    BY <1>1, <2>8, ForgetInPlace DEF LoadFails
  <2>9. CASE IoFails(g)
    <3>1. /\ Finish(g, "ready", Result("io_error", <<>>)) /\ UNCHANGED m_vmgs_data
          /\ pc[g] \in {"reading"} \cup WritePc
      BY <2>9 DEF IoFails, IoPc
    <3> QED
      BY <1>1, <3>1, FinishInPlace DEF Result, SizeInv
  <2>10. CASE ReadNothing(g)
    <3> DEFINE size == ActiveLocator(m_vmgs_data[g]).data_size
               zeroes == [i \in 1 .. size |-> Zero]
    <3>1. /\ pc[g] = "reading" /\ UNCHANGED m_vmgs_data
          /\ Finish(g, "ready", Result("read", zeroes))
          /\ ~ FromPartition /\ Moved(BlocksOf(size)) = 0
      BY <2>10 DEF ReadNothing, ReadBlocks
    <3>2. m_vmgs_data[g] \in GivenVersions
      BY <1>1, <3>1 DEF SizeInv
    <3>3. size \in Nat
      BY <3>2, GivenAreVersions, VersionFacts DEF Locator
    <3> HIDE DEF size
    <3>4. Len(zeroes) = size
      BY <3>3
    <3>5. Returnable(zeroes)
      BY <3>1, <3>4 DEF Returnable, Nulled
    <3> QED
      BY <1>1, <3>1, <3>2, <3>5, FinishInPlace DEF Result
  <2> QED
    BY <1>4, <2>1, <2>2, <2>3, <2>4, <2>5, <2>6, <2>7, <2>8, <2>9, <2>10 DEF Step
<1>5. CASE Crash(g)
  BY <1>1, <1>5, ForgetInPlace DEF Crash
<1>6. CASE PowerLoss
  BY <1>6 DEF PowerLoss, DataInv, SizeInv, Nothing, WritePc
<1> QED
  BY <1>1, <1>2, <1>3, <1>4, <1>5, <1>6, OwnSteps

LEMMA PlacesInit == Init => PlacesInv
<1> SUFFICES ASSUME Init PROVE PlacesInv
  OBVIOUS
<1>1. \A h \in Handles : DataInv(h) /\ SizeInv(h)
  BY DEF Init, DataInv, SizeInv, Nothing, WritePc
<1> QED
  BY <1>1, ImageInPlace DEF Init, PlacesInv

LEMMA PlacesKeep ==
  ASSUME IInv, PlacesInv, [Next]_vars
  PROVE  PlacesInv'
<1>1. MediumInv(disk)'
  <2>1. CASE UNCHANGED disk \/ disk' = media
    <3>1. MediumInv(disk')
      BY <2>1, MediaInPlace
    <3> QED
      BY <3>1 DEF MediumInv, InPlace, Sources, GivenHeads, GivenVersions
  <2>2. CASE \E h \in Handles : pc[h] \in OutPc /\ Served(h) /\ PutBlock(h)
    BY <2>2, PutBlockInPlace
  <2> QED
    BY <2>1, <2>2, DiskSteps
<1>2. MediumInv(media)'
  <2>1. MediumInv(media')
    BY MediaSteps, MediaInPlace
  <2> QED
    BY <2>1 DEF MediumInv, InPlace, Sources, GivenHeads, GivenVersions
<1>3. \A g \in Handles : DataInv(g)' /\ SizeInv(g)'
  BY OwnInPlace
<1> QED
  BY <1>1, <1>2, <1>3 DEF PlacesInv

LEMMA PlacesShow ==
  ASSUME IInv, PlacesInv
  PROVE  BytesInPlace
<1>1. ASSUME NEW d \in {disk, media}
      PROVE  /\ \A i \in 1 .. MaxSize : Bytes(d, MaxSize)[i] \in Sources(i)
             /\ ActiveLocator(HeadersOn(d)).data_size \in GivenSizes
  <2>1. MediumInv(d)
    BY DEF PlacesInv
  <2>2. PICK v \in GivenVersions, w \in GivenVersions :
          d[Dev(0)].head = StoreHeader(v[0]) /\ d[Dev(1)].head = StoreHeader(w[1])
    BY <2>1 DEF MediumInv, GivenHeads
  <2>3. HeadersOn(d) \in GivenVersions /\ HeadersOn(d) \in Versions
    BY <2>2, MixedVersions, GivenAreVersions DEF HeadersOn
  <2>4. PICK s \in GivenSizes \cap (0 .. MaxSize) : HeadersOn(d) = Resize(Original, s)
    BY <2>3 DEF GivenVersions
  <2>5. ActiveLocator(HeadersOn(d)) = [ActiveLocator(Original) EXCEPT !.data_size = s]
    BY <2>4, OriginalTyped, ResizeKeeps
  <2>6. ActiveLocator(HeadersOn(d)).data_size \in GivenSizes
    BY <2>4, <2>5, OriginalTyped DEF Locator
  <2> QED
    BY <2>1, <2>3, <2>6, BlocksToBytes DEF MediumInv
<1>2. \A h \in Handles : ret[h].status = "read" =>
        \/ \A i \in DOMAIN ret[h].data : ret[h].data[i] \in Sources(i)
        \/ Nulled(ret[h].data)
  BY DEF PlacesInv, DataInv, Returnable, AllInPlace
<1> QED
  BY <1>1, <1>2 DEF BytesInPlace, GivenSizes

\* However the calls of any number of processes interleave, fail, are killed or
\* lose power, every byte on the device, on the medium and in a result of read()
\* is one the image or a buffer has at that place, and the stored size is the
\* image's or a buffer's (Vmgs.cpp:240-288). Buffers may be of any size: what
\* does not fit is cut off by the size that is stored.
THEOREM BytesStayInPlace == Spec => []BytesInPlace
<1>1. IInv /\ PlacesInv /\ [Next]_vars => PlacesInv'
  BY PlacesKeep
<1>2. IInv /\ PlacesInv => BytesInPlace
  BY PlacesShow
<1> QED
  BY <1>1, <1>2, PlacesInit, Invariance, PTL DEF Spec

---------------------------------------------------------------------------
(* The same beside another program.                                        *)

\* What another program writes is no header block and no block of the file.
LEMMA NeighbourWriteFacts ==
  ASSUME TypeOK, NEW w \in NeighbourWrites, NeighbourWrite(w)
  PROVE  /\ disk' \in [Lba -> Block]
         /\ \A b \in Lba \ {w[1]} : disk'[b] = disk[b]
         /\ disk'[w[1]] = w[2] /\ w[1] \in ForeignLbas /\ w[2] \in Block
         /\ \A i \in {0, 1} : disk'[Dev(i)] = disk[Dev(i)]
         /\ \A m \in 0 .. AllocationNum - 1 :
              disk'[AllocationBlock(m)] = disk[AllocationBlock(m)]
<1>1. /\ w[1] \in Lba \ (HeaderLbas \cup ActiveLbas) /\ w[2] \in Block
      /\ w[1] \in ForeignLbas
  BY NeighbourAssumption DEF ForeignLbas
<1>2. /\ disk \in [Lba -> Block] /\ disk' = [disk EXCEPT ![w[1]] = w[2]]
  BY DEF NeighbourWrite, TypeOK
<1> QED
  BY <1>1, <1>2, HeaderLbasFacts, AllocationBlocks DEF HeaderLbas

\* The steps of other programs leave the invariants of VmgsIO alone.
LEMMA NeighbourKeeps ==
  ASSUME IInv, NEW w \in NeighbourWrites, NeighbourWrite(w)
  PROVE  IInv' /\ (PlacesInv => PlacesInv')
<1>1. TypeOK /\ disk' \in [Lba -> Block]
  BY NeighbourWriteFacts DEF IInv
<1>2. UNCHANGED <<media, pc, writable, m_vmgs_data, buf, k, single_block,
                  header_block, got, ret>>
  BY DEF NeighbourWrite
<1>3. TypeOK'
  BY <1>1, <1>2 DEF TypeOK
<1>4. \A h \in Handles : HeadersInv(h)' /\ TransferInv(h)'
  BY <1>2 DEF IInv, HeadersInv, TransferInv, DirectBlocks, ReadBlocks
<1>5. IInv'
  BY <1>1, <1>2, <1>3, <1>4, NeighbourWriteFacts DEF IInv
<1>6. ASSUME PlacesInv PROVE PlacesInv'
  <2>1. MediumInv(disk')
    BY <1>1, <1>6, NeighbourWriteFacts DEF PlacesInv, MediumInv
  <2>2. \A h \in Handles : DataInv(h)' /\ SizeInv(h)'
    BY <1>2, <1>6 DEF PlacesInv, DataInv, SizeInv, DirectBlocks, Size, Returnable, AllInPlace,
       InPlace, Sources, AllocationNum, GivenVersions, GivenHeads
  <2>3. MediumInv(media)'
    BY <1>2, <1>6 DEF PlacesInv, MediumInv, InPlace, Sources, GivenHeads, GivenVersions
  <2>4. MediumInv(disk)'
    BY <2>1 DEF MediumInv, InPlace, Sources, GivenHeads, GivenVersions
  <2> QED
    BY <2>2, <2>3, <2>4 DEF PlacesInv
<1> QED
  BY <1>5, <1>6

\* Beside another program the inductive invariant of VmgsIO holds as well.
THEOREM SharedInvariance == SharedSpec => []IInv
<1>1. SharedInit => IInv
  BY InitHolds DEF SharedInit
<1>2. IInv /\ [SharedNext]_<<vars, owned>> => IInv'
  <2> SUFFICES ASSUME IInv, [SharedNext]_<<vars, owned>> PROVE IInv'
    OBVIOUS
  <2>1. CASE [Next]_vars
    BY <2>1, NextKeeps
  <2>2. ASSUME NEW w \in NeighbourWrites, NeighbourWrite(w) PROVE IInv'
    BY <2>2, NeighbourKeeps
  <2> QED
    BY <2>1, <2>2 DEF SharedNext
<1> QED
  BY <1>1, <1>2, PTL DEF SharedSpec

\* And every byte of the file stays in its place.
THEOREM SharedBytesStayInPlace == SharedSpec => []BytesInPlace
<1>1. SharedInit => PlacesInv
  BY PlacesInit DEF SharedInit
<1>2. IInv /\ PlacesInv /\ [SharedNext]_<<vars, owned>> => PlacesInv'
  <2>1. ASSUME IInv, PlacesInv, NEW w \in NeighbourWrites, NeighbourWrite(w)
        PROVE  PlacesInv'
    BY <2>1, NeighbourKeeps
  <2> QED
    BY <2>1, PlacesKeep DEF SharedNext
<1>3. IInv /\ PlacesInv => BytesInPlace
  BY PlacesShow
<1> QED
  BY <1>1, <1>2, <1>3, SharedInvariance, PTL DEF SharedSpec

---------------------------------------------------------------------------
(* OwnerKeepsBlocks.                                                       *)

\* The tail block of a buffer that fits is in the allocation, or the one behind
\* it; and then no byte of it changes.
LEMMA TailIsBehind ==
  ASSUME IInv, BuffersFit, NEW h \in Handles, pc[h] \in {"tail_read", "tail_write"},
         Dev(Target(h)) \notin ActiveLbas
  PROVE  Dev(Target(h)) = Behind /\ TailBytes(h) = <<>>
<1> DEFINE l == ActiveLocator(Original)
           size == Size(buf[h])
<1>1. /\ TypeOK /\ m_vmgs_data[h] \in Versions /\ buf[h] \in Buffers \cup {NoBuffer}
  BY DEF IInv, TypeOK, HeadersInv, WritePc
<1>2. size \in Nat /\ size <= MaxSize
  <2>1. CASE buf[h] \in Buffers
    BY <1>1, <2>1, SizeFacts DEF BuffersFit
  <2>2. CASE buf[h] = NoBuffer
    BY <2>2, OriginalTyped DEF Size, NoBuffer
  <2> QED
    BY <1>1, <2>1, <2>2
<1>3. /\ DirectBlocks(h) \in Nat /\ DirectBlocks(h) * BlockSize <= size
  BY <1>2, BlockSizeAssumption, FloorBlocks DEF DirectBlocks
<1>4. /\ l.allocation_lba \in Nat /\ l.allocation_num \in Nat
      /\ MaxSize = l.allocation_num * BlockSize /\ MaxSize \in Nat
  BY AllocationFacts, OriginalTyped
<1>5. DirectBlocks(h) <= l.allocation_num
  <2>1. DirectBlocks(h) * BlockSize \in Nat
    BY <1>3, BlockSizeAssumption, NextBlock
  <2>2. DirectBlocks(h) * BlockSize <= l.allocation_num * BlockSize
    BY <1>2, <1>3, <1>4, <2>1
  <2> QED
    BY <1>3, <1>4, <2>2, BlockSizeAssumption, Quotient
<1>6. Target(h) = l.allocation_lba + DirectBlocks(h)
  BY <1>1, VersionFacts DEF Target
<1>7. DirectBlocks(h) = l.allocation_num
  <2>1. ASSUME DirectBlocks(h) < l.allocation_num PROVE FALSE
    <3>1. DirectBlocks(h) \in 0 .. l.allocation_num - 1
      BY <1>3, <1>4, <2>1
    <3> QED
      BY <1>6, <3>1 DEF ActiveLbas, AllocationLbas
  <2> QED
    BY <1>3, <1>4, <1>5, <2>1
<1> QED
  BY <1>6, <1>7, TargetIsActive DEF Behind

\* A device write of VmgsIO leaves the neighbour's blocks alone, but for the one
\* behind the allocation, which it puts back as it was read.
LEMMA PutBlockKeepsOwned ==
  ASSUME IInv, OwnerInv, BuffersFit, UNCHANGED owned,
         NEW h \in Handles, pc[h] \in OutPc, Served(h), PutBlock(h)
  PROVE  OwnerKeepsBlocks'
<1> SUFFICES ASSUME NEW b \in ForeignLbas
             PROVE  IF b = Behind THEN disk'[b] \in Given(b) ELSE disk'[b] = Latest(b)
  BY DEF OwnerKeepsBlocks, Given, Latest, Behind, ForeignLbas
<1>1. /\ disk \in [Lba -> Block] /\ single_block[h] \in Block /\ b \in Lba
      /\ b \notin ActiveLbas /\ b \notin HeaderLbas
      /\ IF b = Behind THEN disk[b] \in Given(b) ELSE disk[b] = Latest(b)
  BY DEF IInv, TypeOK, OwnerInv, OwnerKeepsBlocks, ForeignLbas
<1>2. CASE b # Dev(Target(h))
  BY <1>1, <1>2 DEF PutBlock
<1>3. CASE b = Dev(Target(h))
  <2>1. pc[h] = "tail_write"
    <3>1. pc[h] # "direct"
      BY <1>1, <1>3, TargetIsActive
    <3>2. pc[h] \notin {"store_write0", "store_write1"}
      BY <1>1, <1>3 DEF Target, HeaderLbas
    <3> QED
      BY <3>1, <3>2 DEF OutPc
  <2>2. b = Behind /\ TailBytes(h) = <<>>
    BY <1>1, <1>3, <2>1, TailIsBehind
  <2>3. Outgoing(h) = single_block[h]
    BY <1>1, <2>1, <2>2, OverlayNothing DEF Outgoing
  <2>4. single_block[h] \in Given(Behind)
    BY <1>3, <2>1, <2>2 DEF OwnerInv
  <2> QED
    BY <1>1, <1>3, <2>2, <2>3, <2>4 DEF PutBlock
<1> QED
  BY <1>2, <1>3

\* While every buffer fits and the power stays on, what another program put
\* into a block is there: its latest content, or one of its contents in the one
\* block behind the allocation (Vmgs.cpp:269-273).
THEOREM OwnerKeeps ==
  ASSUME BuffersFit, "power" \notin Faults
  PROVE  SharedSpec => []OwnerKeepsBlocks
<1>1. SharedInit => OwnerInv
  <2> SUFFICES ASSUME SharedInit PROVE OwnerInv
    OBVIOUS
  <2>1. \A b \in ForeignLbas : b \in Lba /\ Image[b] \in Block
    BY BlocksTyped DEF ForeignLbas
  <2>2. ASSUME NEW b \in ForeignLbas
        PROVE  /\ owned[b] = <<Image[b]>> /\ disk[b] = Image[b]
               /\ Latest(b) = Image[b] /\ Image[b] \in Given(b)
    <3>1. owned[b] = <<Image[b]>> /\ disk[b] = Image[b]
      BY DEF SharedInit, Init
    <3> QED
      BY <3>1 DEF Latest, Given
  <2>3. owned \in [ForeignLbas -> Seq(Block) \ {<<>>}]
    BY <2>1 DEF SharedInit
  <2>4. OwnerKeepsBlocks
    BY <2>2 DEF OwnerKeepsBlocks
  <2> QED
    BY <2>3, <2>4 DEF OwnerInv, SharedInit, Init
<1>2. ASSUME IInv, OwnerInv, [Next]_vars, UNCHANGED owned
      PROVE  OwnerInv'
  <2>1. OwnerKeepsBlocks'
    <3>1. CASE UNCHANGED disk
      BY <1>2, <3>1 DEF OwnerInv, OwnerKeepsBlocks, Given, Latest
    <3>2. CASE \E h \in Handles : pc[h] \in OutPc /\ Served(h) /\ PutBlock(h)
      BY <1>2, <3>2, PutBlockKeepsOwned
    <3> QED
      BY <1>2, <3>1, <3>2, DiskSteps
  <2>2. ASSUME NEW g \in Handles, pc'[g] = "tail_write", Dev(Target(g))' = Behind
        PROVE  Behind \in ForeignLbas /\ single_block'[g] \in Given(Behind)
    <3>1. CASE TailRead(g)
      <4>1. /\ Target(g)' = Target(g) /\ Dev(Target(g)) \in Lba
            /\ single_block'[g] = disk[Dev(Target(g))]
        BY <1>2, <2>2, <3>1 DEF TailRead, Target, DirectBlocks, Served, IInv, TypeOK
      <4>2. Behind \in Lba /\ single_block'[g] = disk[Behind]
        BY <2>2, <4>1 DEF Dev
      <4>3. Behind \notin HeaderLbas /\ Behind \notin ActiveLbas
        BY AllocationFacts, HeaderLbasFacts, AllocationBlocks, GeometryAssumption
        DEF Behind, HeaderLbas, ActiveLbas, AllocationLbas, Dev
      <4> QED
        BY <1>2, <4>2, <4>3 DEF ForeignLbas, OwnerInv, OwnerKeepsBlocks
    <3>2. CASE Waiting(g)
      <4>1. Target(g)' = Target(g)
        BY <2>2, <3>2 DEF Waiting, Target, DirectBlocks
      <4> QED
        BY <1>2, <2>2, <3>2, <4>1 DEF Waiting, Dev, OwnerInv
    <3> QED
      BY <1>2, <2>2, <3>1, <3>2, TailSteps
  <2> QED
    BY <1>2, <2>1, <2>2 DEF OwnerInv, Given, Behind, ForeignLbas
<1>3. ASSUME IInv, OwnerInv, NEW w \in NeighbourWrites, NeighbourWrite(w)
      PROVE  OwnerInv'
  <2>1. /\ owned \in [ForeignLbas -> Seq(Block) \ {<<>>}] /\ w[1] \in ForeignLbas
        /\ w[2] \in Block /\ owned' = [owned EXCEPT ![w[1]] = Append(@, w[2])]
    BY <1>3, NeighbourWriteFacts DEF OwnerInv, IInv, NeighbourWrite
  <2>2. ASSUME NEW s \in Seq(Block) \ {<<>>}, NEW e \in Block
        PROVE  /\ Append(s, e) \in Seq(Block) \ {<<>>}
               /\ Append(s, e)[Len(Append(s, e))] = e
               /\ Len(Append(s, e)) \in DOMAIN Append(s, e)
               /\ \A i \in DOMAIN s : i \in DOMAIN Append(s, e) /\ Append(s, e)[i] = s[i]
    OBVIOUS
  <2>3. owned' \in [ForeignLbas -> Seq(Block) \ {<<>>}]
    BY <2>1, <2>2
  <2>4. ASSUME NEW b \in ForeignLbas
        PROVE  \A e \in Given(b) : e \in Given(b)'
    <3>1. CASE b = w[1]
      BY <2>1, <2>2, <3>1 DEF Given
    <3>2. CASE b # w[1]
      BY <2>1, <3>2 DEF Given
    <3> QED
      BY <3>1, <3>2
  <2>5. ASSUME NEW b \in ForeignLbas
        PROVE  IF b = Behind THEN disk'[b] \in Given(b)' ELSE disk'[b] = Latest(b)'
    <3>1. CASE b = w[1]
      <4>1. owned'[b] = Append(owned[b], w[2]) /\ disk'[b] = w[2]
        BY <1>3, <2>1, <3>1, NeighbourWriteFacts DEF IInv
      <4>2. Latest(b)' = w[2] /\ w[2] \in Given(b)'
        BY <2>1, <2>2, <4>1 DEF Latest, Given
      <4> QED
        BY <4>1, <4>2
    <3>2. CASE b # w[1]
      <4>1. owned'[b] = owned[b] /\ disk'[b] = disk[b]
        BY <1>3, <2>1, <3>2, NeighbourWriteFacts DEF IInv, ForeignLbas
      <4> QED
        BY <1>3, <4>1 DEF OwnerInv, OwnerKeepsBlocks, Given, Latest
    <3> QED
      BY <3>1, <3>2
  <2>6. ASSUME NEW g \in Handles, pc'[g] = "tail_write", Dev(Target(g))' = Behind
        PROVE  Behind \in ForeignLbas /\ single_block'[g] \in Given(Behind)'
    <3>1. /\ pc[g] = "tail_write" /\ Target(g)' = Target(g)
          /\ single_block'[g] = single_block[g]
      BY <1>3, <2>6 DEF NeighbourWrite, Target, DirectBlocks
    <3> QED
      BY <1>3, <2>4, <2>6, <3>1 DEF Dev, OwnerInv
  <2> QED
    BY <2>3, <2>5, <2>6 DEF OwnerInv, OwnerKeepsBlocks, Behind, ForeignLbas
<1>4. IInv /\ OwnerInv /\ [SharedNext]_<<vars, owned>> => OwnerInv'
  BY <1>2, <1>3 DEF SharedNext
<1>5. OwnerInv => OwnerKeepsBlocks
  BY DEF OwnerInv
<1> QED
  BY <1>1, <1>4, <1>5, SharedInvariance, PTL DEF SharedSpec
=============================================================================
