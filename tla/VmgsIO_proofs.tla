--------------------------- MODULE VmgsIO_proofs ---------------------------
(***************************************************************************)
(* Proofs about VmgsIO, for every device, partition, image and set of      *)
(* buffers that its assumptions allow, and any number of processes: the    *)
(* inductive invariant IInv, the properties that follow from it; when      *)
(* every buffer fits into the allocation, that no other block is touched;  *)
(* and, when the block behind every buffer exists, that no call fails on a *)
(* device without errors.                                                  *)
(***************************************************************************)
EXTENDS VmgsIO, VmgsFormat_proofs

---------------------------------------------------------------------------
(* Arithmetic.                                                             *)

\* n = size / block_size whole blocks hold at most size bytes, and what is left
\* is less than a block (Vmgs.cpp:262-265).
LEMMA FloorBlocks ==
  ASSUME NEW s \in Nat, NEW b \in Nat \ {0}
  PROVE  /\ s \div b \in Nat
         /\ (s \div b) * b <= s
         /\ s < (s \div b) * b + b
  OBVIOUS

\* (data_size + block_size - 1) / block_size blocks hold data_size bytes.
LEMMA CeilBlocks ==
  ASSUME NEW s \in Nat, NEW b \in Nat \ {0}
  PROVE  /\ (s + b - 1) \div b \in Nat
         /\ s <= ((s + b - 1) \div b) * b
  OBVIOUS

\* Comparing bytes of whole blocks is comparing blocks.
LEMMA Quotient ==
  ASSUME NEW m \in Nat, NEW n \in Nat, NEW b \in Nat \ {0}
  PROVE  /\ m * b <= n * b => m <= n
         /\ m * b < n * b => m < n
  OBVIOUS

\* A uint32_t or uint64_t value that is in range is not changed by wrapping.
LEMMA SmallRemainder ==
  ASSUME NEW x \in Nat, NEW m \in Nat \ {0}, x < m
  PROVE  x % m = x
  OBVIOUS

\* A block index below another leaves room for one block more.
LEMMA NextBlock ==
  ASSUME NEW i \in Nat, NEW n \in Nat, i < n, NEW b \in Nat
  PROVE  /\ i * b \in Nat
         /\ (i + 1) * b \in Nat
         /\ (i + 1) * b = i * b + b
         /\ (i + 1) * b <= n * b
  OBVIOUS
---------------------------------------------------------------------------
(* The versions of the headers.                                            *)

\* The image's headers are headers, and the capacity of the active allocation
\* does not wrap: MaxSize is allocation_num * block_size.
LEMMA OriginalTyped ==
  /\ Original \in Headers
  /\ MaxSize \in Nat
  /\ Original[0] \in Header /\ Original[1] \in Header
  /\ ActiveIndex(Original) \in {0, 1}
  /\ ActiveLocator(Original) \in Locator
<1>1. Original \in Headers /\ ActiveIndex(Original) \in {0, 1}
  BY ImageAssumption DEF ActiveIndex
<1>2. ActiveLocator(Original) \in Locator
  BY <1>1 DEF ActiveLocator, ActiveHeader, Headers, Header
<1> QED
  BY <1>1, <1>2, BlockSizeAssumption, WidthAssumption
  DEF MaxSize, Capacity, Locator, Headers

\* The image's headers pass load_from.
LEMMA OriginalLoads ==
  PairLoads(StoreHeader(Original[0]), StoreHeader(Original[1]), PartBlocks)
  BY ImageAssumption DEF Loads

\* The image's headers are a version: a size in range, resized to itself.
LEMMA OriginalIsVersion ==
  /\ Original \in Versions
  /\ ActiveLocator(Original).data_size \in 0 .. MaxSize
  /\ Resize(Original, ActiveLocator(Original).data_size) = Original
<1> DEFINE a == ActiveIndex(Original)
           x == Original[a].active_index
           s == Original[a].locators[x].data_size
<1>1. a \in {0, 1} /\ x \in {0, 1} /\ Original[a].locators[x] \in Locator
  BY OriginalTyped DEF Headers, Header
<1>2. s \in 0 .. MaxSize
  <2>1. HeaderLoads(StoreHeader(Original[a]), PartBlocks)
    BY <1>1, OriginalLoads DEF PairLoads
  <2>2. LocatorLoads(Original[a].locators[x], PartBlocks)
    BY <1>1, <2>1, OriginalTyped, StoredHeaderLoads
  <2> QED
    BY <1>1, <2>2, OriginalTyped
    DEF LocatorLoads, MaxSize, ActiveLocator, ActiveHeader, Locator
<1>3. Resize(Original, s) = Original
  <2>1. [Original[a].locators[x] EXCEPT !.data_size = s] = Original[a].locators[x]
    BY <1>1 DEF Locator
  <2>2. [Original[a].locators EXCEPT ![x] = Original[a].locators[x]]
          = Original[a].locators
    BY <1>1, OriginalTyped DEF Headers, Header
  <2>3. [Original[a] EXCEPT !.locators = Original[a].locators] = Original[a]
    BY <1>1, OriginalTyped DEF Headers, Header
  <2>4. [Original EXCEPT ![a] = Original[a]] = Original
    BY <1>1, OriginalTyped DEF Headers
  <2> QED
    BY <2>1, <2>2, <2>3, <2>4 DEF Resize
<1>4. s = ActiveLocator(Original).data_size
  BY DEF ActiveLocator, ActiveHeader
<1> QED
  BY <1>2, <1>3, <1>4 DEF Versions

\* Every version is a pair of headers that has the image's active locator but
\* for data_size, loads, and stays a version when it is resized.
LEMMA VersionFacts ==
  ASSUME NEW v \in Versions
  PROVE  /\ v \in Headers
         /\ ActiveIndex(v) = ActiveIndex(Original)
         /\ \A i \in {0, 1} \ {ActiveIndex(Original)} : v[i] = Original[i]
         /\ ActiveLocator(v) \in Locator
         /\ ActiveLocator(v).allocation_lba = ActiveLocator(Original).allocation_lba
         /\ ActiveLocator(v).allocation_lba >= 2
         /\ ActiveLocator(v).data_size <= MaxSize
         /\ Capacity(ActiveLocator(v)) = MaxSize
         /\ \A s \in 0 .. MaxSize : Resize(v, s) \in Versions
         /\ PairLoads(StoreHeader(v[0]), StoreHeader(v[1]), PartBlocks)
<1>1. PICK t \in 0 .. MaxSize : v = Resize(Original, t)
  BY DEF Versions
<1>2. t \in Nat /\ t <= MaxSize
  BY OriginalTyped
<1>3. ActiveLocator(v) = [ActiveLocator(Original) EXCEPT !.data_size = t]
  BY <1>1, <1>2, OriginalTyped, ResizeKeeps
<1>4. /\ ActiveLocator(v) \in Locator
      /\ ActiveLocator(v).allocation_lba = ActiveLocator(Original).allocation_lba
      /\ ActiveLocator(v).allocation_num = ActiveLocator(Original).allocation_num
      /\ ActiveLocator(v).data_size = t
  BY <1>2, <1>3, OriginalTyped DEF Locator
<1>5. Fits(Original, t)
  BY <1>2 DEF Fits, MaxSize
<1>6. PairLoads(StoreHeader(v[0]), StoreHeader(v[1]), PartBlocks)
  BY <1>1, <1>2, <1>5, OriginalTyped, OriginalLoads, ResizedPairLoads
<1>7. \A s \in 0 .. MaxSize : Resize(v, s) \in Versions
  BY <1>1, <1>2, OriginalTyped, ResizeKeeps DEF Versions
<1>8. Capacity(ActiveLocator(v)) = MaxSize
  BY <1>4 DEF Capacity, MaxSize
<1>9. ActiveLocator(Original).allocation_lba >= 2
  BY ImageAssumption
<1>10. /\ v \in Headers
       /\ ActiveIndex(v) = ActiveIndex(Original)
       /\ \A i \in {0, 1} \ {ActiveIndex(Original)} : v[i] = Original[i]
  BY <1>1, <1>2, OriginalTyped, ResizeKeeps
<1> QED
  BY <1>2, <1>4, <1>6, <1>7, <1>8, <1>9, <1>10

---------------------------------------------------------------------------
(* Blocks.                                                                 *)

\* The two header blocks are blocks of the device, and different ones.
LEMMA HeaderLbasFacts ==
  /\ Dev(0) \in Lba /\ Dev(1) \in Lba /\ Dev(0) # Dev(1)
  /\ \A t \in Nat : t >= 2 => Dev(t) # Dev(0) /\ Dev(t) # Dev(1)
  BY GeometryAssumption DEF Dev, Lba

\* The blocks that calls start from, and the image's, have their type.
LEMMA BlocksTyped ==
  /\ EmptyBlock \in Block
  /\ \A b \in Lba : Image[b] \in Block
  /\ \A i \in {0, 1} : HeaderBlocks(i) \subseteq Block
  /\ \A i \in {0, 1} : Image[Dev(i)] \in HeaderBlocks(i)
  /\ \A blk \in Block : blk.body \in Seq(Byte) /\ Len(blk.body) = BlockSize
<1>1. EmptyBlock \in Block
  BY BytesAssumption DEF EmptyBlock, BlockOf, Block, Body
<1>2. \A b \in Lba : Image[b] \in Block
  BY ImageAssumption DEF BlockOf, Block
<1>3. \A i \in {0, 1} : Dev(i) \in Lba /\ Image[Dev(i)].body \in Body
  BY ImageAssumption, HeaderLbasFacts
<1>4. \A i \in {0, 1} : HeaderBlocks(i) \subseteq Block
  BY <1>3 DEF HeaderBlocks, BlockOf, Block
<1>5. \A i \in {0, 1} : Image[Dev(i)] \in HeaderBlocks(i)
  BY <1>3, ImageAssumption, OriginalIsVersion DEF HeaderBlocks, BlockOf
<1>6. \A blk \in Block : blk.body \in Seq(Byte) /\ Len(blk.body) = BlockSize
  BY BlockSizeAssumption DEF Block, Body
<1> QED
  BY <1>1, <1>2, <1>4, <1>5, <1>6

\* memcpy into a block gives a block: raw unless nothing was copied.
LEMMA OverlayTyped ==
  ASSUME NEW blk \in Block, NEW bytes \in Seq(Byte)
  PROVE  Overlay(blk, bytes) \in Block
<1>1. blk.body \in Body
  BY DEF Block
<1>2. ASSUME NEW j \in 1 .. BlockSize
      PROVE  (IF j <= Len(bytes) THEN bytes[j] ELSE blk.body[j]) \in Byte
  BY <1>1, BlockSizeAssumption DEF Body
<1>3. Overlay(blk, bytes).body \in Body
  BY <1>2 DEF Overlay, BlockOf, Body
<1> QED
  BY <1>3 DEF Overlay, BlockOf, Block

\* A memcpy of no bytes leaves the block as it was.
LEMMA OverlayNothing ==
  ASSUME NEW blk \in Block
  PROVE  Overlay(blk, <<>>) = blk
<1>1. blk = BlockOf(blk.head, blk.body) /\ blk.body \in Body
  BY DEF Block, BlockOf
<1>2. \A j \in 1 .. BlockSize : ~ (j <= Len(<<>>))
  BY BlockSizeAssumption
<1>3. Overlay(blk, <<>>).body = [j \in 1 .. BlockSize |-> blk.body[j]]
  BY <1>2 DEF Overlay, BlockOf
<1>4. Overlay(blk, <<>>) = BlockOf(blk.head, blk.body)
  BY <1>1, <1>3 DEF Overlay, BlockOf, Body
<1> QED
  BY <1>1, <1>4

\* store_to's blocks: a version's header over what was read.
LEMMA StoredTyped ==
  ASSUME NEW v \in Versions, NEW i \in {0, 1}, NEW blk \in HeaderBlocks(i)
  PROVE  BlockOf(StoreHeader(v[i]), blk.body) \in HeaderBlocks(i)
  BY DEF HeaderBlocks, BlockOf

\* Header 0 of one version and header 1 of another are a version together:
\* only the active header differs between versions.
LEMMA MixedHeadersLoad ==
  ASSUME NEW b0 \in HeaderBlocks(0), NEW b1 \in HeaderBlocks(1)
  PROVE  /\ PairLoads(b0.head, b1.head, PartBlocks)
         /\ LoadPair(b0.head, b1.head) \in Versions
<1>1. PICK v \in Versions : b0.head = StoreHeader(v[0])
  BY DEF HeaderBlocks, BlockOf
<1>2. PICK w \in Versions : b1.head = StoreHeader(w[1])
  BY DEF HeaderBlocks, BlockOf
<1>3. PICK u \in Versions : u[0] = v[0] /\ u[1] = w[1]
  <2>1. CASE ActiveIndex(Original) = 0
    <3>1. v[1] = w[1]
      BY <2>1, VersionFacts
    <3> QED
      BY <3>1
  <2>2. CASE ActiveIndex(Original) = 1
    <3>1. v[0] = w[0]
      BY <2>2, VersionFacts
    <3> QED
      BY <3>1
  <2> QED
    BY <2>1, <2>2, OriginalTyped
<1>4. PairLoads(b0.head, b1.head, PartBlocks)
  BY <1>1, <1>2, <1>3, VersionFacts
<1>5. u \in Headers /\ u[0] \in Header /\ u[1] \in Header
  BY VersionFacts DEF Headers
<1>6. LoadHeader(b0.head) = u[0] /\ LoadHeader(b1.head) = u[1]
  BY <1>1, <1>2, <1>3, <1>5, StoreThenLoad
<1>7. LoadPair(b0.head, b1.head) = u
  BY <1>5, <1>6 DEF LoadPair, Headers
<1> QED
  BY <1>4, <1>7

\* Header 0 of one version with header 1 of another is one of the two, and
\* resizing a version again forgets the size it had.
LEMMA MixedVersions ==
  ASSUME NEW v \in Versions, NEW w \in Versions
  PROVE  LoadPair(StoreHeader(v[0]), StoreHeader(w[1])) \in {v, w}
<1>1. /\ v \in Headers /\ w \in Headers
      /\ v[0] \in Header /\ w[1] \in Header
  BY VersionFacts DEF Headers
<1>2. PICK u \in {v, w} : u[0] = v[0] /\ u[1] = w[1]
  <2>1. CASE ActiveIndex(Original) = 0
    <3>1. v[1] = w[1]
      BY <2>1, VersionFacts
    <3> QED
      BY <3>1
  <2>2. CASE ActiveIndex(Original) = 1
    <3>1. v[0] = w[0]
      BY <2>2, VersionFacts
    <3> QED
      BY <3>1
  <2> QED
    BY <2>1, <2>2, OriginalTyped
<1>3. LoadHeader(StoreHeader(v[0])) = u[0] /\ LoadHeader(StoreHeader(w[1])) = u[1]
  BY <1>1, <1>2, StoreThenLoad
<1> QED
  BY <1>1, <1>2, <1>3 DEF LoadPair, Headers

LEMMA VersionsResized ==
  ASSUME NEW v \in Versions, NEW s \in Nat
  PROVE  Resize(v, s) = Resize(Original, s)
<1>1. PICK t \in 0 .. MaxSize : v = Resize(Original, t)
  BY DEF Versions
<1> QED
  BY <1>1, OriginalTyped, ResizeKeeps

---------------------------------------------------------------------------
(* Transfers.                                                              *)

\* buf_info.size is a number of items, never more than the bytes there are.
LEMMA SizeFacts ==
  ASSUME NEW b \in Buffers \cup {NoBuffer}
  PROVE  /\ b.bytes \in Seq(Byte)
         /\ Size(b) \in Nat
         /\ Size(b) <= Len(b.bytes)
<1>1. b.bytes \in Seq(Byte) /\ b.itemsize \in Nat \ {0}
  <2>1. CASE b \in Buffers
    BY <2>1, BytesAssumption
  <2>2. CASE b = NoBuffer
    BY <2>2 DEF NoBuffer
  <2> QED
    BY <2>1, <2>2
<1>2. Size(b) \in Nat /\ Size(b) * b.itemsize <= Len(b.bytes)
  BY <1>1, FloorBlocks DEF Size
<1> QED
  BY <1>1, <1>2

\* The parts of the buffer that go out are within it.
LEMMA PartsTyped ==
  ASSUME TypeOK, NEW h \in Handles
  PROVE  /\ DirectBlocks(h) \in Nat
         /\ TailBytes(h) \in Seq(Byte)
         /\ k[h] < DirectBlocks(h) => Chunk(h) \in Seq(Byte)
<1>1. buf[h] \in Buffers \cup {NoBuffer} /\ k[h] \in Nat
  BY DEF TypeOK
<1>2. /\ DirectBlocks(h) \in Nat
      /\ DirectBlocks(h) * BlockSize \in Nat
      /\ DirectBlocks(h) * BlockSize <= Size(buf[h])
  BY <1>1, BlockSizeAssumption, FloorBlocks, SizeFacts DEF DirectBlocks
<1>3. TailBytes(h) \in Seq(Byte)
  BY <1>1, <1>2, SizeFacts DEF TailBytes
<1>4. ASSUME k[h] < DirectBlocks(h)
      PROVE  Chunk(h) \in Seq(Byte)
  <2>1. /\ k[h] * BlockSize \in Nat
        /\ (k[h] + 1) * BlockSize \in Nat
        /\ (k[h] + 1) * BlockSize <= Len(buf[h].bytes)
    <3>1. /\ k[h] * BlockSize \in Nat
          /\ (k[h] + 1) * BlockSize \in Nat
          /\ (k[h] + 1) * BlockSize <= DirectBlocks(h) * BlockSize
      BY <1>1, <1>2, <1>4, BlockSizeAssumption, NextBlock
    <3>2. Size(buf[h]) \in Nat /\ Size(buf[h]) <= Len(buf[h].bytes)
      BY <1>1, SizeFacts
    <3>3. Len(buf[h].bytes) \in Nat
      BY <1>1, SizeFacts
    <3> QED
      BY <1>2, <3>1, <3>2, <3>3
  <2>2. ASSUME NEW s \in Seq(Byte), NEW lo \in Nat, NEW hi \in Nat, hi <= Len(s)
        PROVE  SubSeq(s, lo + 1, hi) \in Seq(Byte)
    BY <2>2
  <2>3. buf[h].bytes \in Seq(Byte)
    BY <1>1, SizeFacts
  <2> DEFINE lo == k[h] * BlockSize
             hi == (k[h] + 1) * BlockSize
  <2>4. Chunk(h) = SubSeq(buf[h].bytes, lo + 1, hi)
    BY DEF Chunk
  <2> HIDE DEF lo, hi
  <2>5. lo \in Nat /\ hi \in Nat /\ hi <= Len(buf[h].bytes)
    BY <2>1 DEF lo, hi
  <2> QED
    BY <2>2, <2>3, <2>4, <2>5
<1> QED
  BY <1>2, <1>3, <1>4

\* A block of the direct write is the bytes of the buffer from k blocks on.
LEMMA ChunkBytes ==
  ASSUME TypeOK, NEW h \in Handles, k[h] < DirectBlocks(h)
  PROVE  LET lo == k[h] * BlockSize IN
         /\ lo \in Nat /\ (k[h] + 1) * BlockSize = lo + BlockSize
         /\ lo + BlockSize <= Size(buf[h])
         /\ Len(Chunk(h)) = BlockSize
         /\ \A j \in 1 .. BlockSize : Chunk(h)[j] = buf[h].bytes[lo + j]
<1> DEFINE size == Size(buf[h])
           lo == k[h] * BlockSize
<1>1. /\ k[h] \in Nat /\ DirectBlocks(h) \in Nat /\ size \in Nat
      /\ size <= Len(buf[h].bytes) /\ buf[h].bytes \in Seq(Byte)
  BY PartsTyped, SizeFacts DEF TypeOK
<1>2. /\ lo \in Nat /\ (k[h] + 1) * BlockSize = lo + BlockSize
      /\ (k[h] + 1) * BlockSize <= DirectBlocks(h) * BlockSize
      /\ DirectBlocks(h) * BlockSize \in Nat
  BY <1>1, BlockSizeAssumption, NextBlock
<1>3. DirectBlocks(h) * BlockSize <= size
  BY <1>1, BlockSizeAssumption, FloorBlocks DEF DirectBlocks
<1> HIDE DEF lo, size
<1>4. lo + BlockSize <= size
  BY <1>1, <1>2, <1>3, BlockSizeAssumption
<1>5. Chunk(h) = SubSeq(buf[h].bytes, lo + 1, lo + BlockSize)
  BY <1>2 DEF Chunk, lo
<1>6. /\ Len(Chunk(h)) = BlockSize
      /\ \A j \in 1 .. BlockSize : Chunk(h)[j] = buf[h].bytes[lo + j]
  <2>1. ASSUME NEW s \in Seq(Byte), NEW n \in Nat, n + BlockSize <= Len(s)
        PROVE  /\ Len(SubSeq(s, n + 1, n + BlockSize)) = BlockSize
               /\ \A j \in 1 .. BlockSize :
                    SubSeq(s, n + 1, n + BlockSize)[j] = s[n + j]
    BY <2>1, BlockSizeAssumption
  <2>2. lo + BlockSize <= Len(buf[h].bytes) /\ Len(buf[h].bytes) \in Nat
    BY <1>1, <1>2, <1>4, BlockSizeAssumption
  <2> QED
    BY <1>1, <1>2, <1>5, <2>1, <2>2
<1> QED
  BY <1>2, <1>4, <1>6 DEF lo, size

\* The tail is what the whole blocks leave of the buffer, less than a block.
LEMMA TailBytesAre ==
  ASSUME TypeOK, NEW h \in Handles
  PROVE  LET lo == DirectBlocks(h) * BlockSize IN
         /\ lo \in Nat /\ lo <= Size(buf[h]) /\ Size(buf[h]) < lo + BlockSize
         /\ Len(TailBytes(h)) = Size(buf[h]) - lo
         /\ \A j \in 1 .. Size(buf[h]) - lo : TailBytes(h)[j] = buf[h].bytes[lo + j]
<1> DEFINE size == Size(buf[h])
           lo == DirectBlocks(h) * BlockSize
<1>1. /\ DirectBlocks(h) \in Nat /\ size \in Nat
      /\ size <= Len(buf[h].bytes) /\ buf[h].bytes \in Seq(Byte)
  BY PartsTyped, SizeFacts DEF TypeOK
<1>2. lo \in Nat
  BY <1>1, BlockSizeAssumption, NextBlock
<1>3. lo <= size /\ size < lo + BlockSize
  BY <1>1, BlockSizeAssumption, FloorBlocks DEF DirectBlocks
<1> HIDE DEF lo, size
<1>4. TailBytes(h) = SubSeq(buf[h].bytes, lo + 1, size)
  BY DEF TailBytes, lo, size
<1>5. /\ Len(TailBytes(h)) = size - lo
      /\ \A j \in 1 .. size - lo : TailBytes(h)[j] = buf[h].bytes[lo + j]
  BY <1>1, <1>2, <1>3, <1>4
<1> QED
  BY <1>2, <1>3, <1>5 DEF lo, size

---------------------------------------------------------------------------
(* Steps of one process.                                                   *)

\* A step of h leaves the locals of the others alone.
Others(h) ==
  \A g \in Handles \ {h} :
    /\ pc'[g] = pc[g] /\ m_vmgs_data'[g] = m_vmgs_data[g]
    /\ buf'[g] = buf[g] /\ k'[g] = k[g] /\ got'[g] = got[g]
    /\ header_block'[g] = header_block[g]

\* At the end of a call the locals of h have their type and hold nothing, and
\* those of the other processes are as they were.
LEMMA FinishLocal ==
  ASSUME TypeOK, NEW h \in Handles, NEW to \in Pc, NEW result \in Results,
         Finish(h, to, result)
  PROVE  /\ pc' \in [Handles -> Pc]
         /\ buf' \in [Handles -> Buffers \cup {NoBuffer}]
         /\ k' \in [Handles -> Nat]
         /\ single_block' \in [Handles -> Block]
         /\ header_block' \in [Handles -> [{0, 1} -> Block]]
         /\ got' \in [Handles -> Seq(Byte)]
         /\ ret' \in [Handles -> Results]
         /\ pc'[h] = to /\ k'[h] = 0 /\ got'[h] = <<>>
         /\ \A g \in Handles \ {h} :
              /\ pc'[g] = pc[g] /\ buf'[g] = buf[g] /\ k'[g] = k[g]
              /\ got'[g] = got[g] /\ header_block'[g] = header_block[g]
  BY BlocksTyped DEF TypeOK, Finish, Goto

\* The same when the object goes too.
LEMMA ForgetLocal ==
  ASSUME TypeOK, NEW h \in Handles, Forget(h)
  PROVE  /\ pc' \in [Handles -> Pc]
         /\ writable' \in [Handles -> BOOLEAN]
         /\ m_vmgs_data' \in [Handles -> Versions \cup {<<>>}]
         /\ buf' \in [Handles -> Buffers \cup {NoBuffer}]
         /\ k' \in [Handles -> Nat]
         /\ single_block' \in [Handles -> Block]
         /\ header_block' \in [Handles -> [{0, 1} -> Block]]
         /\ got' \in [Handles -> Seq(Byte)]
         /\ ret' \in [Handles -> Results]
         /\ pc'[h] = "none" /\ k'[h] = 0 /\ got'[h] = <<>>
         /\ Others(h)
<1>1. Finish(h, "none", Nothing) /\ "none" \in Pc /\ Nothing \in Results
  BY DEF Forget, Pc, Nothing, Results
<1>2. /\ writable' \in [Handles -> BOOLEAN]
      /\ m_vmgs_data' \in [Handles -> Versions \cup {<<>>}]
      /\ \A g \in Handles \ {h} : m_vmgs_data'[g] = m_vmgs_data[g]
  BY DEF Forget, TypeOK
<1> QED
  BY <1>1, <1>2, FinishLocal DEF Others

\* A device write of write() or store_to puts a typed block on the device, and
\* a version's header into a header block: the direct and the tail writes stay
\* away from the header blocks, since the allocation does.
LEMMA PutBlockKeeps ==
  ASSUME IInv, NEW h \in Handles, pc[h] \in OutPc, Served(h), PutBlock(h)
  PROVE  /\ disk' \in [Lba -> Block]
         /\ \A i \in {0, 1} : disk'[Dev(i)] \in HeaderBlocks(i)
<1>1. /\ TypeOK /\ HeadersInv(h) /\ TransferInv(h)
      /\ \A i \in {0, 1} : disk[Dev(i)] \in HeaderBlocks(i)
  BY DEF IInv
<1>2. disk \in [Lba -> Block] /\ Dev(Target(h)) \in Lba
  BY <1>1 DEF TypeOK, Served
<1>3. CASE pc[h] \in {"direct", "tail_write"}
  <2>1. m_vmgs_data[h] \in Versions /\ single_block[h] \in Block /\ k[h] \in Nat
    BY <1>1, <1>3 DEF HeadersInv, TypeOK, WritePc
  <2>2. Target(h) \in Nat /\ Target(h) >= 2
    <3>1. /\ ActiveLocator(m_vmgs_data[h]).allocation_lba \in Nat
          /\ ActiveLocator(m_vmgs_data[h]).allocation_lba >= 2
      BY <2>1, VersionFacts DEF Locator
    <3>2. DirectBlocks(h) \in Nat
      BY <1>1, PartsTyped
    <3> QED
      BY <1>3, <2>1, <3>1, <3>2 DEF Target
  <2>3. Outgoing(h) \in Block
    <3>1. CASE pc[h] = "direct"
      <4>1. Chunk(h) \in Seq(Byte)
        BY <1>1, <3>1, PartsTyped DEF TransferInv
      <4> QED
        BY <3>1, <4>1, BlocksTyped, OverlayTyped DEF Outgoing
    <3>2. CASE pc[h] = "tail_write"
      <4>1. TailBytes(h) \in Seq(Byte)
        BY <1>1, PartsTyped
      <4> QED
        BY <2>1, <3>2, <4>1, OverlayTyped DEF Outgoing
    <3> QED
      BY <1>3, <3>1, <3>2
  <2> QED
    BY <1>1, <1>2, <2>2, <2>3, HeaderLbasFacts DEF PutBlock
<1>4. ASSUME NEW i \in {0, 1}, pc[h] = IF i = 0 THEN "store_write0" ELSE "store_write1"
      PROVE  /\ disk' \in [Lba -> Block]
             /\ \A j \in {0, 1} : disk'[Dev(j)] \in HeaderBlocks(j)
  <2>1. m_vmgs_data[h] \in Versions /\ header_block[h][i] \in HeaderBlocks(i)
    BY <1>1, <1>4 DEF HeadersInv, WritePc
  <2>2. Target(h) = i /\ Outgoing(h) = Stored(h, i)
    BY <1>4 DEF Target, Outgoing
  <2>3. Stored(h, i) \in HeaderBlocks(i) /\ Stored(h, i) \in Block
    BY <2>1, StoredTyped, BlocksTyped DEF Stored
  <2> QED
    BY <1>1, <1>2, <2>2, <2>3, HeaderLbasFacts DEF PutBlock
<1> QED
  BY <1>3, <1>4 DEF OutPc

\* IInv is a statement about the device and about each process on its own.
LEMMA Assemble ==
  ASSUME IInv, NEW h \in Handles, Others(h), TypeOK',
         \A i \in {0, 1} : /\ disk'[Dev(i)] \in HeaderBlocks(i)
                          /\ media'[Dev(i)] \in HeaderBlocks(i),
         HeadersInv(h)', TransferInv(h)'
  PROVE  IInv'
<1>1. ASSUME NEW g \in Handles \ {h}
      PROVE  HeadersInv(g)' /\ TransferInv(g)'
  <2>1. HeadersInv(g) /\ TransferInv(g)
    BY DEF IInv
  <2>2. HeadersInv(g)'
    BY <2>1 DEF HeadersInv, Others
  <2>3. DirectBlocks(g)' = DirectBlocks(g) /\ ReadBlocks(g)' = ReadBlocks(g)
    BY DEF DirectBlocks, ReadBlocks, Others
  <2> QED
    BY <2>1, <2>2, <2>3 DEF TransferInv, Others
<1> QED
  BY <1>1 DEF IInv

USE DEF Goto, At

\* Opening keeps the invariant.
LEMMA OpenKeeps ==
  ASSUME IInv, NEW h \in Handles, NEW w \in BOOLEAN, Open(h, w)
  PROVE  IInv'
<1>1. TypeOK' /\ Others(h)
  BY DEF Open, IInv, TypeOK, Others, Pc, IoPc, LoadPc
<1>2. HeadersInv(h)' /\ TransferInv(h)'
  BY DEF Open, IInv, TypeOK, HeadersInv, TransferInv, WritePc
<1> QED
  BY <1>1, <1>2, Assemble DEF Open, IInv

\* The end of an object or of its process keeps the invariant.
LEMMA ForgetKeeps ==
  ASSUME IInv, NEW h \in Handles, Forget(h), UNCHANGED <<disk, media>>
  PROVE  IInv'
<1>1. TypeOK' /\ Others(h)
  BY ForgetLocal DEF IInv, TypeOK
<1>2. pc'[h] = "none" /\ k'[h] = 0 /\ got'[h] = <<>>
  BY ForgetLocal DEF IInv
<1>3. HeadersInv(h)' /\ TransferInv(h)'
  BY <1>2 DEF HeadersInv, TransferInv, WritePc
<1> QED
  BY <1>1, <1>3, Assemble DEF IInv

\* load_from keeps the invariant: what it accepts was read at two different
\* moments, and is a version all the same (MixedHeadersLoad).
LEMMA LoadKeeps ==
  ASSUME IInv, NEW h \in Handles, Load0(h) \/ Load1(h)
  PROVE  IInv'
<1>1. CASE Load0(h)
  <2>1. disk[Dev(0)] \in HeaderBlocks(0) /\ disk[Dev(0)] \in Block
    BY HeaderLbasFacts DEF IInv, TypeOK
  <2>2. TypeOK' /\ Others(h)
    BY <1>1, <2>1 DEF Load0, IInv, TypeOK, Others, Pc, IoPc, LoadPc
  <2>3. pc'[h] = "load1" /\ header_block'[h][0] = disk[Dev(0)]
    BY <1>1 DEF Load0, IInv, TypeOK
  <2>4. HeadersInv(h)' /\ TransferInv(h)'
    BY <1>1, <2>1, <2>3 DEF Load0, IInv, TransferInv, HeadersInv, WritePc
  <2> QED
    BY <1>1, <2>2, <2>4, Assemble DEF Load0, IInv
<1>2. ASSUME Load1(h),
             PairLoads(header_block[h][0].head, disk[Dev(1)].head, PartBlocks)
      PROVE  IInv'
  <2>1. /\ Finish(h, "ready", Nothing)
        /\ "ready" \in Pc /\ Nothing \in Results
    BY <1>2 DEF Load1, Pc, Nothing, Results
  <2>2. m_vmgs_data' = [m_vmgs_data EXCEPT ![h] =
          LoadPair(header_block[h][0].head, disk[Dev(1)].head)]
    BY <1>2 DEF Load1
  <2>3. LoadPair(header_block[h][0].head, disk[Dev(1)].head) \in Versions
    BY <1>2, MixedHeadersLoad DEF Load1, IInv, HeadersInv
  <2>4. TypeOK' /\ Others(h)
    <3>1. /\ m_vmgs_data' \in [Handles -> Versions \cup {<<>>}]
          /\ \A g \in Handles \ {h} : m_vmgs_data'[g] = m_vmgs_data[g]
      BY <2>2, <2>3 DEF IInv, TypeOK
    <3>2. /\ TypeOK /\ UNCHANGED <<disk, media, writable>>
      BY <1>2 DEF Load1, IInv
    <3>3. TypeOK'
      BY <2>1, <3>1, <3>2, FinishLocal DEF TypeOK
    <3> QED
      BY <2>1, <3>1, <3>2, <3>3, FinishLocal DEF Others
  <2>5. pc'[h] = "ready" /\ k'[h] = 0 /\ got'[h] = <<>>
    BY <2>1, FinishLocal DEF IInv
  <2>6. HeadersInv(h)' /\ TransferInv(h)'
    BY <2>2, <2>3, <2>5 DEF IInv, TypeOK, HeadersInv, TransferInv, WritePc
  <2> QED
    BY <1>2, <2>4, <2>6, Assemble DEF Load1, IInv
<1>3. ASSUME Load1(h),
             ~ PairLoads(header_block[h][0].head, disk[Dev(1)].head, PartBlocks)
      PROVE  IInv'
  BY <1>3, ForgetKeeps DEF Load1
<1> QED
  BY <1>1, <1>2, <1>3

\* A call that ends and leaves an object behind.
LEMMA FinishKeeps ==
  ASSUME IInv, NEW h \in Handles, NEW result \in Results,
         Finish(h, "ready", result),
         pc[h] \in {"ready", "reading"} \cup WritePc,
         UNCHANGED <<media, writable, m_vmgs_data>>,
         disk' \in [Lba -> Block],
         \A i \in {0, 1} : disk'[Dev(i)] \in HeaderBlocks(i)
  PROVE  IInv'
<1>1. "ready" \in Pc
  BY DEF Pc
<1>2. TypeOK' /\ Others(h)
  BY <1>1, FinishLocal DEF IInv, TypeOK, Others
<1>3. pc'[h] = "ready" /\ k'[h] = 0 /\ got'[h] = <<>>
  BY <1>1, FinishLocal DEF IInv
<1>4. HeadersInv(h)' /\ TransferInv(h)'
  BY <1>3 DEF IInv, HeadersInv, TransferInv, WritePc
<1> QED
  BY <1>2, <1>4, Assemble DEF IInv

\* Starting a write keeps the invariant.
LEMMA BeginWriteKeeps ==
  ASSUME IInv, NEW h \in Handles, NEW b \in Buffers, BeginWrite(h, b)
  PROVE  IInv'
<1>1. /\ TypeOK /\ HeadersInv(h) /\ TransferInv(h)
      /\ pc[h] = "ready" /\ k[h] = 0 /\ got[h] = <<>> /\ m_vmgs_data[h] \in Versions
  BY DEF IInv, BeginWrite, HeadersInv, TransferInv
<1>2. TypeOK' /\ Others(h)
  <2>1. Nothing \in Results
    BY DEF Nothing, Results
  <2> QED
    BY <1>1, <2>1 DEF BeginWrite, TypeOK, Others, Pc, IoPc, WritePc
<1>3. /\ pc'[h] \in {"direct", "tail_read"}
      /\ pc'[h] = "direct" => Size(b) >= BlockSize
      /\ buf'[h] = b /\ k'[h] = 0 /\ got'[h] = <<>>
      /\ m_vmgs_data'[h] \in Versions
  BY <1>1 DEF BeginWrite, TypeOK
<1>4. HeadersInv(h)'
  BY <1>3 DEF HeadersInv
<1>5. TransferInv(h)'
  <2>1. Size(b) \in Nat
    BY SizeFacts
  <2>2. Size(b) >= BlockSize => Size(b) \div BlockSize > 0
    BY <2>1, BlockSizeAssumption
  <2>3. DirectBlocks(h)' = Size(b) \div BlockSize
    BY <1>3 DEF DirectBlocks
  <2> QED
    BY <1>3, <2>2, <2>3 DEF TransferInv
<1> QED
  BY <1>2, <1>4, <1>5, Assemble DEF BeginWrite, IInv

\* A block of the direct write keeps the invariant.
LEMMA DirectWriteKeeps ==
  ASSUME IInv, NEW h \in Handles, DirectWrite(h)
  PROVE  IInv'
<1>1. /\ TypeOK /\ HeadersInv(h) /\ TransferInv(h)
      /\ pc[h] = "direct" /\ k[h] \in Nat /\ got[h] = <<>>
      /\ m_vmgs_data[h] \in Versions
  BY DEF IInv, DirectWrite, HeadersInv, TransferInv, TypeOK, WritePc
<1>2. /\ disk' \in [Lba -> Block]
      /\ \A i \in {0, 1} : disk'[Dev(i)] \in HeaderBlocks(i)
  BY <1>1, PutBlockKeeps DEF DirectWrite, OutPc
<1>3. TypeOK' /\ Others(h)
  <2>1. /\ pc' \in [Handles -> Pc] /\ k' \in [Handles -> Nat]
        /\ \A g \in Handles \ {h} : pc'[g] = pc[g] /\ k'[g] = k[g]
    <3>1. \/ /\ pc' = [pc EXCEPT ![h] = "direct"] /\ k' = [k EXCEPT ![h] = k[h] + 1]
          \/ /\ pc' = [pc EXCEPT ![h] = "tail_read"] /\ k' = [k EXCEPT ![h] = 0]
      BY DEF DirectWrite
    <3>2. pc \in [Handles -> Pc] /\ k \in [Handles -> Nat]
      BY <1>1 DEF TypeOK
    <3>3. "direct" \in Pc /\ "tail_read" \in Pc
      BY DEF Pc, IoPc, WritePc
    <3> QED
      BY <1>1, <3>1, <3>2, <3>3
  <2>2. UNCHANGED <<media, writable, m_vmgs_data, buf, single_block, header_block,
                    got, ret>>
    BY DEF DirectWrite
  <2> QED
    BY <1>1, <1>2, <2>1, <2>2 DEF TypeOK, Others
<1>4. HeadersInv(h)'
  BY <1>1 DEF DirectWrite, HeadersInv, TypeOK, WritePc
<1>5. TransferInv(h)'
  <2>1. DirectBlocks(h)' = DirectBlocks(h)
    BY DEF DirectWrite, DirectBlocks
  <2> QED
    BY <1>1, <2>1 DEF DirectWrite, TransferInv, TypeOK
<1> QED
  BY <1>2, <1>3, <1>4, <1>5, Assemble DEF DirectWrite, IInv

\* Reading the tail block keeps the invariant.
LEMMA TailReadKeeps ==
  ASSUME IInv, NEW h \in Handles, TailRead(h)
  PROVE  IInv'
<1>1. TypeOK' /\ Others(h)
  BY DEF TailRead, Served, IInv, TypeOK, Others, Pc, IoPc, WritePc
<1>2. HeadersInv(h)' /\ TransferInv(h)'
  BY DEF TailRead, IInv, TypeOK, HeadersInv, TransferInv, WritePc
<1> QED
  BY <1>1, <1>2, Assemble DEF TailRead, IInv

\* Writing the tail, and update_data_size after it, keeps the invariant: a size
\* that does not fit leaves the object's headers alone.
LEMMA TailWriteKeeps ==
  ASSUME IInv, NEW h \in Handles, TailWrite(h)
  PROVE  IInv'
<1>1. /\ TypeOK /\ HeadersInv(h) /\ TransferInv(h)
      /\ pc[h] = "tail_write" /\ m_vmgs_data[h] \in Versions
  BY DEF IInv, TailWrite, HeadersInv, WritePc
<1>2. /\ disk' \in [Lba -> Block]
      /\ \A i \in {0, 1} : disk'[Dev(i)] \in HeaderBlocks(i)
  BY <1>1, PutBlockKeeps DEF TailWrite, OutPc
<1>3. CASE Fits(m_vmgs_data[h], Size(buf[h]))
  <2> DEFINE v == Resize(m_vmgs_data[h], Size(buf[h]))
  <2>1. v \in Versions
    <3>1. Size(buf[h]) \in Nat
      BY <1>1, SizeFacts DEF TypeOK
    <3>2. Size(buf[h]) \in 0 .. MaxSize
      BY <1>1, <1>3, <3>1, OriginalTyped, VersionFacts DEF Fits
    <3> QED
      BY <1>1, <3>2, VersionFacts
  <2>2. /\ m_vmgs_data' = [m_vmgs_data EXCEPT ![h] = v]
        /\ pc' = [pc EXCEPT ![h] = "store_read0"]
        /\ UNCHANGED <<buf, k, single_block, header_block, got, ret, media, writable>>
    BY <1>3 DEF TailWrite
  <2> HIDE DEF v
  <2>3. TypeOK' /\ Others(h)
    BY <1>1, <1>2, <2>1, <2>2 DEF TypeOK, Others, Pc, IoPc, WritePc
  <2>4. HeadersInv(h)' /\ TransferInv(h)'
    BY <1>1, <2>1, <2>2 DEF TypeOK, HeadersInv, TransferInv, WritePc
  <2> QED
    BY <1>2, <2>2, <2>3, <2>4, Assemble DEF IInv
<1>4. CASE ~ Fits(m_vmgs_data[h], Size(buf[h]))
  <2>1. Result("size_error", <<>>) \in Results
    BY DEF Result, Results
  <2> QED
    BY <1>1, <1>2, <1>4, <2>1, FinishKeeps DEF TailWrite, WritePc
<1> QED
  BY <1>3, <1>4

\* The four device calls of store_to keep the invariant.
LEMMA StoreToKeeps ==
  ASSUME IInv, NEW h \in Handles, StoreTo(h)
  PROVE  IInv'
<1>1. /\ TypeOK /\ HeadersInv(h) /\ TransferInv(h)
      /\ pc[h] \in {"store_read0", "store_read1", "store_write0", "store_write1"}
      /\ m_vmgs_data[h] \in Versions
  BY DEF IInv, StoreTo, StoreRead, StoreWrite0, StoreWrite1, HeadersInv, WritePc
<1>2. ASSUME NEW i \in {0, 1},
             NEW from \in {"store_read0", "store_read1"},
             NEW to \in {"store_read1", "store_write0"},
             StoreRead(h, i, from, to),
             <<i, from, to>> \in {<<0, "store_read0", "store_read1">>,
                                 <<1, "store_read1", "store_write0">>}
      PROVE  IInv'
  <2>1. disk[Dev(i)] \in HeaderBlocks(i) /\ disk[Dev(i)] \in Block
    BY HeaderLbasFacts DEF IInv, TypeOK
  <2>2. TypeOK' /\ Others(h)
    BY <1>1, <1>2, <2>1 DEF StoreRead, TypeOK, Others, Pc, IoPc, WritePc
  <2>3. HeadersInv(h)'
    BY <1>1, <1>2, <2>1 DEF StoreRead, TypeOK, HeadersInv, WritePc
  <2>4. TransferInv(h)'
    BY <1>1, <1>2 DEF StoreRead, TypeOK, TransferInv
  <2> QED
    BY <1>2, <2>2, <2>3, <2>4, Assemble DEF StoreRead, IInv
<1>3. CASE StoreWrite0(h)
  <2>1. /\ disk' \in [Lba -> Block]
        /\ \A i \in {0, 1} : disk'[Dev(i)] \in HeaderBlocks(i)
    BY <1>3, PutBlockKeeps DEF StoreWrite0, OutPc
  <2>2. TypeOK' /\ Others(h)
    BY <1>1, <1>3, <2>1 DEF StoreWrite0, TypeOK, Others, Pc, IoPc, WritePc
  <2>3. HeadersInv(h)' /\ TransferInv(h)'
    BY <1>1, <1>3 DEF StoreWrite0, TypeOK, HeadersInv, TransferInv, WritePc
  <2> QED
    BY <1>3, <2>1, <2>2, <2>3, Assemble DEF StoreWrite0, IInv
<1>4. CASE StoreWrite1(h)
  <2>1. /\ disk' \in [Lba -> Block]
        /\ \A i \in {0, 1} : disk'[Dev(i)] \in HeaderBlocks(i)
    BY <1>4, PutBlockKeeps DEF StoreWrite1, OutPc
  <2>2. Result("written", buf[h].bytes) \in Results
    BY <1>1, SizeFacts DEF TypeOK, Result, Results
  <2> QED
    BY <1>4, <2>1, <2>2, FinishKeeps DEF StoreWrite1, WritePc
<1> QED
  BY <1>2, <1>3, <1>4 DEF StoreTo

\* read() keeps the invariant.
LEMMA ReadKeeps ==
  ASSUME IInv, NEW h \in Handles, BeginRead(h) \/ ReadBlock(h) \/ ReadNothing(h)
  PROVE  IInv'
<1>1. /\ TypeOK /\ HeadersInv(h) /\ TransferInv(h)
      /\ pc[h] \in {"ready", "reading"} /\ m_vmgs_data[h] \in Versions
      /\ k[h] \in Nat /\ got[h] \in Seq(Byte)
      /\ disk \in [Lba -> Block]
      /\ \A i \in {0, 1} : disk[Dev(i)] \in HeaderBlocks(i)
  BY DEF IInv, BeginRead, ReadBlock, ReadNothing, HeadersInv, TypeOK
<1> DEFINE size == ActiveLocator(m_vmgs_data[h]).data_size
<1>2. size \in Nat
  BY <1>1, VersionFacts DEF Locator
<1>3. ReadBlocks(h) \in Nat /\ size <= ReadBlocks(h) * BlockSize
  BY <1>2, BlockSizeAssumption, CeilBlocks DEF ReadBlocks, BlocksOf
<1>4. CASE BeginRead(h) /\ ReadBlocks(h) = 0
  <2>1. Result("read", <<>>) \in Results
    BY DEF Result, Results
  <2> QED
    BY <1>1, <1>4, <2>1, FinishKeeps DEF BeginRead
<1>5. CASE BeginRead(h) /\ ReadBlocks(h) # 0
  <2>1. Nothing \in Results
    BY DEF Nothing, Results
  <2>2. TypeOK' /\ Others(h)
    BY <1>1, <1>5, <2>1 DEF BeginRead, TypeOK, Others, Pc, IoPc
  <2>3. ReadBlocks(h)' = ReadBlocks(h)
    BY <1>5 DEF BeginRead, ReadBlocks
  <2>4. pc'[h] = "reading" /\ k'[h] = 0 /\ got'[h] = <<>>
    BY <1>1, <1>5 DEF BeginRead, TypeOK, TransferInv
  <2>5. TransferInv(h)'
    BY <1>3, <1>5, <2>3, <2>4, BlockSizeAssumption DEF TransferInv
  <2>6. HeadersInv(h)'
    BY <1>1, <1>5, <2>4 DEF BeginRead, HeadersInv
  <2> QED
    BY <1>5, <2>2, <2>5, <2>6, Assemble DEF BeginRead, IInv
<1>6. CASE ReadBlock(h)
  <2> DEFINE bytes == got[h] \o disk[Dev(Target(h))].body
  <2>1. /\ pc[h] = "reading" /\ Dev(Target(h)) \in Lba
        /\ k[h] < ReadBlocks(h) /\ Len(got[h]) = k[h] * BlockSize
    BY <1>1, <1>6 DEF ReadBlock, Served, TransferInv
  <2>2. /\ disk[Dev(Target(h))].body \in Seq(Byte)
        /\ Len(disk[Dev(Target(h))].body) = BlockSize
    BY <1>1, <2>1, BlocksTyped
  <2>3. bytes \in Seq(Byte) /\ Len(bytes) = Len(got[h]) + BlockSize
    <3>1. ASSUME NEW s \in Seq(Byte), NEW t \in Seq(Byte)
          PROVE  s \o t \in Seq(Byte) /\ Len(s \o t) = Len(s) + Len(t)
      OBVIOUS
    <3> QED
      BY <1>1, <2>2, <3>1
  <2>4. Len(bytes) = (k[h] + 1) * BlockSize
    BY <1>1, <1>3, <2>1, <2>3, BlockSizeAssumption, NextBlock
  <2> HIDE DEF bytes
  <2>5. CASE k[h] + 1 < ReadBlocks(h)
    <3>1. /\ k' = [k EXCEPT ![h] = @ + 1] /\ got' = [got EXCEPT ![h] = bytes]
          /\ UNCHANGED <<disk, media, pc, writable, m_vmgs_data, buf, single_block,
                         header_block, ret>>
      BY <1>6, <2>5 DEF ReadBlock, bytes
    <3>2. TypeOK' /\ Others(h)
      BY <1>1, <2>3, <3>1 DEF TypeOK, Others
    <3>3. HeadersInv(h)'
      BY <1>1, <3>1 DEF HeadersInv
    <3>4. ReadBlocks(h)' = ReadBlocks(h)
      BY <3>1 DEF ReadBlocks
    <3>5. k'[h] = k[h] + 1 /\ got'[h] = bytes /\ pc'[h] = "reading"
      BY <1>1, <2>1, <3>1 DEF TypeOK
    <3>6. TransferInv(h)'
      BY <2>4, <2>5, <3>4, <3>5 DEF TransferInv
    <3> QED
      BY <3>1, <3>2, <3>3, <3>6, Assemble DEF IInv
  <2>6. CASE ~ (k[h] + 1 < ReadBlocks(h))
    <3>1. size <= Len(bytes)
      <4>1. k[h] + 1 = ReadBlocks(h)
        BY <1>1, <1>3, <2>1, <2>6
      <4> QED
        BY <1>3, <2>4, <4>1
    <3>2. SubSeq(bytes, 1, size) \in Seq(Byte)
      BY <1>2, <2>3, <3>1
    <3>3. Result("read", SubSeq(bytes, 1, size)) \in Results
      BY <3>2 DEF Result, Results
    <3>4. /\ Finish(h, "ready", Result("read", SubSeq(bytes, 1, size)))
          /\ UNCHANGED <<disk, media, writable, m_vmgs_data>>
      BY <1>6, <2>6 DEF ReadBlock, bytes
    <3> QED
      BY <1>1, <3>3, <3>4, FinishKeeps
  <2> QED
    BY <2>5, <2>6
<1>7. CASE ReadNothing(h)
  <2> DEFINE zeroes == [i \in 1 .. size |-> Zero]
  <2>1. zeroes \in Seq(Byte)
    BY <1>2, BytesAssumption
  <2>2. Result("read", zeroes) \in Results
    BY <2>1 DEF Result, Results
  <2>3. Finish(h, "ready", Result("read", zeroes)) /\ UNCHANGED <<disk, media, writable, m_vmgs_data>>
    BY <1>7 DEF ReadNothing
  <2> QED
    BY <1>1, <2>2, <2>3, FinishKeeps
<1> QED
  BY <1>4, <1>5, <1>6, <1>7

---------------------------------------------------------------------------
(* The invariant, and what follows from it.                                *)

\* The invariant holds at first.
LEMMA InitHolds == Init => IInv
<1> SUFFICES ASSUME Init PROVE IInv
  OBVIOUS
<1>1. Image \in [Lba -> Block]
  BY BlocksTyped, ImageAssumption
<1>2. Nothing \in Results
  BY DEF Nothing, Results
<1>3. EmptyBlock \in Block /\ [i \in {0, 1} |-> EmptyBlock] \in [{0, 1} -> Block]
  BY BlocksTyped
<1>4. TypeOK
  BY <1>1, <1>2, <1>3 DEF Init, TypeOK, Pc
<1>5. \A h \in Handles : HeadersInv(h) /\ TransferInv(h)
  BY DEF Init, HeadersInv, TransferInv, WritePc
<1> QED
  BY <1>4, <1>5, BlocksTyped DEF Init, IInv

\* Every call keeps the invariant when it starts.
LEMMA CallKeeps ==
  ASSUME IInv, NEW h \in Handles, Call(h)
  PROVE  IInv'
<1>1. CASE \E b \in Buffers : WriteRefused(h, b)
  <2>1. Result("value_error", <<>>) \in Results
    BY DEF Result, Results
  <2> QED
    BY <1>1, <2>1, FinishKeeps DEF WriteRefused, IInv, TypeOK
<1>2. CASE Close(h)
  <2>1. TypeOK' /\ Others(h)
    BY <1>2 DEF Close, IInv, TypeOK, Others, Pc
  <2>2. HeadersInv(h)' /\ TransferInv(h)'
    BY <1>2 DEF Close, IInv, TypeOK, HeadersInv, TransferInv, WritePc
  <2> QED
    BY <1>2, <2>1, <2>2, Assemble DEF Close, IInv
<1>3. CASE Gone(h)
  BY <1>3, ForgetKeeps DEF Gone
<1>4. ASSUME NEW kw \in Kwargs, Open(h, Writable(kw))
      PROVE  IInv'
  <2>1. Writable(kw) \in BOOLEAN
    BY DEF Writable
  <2> QED
    BY <1>4, <2>1, OpenKeeps
<1> QED
  BY <1>1, <1>2, <1>3, <1>4, BeginWriteKeeps, ReadKeeps DEF Call

\* Every step of a call keeps the invariant.
LEMMA StepKeeps ==
  ASSUME IInv, NEW h \in Handles, Step(h)
  PROVE  IInv'
<1>2. CASE LoadFails(h)
  BY <1>2, ForgetKeeps DEF LoadFails
<1>3. CASE IoFails(h)
  <2>1. Result("io_error", <<>>) \in Results
    BY DEF Result, Results
  <2>2. /\ disk' \in [Lba -> Block]
        /\ \A i \in {0, 1} : disk'[Dev(i)] \in HeaderBlocks(i)
    <3>1. CASE UNCHANGED disk
      BY <3>1 DEF IInv, TypeOK
    <3>2. CASE pc[h] \in OutPc /\ Served(h) /\ PutBlock(h)
      BY <3>2, PutBlockKeeps
    <3> QED
      BY <1>3, <3>1, <3>2 DEF IoFails
  <2>3. pc[h] \in {"ready", "reading"} \cup WritePc
    BY <1>3 DEF IoFails, IoPc
  <2> QED
    BY <1>3, <2>1, <2>2, <2>3, FinishKeeps DEF IoFails
<1> QED
  BY <1>2, <1>3, LoadKeeps, DirectWriteKeeps, TailReadKeeps,
     TailWriteKeeps, StoreToKeeps, ReadKeeps DEF Step

\* Crashes, write-back and loss of power keep the invariant: media is only ever
\* overwritten with blocks of disk, and disk with media.
LEMMA EnvironmentKeeps ==
  ASSUME IInv, (\E b \in Lba : Writeback(b)) \/ PowerLoss \/ UNCHANGED vars
  PROVE  IInv'
<1>1. ASSUME UNCHANGED <<pc, m_vmgs_data, buf, k, header_block, got>>
      PROVE  \A h \in Handles : HeadersInv(h)' /\ TransferInv(h)'
  BY <1>1 DEF IInv, HeadersInv, TransferInv, DirectBlocks, ReadBlocks
<1>2. ASSUME NEW b \in Lba, Writeback(b)
      PROVE  IInv'
  <2>1. TypeOK'
    BY <1>2 DEF Writeback, IInv, TypeOK
  <2>2. \A i \in {0, 1} : media'[Dev(i)] \in HeaderBlocks(i)
    BY <1>2, HeaderLbasFacts DEF Writeback, IInv, TypeOK
  <2> QED
    BY <1>1, <1>2, <2>1, <2>2 DEF Writeback, IInv
<1>3. CASE PowerLoss
  <2>1. Nothing \in Results
    BY DEF Nothing, Results
  <2>2. TypeOK'
    BY <1>3, <2>1, BlocksTyped DEF PowerLoss, IInv, TypeOK, Pc
  <2>3. \A h \in Handles : HeadersInv(h)' /\ TransferInv(h)'
    BY <1>3 DEF PowerLoss, HeadersInv, TransferInv, WritePc
  <2> QED
    BY <1>3, <2>2, <2>3 DEF PowerLoss, IInv
<1>4. CASE UNCHANGED vars
  <2>1. TypeOK'
    BY <1>4 DEF vars, IInv, TypeOK
  <2> QED
    BY <1>1, <1>4, <2>1 DEF vars, IInv
<1> QED
  BY <1>2, <1>3, <1>4

\* Every step keeps the invariant.
LEMMA NextKeeps == IInv /\ [Next]_vars => IInv'
<1> SUFFICES ASSUME IInv, [Next]_vars PROVE IInv'
  OBVIOUS
<1>1. ASSUME NEW h \in Handles, Crash(h) PROVE IInv'
  BY <1>1, ForgetKeeps DEF Crash
<1> QED
  BY <1>1, CallKeeps, StepKeeps, EnvironmentKeeps DEF Next

\* The invariant holds in every state: whatever the sizes of the device, the
\* partition and the buffers, and however many processes there are.
THEOREM Invariance == Spec => []IInv
  BY InitHolds, NextKeeps, PTL DEF Spec

\* Every variable keeps its type, and every block that looks like a header
\* was in the image or is a stored version.
THEOREM TypeCorrect == Spec => []TypeOK
<1>1. IInv => TypeOK
  BY DEF IInv
<1> QED
  BY <1>1, Invariance, PTL

\* No sequence of calls, failures, crashes and losses of power, of any number
\* of processes, leaves a file that load_from refuses.
THEOREM AlwaysLoads == Spec => []ImageLoads
<1>1. IInv => ImageLoads
  BY MixedHeadersLoad DEF IInv, ImageLoads, Loads, PairLoads
<1> QED
  BY <1>1, Invariance, PTL

\* Nor does it change anything in the header blocks but the active data_size,
\* within the allocation.
THEOREM OnlyResizes == Spec => []HeadersOnlyResize
<1>1. IInv => HeadersOnlyResize
  <2> SUFFICES ASSUME IInv, NEW d \in {disk, media}
               PROVE  /\ HeadersOn(d) \in Versions
                      /\ \A b \in HeaderLbas : d[b].body = Image[b].body
    BY DEF HeadersOnlyResize
  <2>1. d[Dev(0)] \in HeaderBlocks(0) /\ d[Dev(1)] \in HeaderBlocks(1)
    BY DEF IInv
  <2>2. HeadersOn(d) \in Versions
    BY <2>1, MixedHeadersLoad DEF HeadersOn
  <2>3. \A b \in HeaderLbas : d[b].body = Image[b].body
    BY <2>1 DEF HeaderLbas, HeaderBlocks, BlockOf
  <2> QED
    BY <2>2, <2>3
<1> QED
  BY <1>1, Invariance, PTL

---------------------------------------------------------------------------
(* Blocks that are not the file's.                                         *)

\* A data block that goes out is in the allocation, or goes back as it came.
LEMMA TargetIsActive ==
  ASSUME IInv, BuffersFit, NEW h \in Handles,
         \/ pc[h] = "direct"
         \/ pc[h] \in {"tail_read", "tail_write"} /\ TailBytes(h) # <<>>
  PROVE  Dev(Target(h)) \in ActiveLbas
<1> DEFINE l == ActiveLocator(Original)
           n == IF pc[h] = "direct" THEN k[h] ELSE DirectBlocks(h)
           size == Size(buf[h])
<1>1. /\ TypeOK /\ TransferInv(h) /\ m_vmgs_data[h] \in Versions
      /\ k[h] \in Nat /\ buf[h] \in Buffers \cup {NoBuffer}
  BY DEF IInv, TypeOK, HeadersInv, WritePc
<1>2. /\ l.allocation_lba \in Nat /\ l.allocation_num \in Nat
      /\ l.allocation_num * BlockSize < U64
  BY ImageAssumption, OriginalTyped DEF Locator
<1>3. MaxSize = l.allocation_num * BlockSize
  <2>1. l.allocation_num * BlockSize \in Nat
    BY <1>2, BlockSizeAssumption, NextBlock
  <2> QED
    BY <1>2, <2>1, WidthAssumption, SmallRemainder DEF MaxSize, Capacity
<1>4. size \in Nat /\ size <= MaxSize
  <2>1. CASE buf[h] \in Buffers
    BY <1>1, <2>1, SizeFacts DEF BuffersFit
  <2>2. CASE buf[h] = NoBuffer
    BY <2>2, OriginalTyped DEF Size, NoBuffer
  <2> QED
    BY <1>1, <2>1, <2>2
<1>5. /\ DirectBlocks(h) \in Nat
      /\ DirectBlocks(h) * BlockSize <= size
  BY <1>4, BlockSizeAssumption, FloorBlocks DEF DirectBlocks
<1>6. n \in Nat /\ n < l.allocation_num
  <2>1. CASE pc[h] = "direct"
    <3>1. k[h] < DirectBlocks(h)
      BY <1>1, <2>1 DEF TransferInv
    <3>2. DirectBlocks(h) * BlockSize <= l.allocation_num * BlockSize
      BY <1>2, <1>3, <1>4, <1>5, BlockSizeAssumption
    <3>3. DirectBlocks(h) <= l.allocation_num
      BY <1>2, <1>5, <3>2, BlockSizeAssumption, Quotient
    <3> QED
      BY <1>1, <1>2, <1>5, <2>1, <3>1, <3>3
  <2>2. CASE pc[h] # "direct" /\ TailBytes(h) # <<>>
    <3>1. DirectBlocks(h) * BlockSize < size
      BY <1>1, <1>4, <1>5, <2>2, SizeFacts, BlockSizeAssumption DEF TailBytes
    <3>2. DirectBlocks(h) * BlockSize < l.allocation_num * BlockSize
      BY <1>2, <1>3, <1>4, <1>5, <3>1, BlockSizeAssumption
    <3>3. DirectBlocks(h) < l.allocation_num
      BY <1>2, <1>5, <3>2, BlockSizeAssumption, Quotient
    <3> QED
      BY <1>5, <2>2, <3>3
  <2> QED
    BY <2>1, <2>2
<1>7. Target(h) = l.allocation_lba + n
  BY <1>1, VersionFacts DEF Target
<1> QED
  BY <1>2, <1>6, <1>7 DEF ActiveLbas, AllocationLbas

\* A device write leaves the blocks that are not the file's as the image has
\* them, also when the tail block is one of them: nothing of it changes.
LEMMA PutBlockIsLocal ==
  ASSUME IInv, ForeignInv, BuffersFit,
         NEW h \in Handles, pc[h] \in OutPc, Served(h), PutBlock(h)
  PROVE  \A b \in Lba \ (HeaderLbas \cup ActiveLbas) : disk'[b] = Image[b]
<1> SUFFICES ASSUME NEW b \in Lba \ (HeaderLbas \cup ActiveLbas)
             PROVE  disk'[b] = Image[b]
  OBVIOUS
<1>1. disk[b] = Image[b] /\ disk \in [Lba -> Block]
  BY DEF ForeignInv, ForeignIntact, IInv, TypeOK
<1>2. CASE b # Dev(Target(h))
  BY <1>1, <1>2 DEF PutBlock
<1>3. CASE b = Dev(Target(h))
  <2>1. pc[h] = "tail_write"
    <3>1. pc[h] # "direct"
      BY <1>3, TargetIsActive
    <3>2. pc[h] \notin {"store_write0", "store_write1"}
      BY <1>3 DEF Target, HeaderLbas
    <3> QED
      BY <3>1, <3>2 DEF OutPc
  <2>2. TailBytes(h) = <<>>
    BY <1>3, <2>1, TargetIsActive
  <2>3. single_block[h] = Image[b] /\ Image[b] \in Block
    BY <1>3, <2>1, BlocksTyped DEF ForeignInv
  <2>4. Overlay(Image[b], <<>>) = Image[b]
    BY <2>3, OverlayNothing
  <2>5. Outgoing(h) = Image[b]
    BY <2>1, <2>2, <2>3, <2>4 DEF Outgoing
  <2> QED
    BY <1>1, <1>3, <2>5 DEF PutBlock
<1> QED
  BY <1>2, <1>3

\* The steps, as ForeignIntact sees them.
LEMMA DiskSteps ==
  ASSUME IInv, [Next]_vars
  PROVE  \/ UNCHANGED disk
         \/ "power" \in Faults /\ disk' = media
         \/ \E h \in Handles : pc[h] \in OutPc /\ Served(h) /\ PutBlock(h)
<1>1. ASSUME NEW h \in Handles, Call(h)
      PROVE  UNCHANGED disk
  BY <1>1 DEF Call, Open, WriteRefused, BeginWrite, BeginRead, Close, Gone
<1>2. ASSUME NEW h \in Handles, Step(h)
      PROVE  UNCHANGED disk \/ (pc[h] \in OutPc /\ Served(h) /\ PutBlock(h))
  <2>1. CASE DirectWrite(h) \/ TailWrite(h) \/ StoreWrite0(h) \/ StoreWrite1(h)
    BY <2>1 DEF DirectWrite, TailWrite, StoreWrite0, StoreWrite1, OutPc
  <2>2. CASE Load0(h) \/ Load1(h) \/ TailRead(h) \/ ReadBlock(h) \/ ReadNothing(h)
    BY <2>2 DEF Load0, Load1, TailRead, ReadBlock, ReadNothing
  <2>3. CASE LoadFails(h) \/ IoFails(h)
    BY <2>3 DEF LoadFails, IoFails
  <2>4. CASE StoreTo(h)
    BY <2>1, <2>4 DEF StoreTo, StoreRead
  <2> QED
    BY <1>2, <2>1, <2>2, <2>3, <2>4 DEF Step
<1>3. ASSUME NEW h \in Handles, Crash(h)
      PROVE  UNCHANGED disk
  BY <1>3 DEF Crash
<1>4. ASSUME NEW b \in Lba, Writeback(b)
      PROVE  UNCHANGED disk
  BY <1>4 DEF Writeback
<1> QED
  BY <1>1, <1>2, <1>3, <1>4 DEF Next, PowerLoss, vars

\* A step leaves every block of media alone or takes over that of disk.
LEMMA MediaSteps ==
  ASSUME IInv, [Next]_vars
  PROVE  \A b \in Lba : media'[b] = media[b] \/ media'[b] = disk[b]
<1>1. ASSUME NEW h \in Handles, Call(h) \/ Step(h) \/ Crash(h)
      PROVE  UNCHANGED media
  <2>1. CASE Call(h)
    BY <2>1 DEF Call, Open, WriteRefused, BeginWrite, BeginRead, Close, Gone
  <2>2. CASE Step(h)
    BY <2>2 DEF Step, Load0, Load1, DirectWrite, TailRead, TailWrite,
         StoreTo, StoreRead, StoreWrite0, StoreWrite1, ReadBlock,
         ReadNothing, LoadFails, IoFails
  <2> QED
    BY <1>1, <2>1, <2>2 DEF Crash
<1>2. ASSUME NEW b \in Lba, Writeback(b)
      PROVE  \A c \in Lba : media'[c] = media[c] \/ media'[c] = disk[c]
  BY <1>2 DEF Writeback, IInv, TypeOK
<1> QED
  BY <1>1, <1>2 DEF Next, PowerLoss, vars

\* What TailWrite finds of process g is what TailRead left.
Waiting(g) ==
  /\ pc[g] = "tail_write"
  /\ UNCHANGED <<buf[g], m_vmgs_data[g], single_block[g]>>

\* A process is about to write the tail block only after it has read it.
LEMMA TailSteps ==
  ASSUME IInv, [Next]_vars, NEW g \in Handles, pc'[g] = "tail_write"
  PROVE  TailRead(g) \/ Waiting(g)
<1>1. TypeOK
  BY DEF IInv
<1>2. ASSUME NEW h \in Handles, NEW to \in Pc, NEW result, to # "tail_write",
             Finish(h, to, result),
             \/ UNCHANGED m_vmgs_data
             \/ \A f \in Handles \ {h} : m_vmgs_data'[f] = m_vmgs_data[f]
      PROVE  Waiting(g)
  <2>1. g # h
    BY <1>1, <1>2 DEF Finish, TypeOK
  <2> QED
    BY <1>1, <1>2, <2>1 DEF Finish, TypeOK, Waiting
<1>3. ASSUME NEW h \in Handles, Forget(h) PROVE Waiting(g)
  <2>1. Finish(h, "none", Nothing) /\ "none" \in Pc
    BY <1>3 DEF Forget, Pc
  <2>2. \A f \in Handles \ {h} : m_vmgs_data'[f] = m_vmgs_data[f]
    BY <1>1, <1>3 DEF Forget, TypeOK
  <2> QED
    BY <1>2, <2>1, <2>2
<1> "ready" \in Pc
  BY DEF Pc
<1>4. ASSUME NEW h \in Handles, Call(h) PROVE Waiting(g)
  <2>1. ASSUME NEW w, Open(h, w) PROVE Waiting(g)
    BY <1>1, <2>1 DEF Open, TypeOK, Waiting
  <2>2. ASSUME NEW b \in Buffers, WriteRefused(h, b) PROVE Waiting(g)
    BY <1>2, <2>2 DEF WriteRefused
  <2>3. ASSUME NEW b \in Buffers, BeginWrite(h, b) PROVE Waiting(g)
    BY <1>1, <2>3 DEF BeginWrite, TypeOK, Waiting
  <2>4. ASSUME BeginRead(h) PROVE Waiting(g)
    <3>1. CASE ReadBlocks(h) = 0
      BY <1>2, <2>4, <3>1 DEF BeginRead
    <3>2. CASE ReadBlocks(h) # 0
      BY <1>1, <2>4, <3>2 DEF BeginRead, TypeOK, Waiting
    <3> QED
      BY <3>1, <3>2
  <2>5. ASSUME Close(h) PROVE Waiting(g)
    BY <1>1, <2>5 DEF Close, TypeOK, Waiting
  <2> QED
    BY <1>3, <1>4, <2>1, <2>2, <2>3, <2>4, <2>5 DEF Call, Gone
<1>5. ASSUME NEW h \in Handles, Step(h) PROVE TailRead(g) \/ Waiting(g)
  <2>1. CASE Load0(h) \/ StoreTo(h)
    <3>1. CASE Load0(h)
      BY <1>1, <3>1 DEF Load0, TypeOK, Waiting
    <3>2. CASE StoreRead(h, 0, "store_read0", "store_read1")
               \/ StoreRead(h, 1, "store_read1", "store_write0")
      BY <1>1, <3>2 DEF StoreRead, TypeOK, Waiting
    <3>3. CASE StoreWrite0(h)
      BY <1>1, <3>3 DEF StoreWrite0, TypeOK, Waiting
    <3>4. CASE StoreWrite1(h)
      BY <1>2, <3>4 DEF StoreWrite1
    <3> QED
      BY <2>1, <3>1, <3>2, <3>3, <3>4 DEF StoreTo
  <2>2. CASE Load1(h)
    <3>1. CASE Forget(h)
      BY <1>3, <3>1
    <3>2. CASE ~ Forget(h)
      <4>1. /\ Finish(h, "ready", Nothing)
            /\ \A f \in Handles \ {h} : m_vmgs_data'[f] = m_vmgs_data[f]
        BY <1>1, <2>2, <3>2 DEF Load1, TypeOK
      <4> QED
        BY <1>2, <4>1
    <3> QED
      BY <3>1, <3>2
  <2>3. CASE DirectWrite(h)
    BY <1>1, <2>3 DEF DirectWrite, TypeOK, Waiting
  <2>4. CASE TailRead(h)
    BY <1>1, <2>4 DEF TailRead, TypeOK, Waiting
  <2>5. CASE TailWrite(h)
    <3>1. CASE Fits(m_vmgs_data[h], Size(buf[h]))
      <4>1. /\ UNCHANGED <<buf, single_block>>
            /\ pc' = [pc EXCEPT ![h] = "store_read0"]
            /\ \A f \in Handles \ {h} : m_vmgs_data'[f] = m_vmgs_data[f]
        BY <1>1, <2>5, <3>1 DEF TailWrite, TypeOK
      <4> QED
        BY <1>1, <4>1 DEF TypeOK, Waiting
    <3>2. CASE ~ Fits(m_vmgs_data[h], Size(buf[h]))
      BY <1>2, <2>5, <3>2 DEF TailWrite
    <3> QED
      BY <3>1, <3>2
  <2>6. CASE ReadBlock(h)
    <3>1. CASE k[h] + 1 < ReadBlocks(h)
      BY <2>6, <3>1 DEF ReadBlock, Waiting
    <3>2. CASE ~ (k[h] + 1 < ReadBlocks(h))
      BY <1>2, <2>6, <3>2 DEF ReadBlock
    <3> QED
      BY <3>1, <3>2
  <2>7. CASE IoFails(h)
    BY <1>2, <2>7 DEF IoFails
  <2>8. CASE LoadFails(h)
    BY <1>3, <2>8 DEF LoadFails
  <2>9. CASE ReadNothing(h)
    BY <1>2, <2>9 DEF ReadNothing
  <2> QED
    BY <1>5, <2>1, <2>2, <2>3, <2>4, <2>5, <2>6, <2>7, <2>8, <2>9 DEF Step
<1>6. CASE \E b \in Lba : Writeback(b)
  BY <1>6 DEF Writeback, Waiting
<1>7. CASE UNCHANGED vars
  BY <1>7 DEF vars, Waiting
<1> QED
  BY <1>3, <1>4, <1>5, <1>6, <1>7 DEF Next, Crash, PowerLoss

\* While every buffer fits, no write of any process reaches a block that is
\* not the file's, on the device or after a loss of power.
THEOREM ForeignBlocksIntact ==
  ASSUME BuffersFit
  PROVE  Spec => []ForeignIntact
<1>1. Init => ForeignInv
  BY DEF Init, ForeignInv, ForeignIntact
<1>2. IInv /\ ForeignInv /\ [Next]_vars => ForeignInv'
  <2> SUFFICES ASSUME IInv, ForeignInv, [Next]_vars
               PROVE  ForeignInv'
    OBVIOUS
  <2>1. \A b \in Lba \ (HeaderLbas \cup ActiveLbas) : disk'[b] = Image[b]
    BY DiskSteps, PutBlockIsLocal DEF ForeignInv, ForeignIntact
  <2>2. \A b \in Lba \ (HeaderLbas \cup ActiveLbas) : media'[b] = Image[b]
    BY MediaSteps DEF ForeignInv, ForeignIntact
  <2>3. ASSUME NEW g \in Handles, pc'[g] = "tail_write",
               Dev(Target(g))' \notin ActiveLbas
        PROVE  single_block'[g] = Image[Dev(Target(g))']
    <3>1. CASE TailRead(g)
      <4>1. /\ Target(g)' = Target(g) /\ Dev(Target(g)) \in Lba
            /\ single_block'[g] = disk[Dev(Target(g))]
        BY <2>3, <3>1 DEF TailRead, Target, DirectBlocks, Served, IInv, TypeOK
      <4>2. Dev(Target(g)) \notin HeaderLbas
        <5>1. /\ m_vmgs_data[g] \in Versions /\ DirectBlocks(g) \in Nat
          <6>1. TypeOK /\ HeadersInv(g) /\ pc[g] = "tail_read"
            BY <3>1 DEF TailRead, IInv
          <6> QED
            BY <6>1, PartsTyped DEF HeadersInv, WritePc
        <5>2. Target(g) \in Nat /\ Target(g) >= 2
          <6>1. /\ ActiveLocator(m_vmgs_data[g]).allocation_lba \in Nat
                /\ ActiveLocator(m_vmgs_data[g]).allocation_lba >= 2
            BY <5>1, VersionFacts DEF Locator
          <6> QED
            BY <3>1, <5>1, <6>1 DEF TailRead, Target
        <5> QED
          BY <5>2, HeaderLbasFacts DEF HeaderLbas
      <4> QED
        BY <2>3, <4>1, <4>2 DEF Dev, ForeignInv, ForeignIntact
    <3>2. CASE Waiting(g)
      <4>1. Target(g)' = Target(g)
        BY <2>3, <3>2 DEF Waiting, Target, DirectBlocks
      <4> QED
        BY <2>3, <3>2, <4>1 DEF Waiting, Dev, ForeignInv
    <3> QED
      BY <2>3, <3>1, <3>2, TailSteps
  <2> QED
    BY <2>1, <2>2, <2>3 DEF ForeignInv, ForeignIntact
<1>3. ForeignInv => ForeignIntact
  BY DEF ForeignInv
<1> QED
  BY <1>1, <1>2, <1>3, Invariance, PTL DEF Spec

---------------------------------------------------------------------------
(***************************************************************************)
(* What a step does to one process.                                        *)

\* Process g has not moved.
Still(g) ==
  UNCHANGED <<pc[g], writable[g], m_vmgs_data[g], buf[g], k[g], single_block[g],
              header_block[g], got[g], ret[g]>>

\* The end of a call of h, or of its object, is none of g's business.
LEMMA OthersFinish ==
  ASSUME TypeOK, NEW h \in Handles, NEW g \in Handles \ {h},
         NEW to, NEW result, Finish(h, to, result)
  PROVE  UNCHANGED <<pc[g], buf[g], k[g], single_block[g], header_block[g],
                     got[g], ret[g]>>
  BY DEF TypeOK, Finish

LEMMA OthersForget ==
  ASSUME TypeOK, NEW h \in Handles, NEW g \in Handles \ {h}, Forget(h)
  PROVE  Still(g)
<1>1. Finish(h, "none", Nothing)
  BY DEF Forget
<1>2. UNCHANGED <<writable[g], m_vmgs_data[g]>>
  BY DEF Forget, TypeOK
<1> QED
  BY <1>1, <1>2, OthersFinish DEF Still

\* A process moves by its own calls, or ends with a loss of power.
LEMMA OwnSteps ==
  ASSUME TypeOK, [Next]_vars, NEW g \in Handles
  PROVE  Still(g) \/ Call(g) \/ Step(g) \/ Crash(g) \/ PowerLoss
<1>1. ASSUME NEW h \in Handles \ {g}, Call(h) PROVE Still(g)
  <2>1. ASSUME NEW w, Open(h, w) PROVE Still(g)
    BY <2>1 DEF Open, TypeOK, Still
  <2>2. ASSUME NEW b \in Buffers, WriteRefused(h, b) PROVE Still(g)
    BY <2>2, OthersFinish DEF WriteRefused, Still
  <2>3. ASSUME NEW b \in Buffers, BeginWrite(h, b) PROVE Still(g)
    BY <2>3 DEF BeginWrite, TypeOK, Still
  <2>4. ASSUME BeginRead(h) PROVE Still(g)
    <3>1. CASE ReadBlocks(h) = 0
      BY <2>4, <3>1, OthersFinish DEF BeginRead, Still
    <3>2. CASE ReadBlocks(h) # 0
      BY <2>4, <3>2 DEF BeginRead, TypeOK, Still
    <3> QED
      BY <3>1, <3>2
  <2>5. ASSUME Close(h) PROVE Still(g)
    BY <2>5 DEF Close, TypeOK, Still
  <2> QED
    BY <1>1, <2>1, <2>2, <2>3, <2>4, <2>5, OthersForget DEF Call, Gone
<1>2. ASSUME NEW h \in Handles \ {g}, Step(h) PROVE Still(g)
  <2>1. CASE Load0(h)
    BY <2>1 DEF Load0, TypeOK, Still
  <2>2. CASE Load1(h)
    <3>1. CASE Forget(h)
      BY <3>1, OthersForget
    <3>2. CASE ~ Forget(h)
      <4>1. Finish(h, "ready", Nothing) /\ UNCHANGED <<writable[g], m_vmgs_data[g]>>
        BY <2>2, <3>2 DEF Load1, TypeOK
      <4> QED
        BY <4>1, OthersFinish DEF Still
    <3> QED
      BY <3>1, <3>2
  <2>3. CASE DirectWrite(h)
    BY <2>3 DEF DirectWrite, TypeOK, Still
  <2>4. CASE TailRead(h)
    BY <2>4 DEF TailRead, TypeOK, Still
  <2>5. CASE TailWrite(h)
    <3>1. CASE Fits(m_vmgs_data[h], Size(buf[h]))
      BY <2>5, <3>1 DEF TailWrite, TypeOK, Still
    <3>2. CASE ~ Fits(m_vmgs_data[h], Size(buf[h]))
      BY <2>5, <3>2, OthersFinish DEF TailWrite, Still
    <3> QED
      BY <3>1, <3>2
  <2>6. CASE StoreTo(h)
    <3>1. CASE StoreRead(h, 0, "store_read0", "store_read1")
               \/ StoreRead(h, 1, "store_read1", "store_write0")
      BY <3>1 DEF StoreRead, TypeOK, Still
    <3>2. CASE StoreWrite0(h)
      BY <3>2 DEF StoreWrite0, TypeOK, Still
    <3>3. CASE StoreWrite1(h)
      BY <3>3, OthersFinish DEF StoreWrite1, Still
    <3> QED
      BY <2>6, <3>1, <3>2, <3>3 DEF StoreTo
  <2>7. CASE ReadBlock(h)
    <3>1. CASE k[h] + 1 < ReadBlocks(h)
      BY <2>7, <3>1 DEF ReadBlock, TypeOK, Still
    <3>2. CASE ~ (k[h] + 1 < ReadBlocks(h))
      BY <2>7, <3>2, OthersFinish DEF ReadBlock, Still
    <3> QED
      BY <3>1, <3>2
  <2>8. CASE LoadFails(h)
    BY <2>8, OthersForget DEF LoadFails
  <2>9. CASE IoFails(h) \/ ReadNothing(h)
    BY <2>9, OthersFinish DEF IoFails, ReadNothing, Still
  <2> QED
    BY <1>2, <2>1, <2>2, <2>3, <2>4, <2>5, <2>6, <2>7, <2>8, <2>9 DEF Step
<1>3. ASSUME NEW h \in Handles \ {g}, Crash(h) PROVE Still(g)
  BY <1>3, OthersForget DEF Crash
<1>4. CASE (\E b \in Lba : Writeback(b)) \/ UNCHANGED vars
  BY <1>4 DEF Writeback, vars, Still
<1> QED
  BY <1>1, <1>2, <1>3, <1>4 DEF Next

---------------------------------------------------------------------------
(* Errors.                                                                 *)

\* The block behind every buffer that write() takes is on the device, as
\* write() will read it, whether it has bytes for it or not (Vmgs.cpp:269).
TailBlocksExist ==
  \A b \in Buffers : Size(b) < U32 =>
    Dev(ActiveLocator(Original).allocation_lba + Size(b) \div BlockSize) \in Lba

\* No transfer is longer than a device call can be: the allocation is shorter
\* than 2^32 bytes, the width of a transfer's length (UnixBlockDevice.cpp:17,
\* VhdDisk.cpp:32); and on a UnixBlockDevice, which makes one system call of a
\* transfer, neither the allocation nor the whole blocks of a buffer that
\* write() takes are more than such a call moves.
LengthsFit ==
  /\ MaxSize < U32
  /\ FromPartition =>
       /\ ActiveLocator(Original).allocation_num <= KernelLimit
       /\ \A b \in Buffers :
            Size(b) < U32 => Size(b) \div BlockSize <= KernelLimit

\* What NoSpuriousError needs beside IInv: a write in progress has a buffer that
\* write() took, and an error of an earlier object is forgotten before the next
\* one opens the device with other rights.
ErrorInv(h) ==
  /\ pc[h] \in WritePc => buf[h] \in Buffers /\ Size(buf[h]) < U32
  /\ pc[h] = "none" => ret[h] = Nothing
  /\ ret[h].status = "io_error" => ~ writable[h]

\* No block index up to the end of the partition, or up to one that is on the
\* device, is beyond the device.
LEMMA LowerBlocks ==
  ASSUME NEW t \in Nat, NEW u \in Nat, t <= u, Dev(u) \in Lba
  PROVE  Dev(t) \in Lba
  BY GeometryAssumption DEF Dev, Lba

\* The active allocation is MaxSize bytes, and lies in the partition.
LEMMA AllocationFacts ==
  LET l == ActiveLocator(Original) IN
  /\ l.allocation_lba \in Nat /\ l.allocation_lba >= 2 /\ l.allocation_num \in Nat
  /\ l.allocation_lba + l.allocation_num <= PartBlocks
  /\ MaxSize = l.allocation_num * BlockSize
<1> DEFINE l == ActiveLocator(Original)
<1>1. /\ l.allocation_lba \in Nat /\ l.allocation_num \in Nat
      /\ l.allocation_lba >= 2
      /\ l.allocation_lba + l.allocation_num <= PartBlocks
      /\ l.allocation_num * BlockSize < U64
  BY ImageAssumption, OriginalTyped DEF Locator
<1>2. l.allocation_num * BlockSize \in Nat
  BY <1>1, BlockSizeAssumption, NextBlock
<1>3. (l.allocation_num * BlockSize) % U64 = l.allocation_num * BlockSize
  BY <1>1, <1>2, WidthAssumption, SmallRemainder
<1> QED
  BY <1>1, <1>3 DEF MaxSize, Capacity

\* A read() of a version asks for blocks of the allocation.
LEMMA ReadFits ==
  ASSUME NEW h \in Handles, m_vmgs_data[h] \in Versions
  PROVE  /\ ReadBlocks(h) \in Nat
         /\ ReadBlocks(h) <= ActiveLocator(Original).allocation_num
<1> DEFINE s == ActiveLocator(m_vmgs_data[h]).data_size
           n == ActiveLocator(Original).allocation_num
<1>1. s \in Nat /\ n \in Nat /\ s <= n * BlockSize
  BY VersionFacts, AllocationFacts DEF Locator
<1> HIDE DEF s, n
<1>2. (s + BlockSize - 1) \div BlockSize <= n /\ (s + BlockSize - 1) \div BlockSize \in Nat
  <2> DEFINE m == (s + BlockSize - 1) \div BlockSize
  <2>1. /\ m \in Nat /\ m * BlockSize <= s + BlockSize - 1
    BY <1>1, BlockSizeAssumption
  <2>2. n * BlockSize \in Nat /\ m * BlockSize \in Nat
    BY <1>1, <2>1, BlockSizeAssumption, NextBlock
  <2>3. m * BlockSize < n * BlockSize + BlockSize
    BY <1>1, <2>1, <2>2, BlockSizeAssumption
  <2>4. (n + 1) * BlockSize = n * BlockSize + BlockSize
    BY <1>1, BlockSizeAssumption
  <2> HIDE DEF m
  <2>5. m < n + 1
    BY <1>1, <2>1, <2>3, <2>4, BlockSizeAssumption, Quotient
  <2> QED
    BY <1>1, <2>1, <2>5 DEF m
<1> QED
  BY <1>2 DEF s, n, ReadBlocks, BlocksOf

\* An object that is open for writing never asks the device for what it cannot
\* do.
LEMMA WritableIsServed ==
  ASSUME TailBlocksExist, LengthsFit, IInv,
         NEW h \in Handles, ErrorInv(h), writable[h], pc[h] \in IoPc \ LoadPc
  PROVE  /\ Served(h)
         /\ pc[h] = "reading" => Moved(ReadBlocks(h)) # 0
<1> DEFINE l == ActiveLocator(Original)
<1>1. /\ TypeOK /\ TransferInv(h) /\ m_vmgs_data[h] \in Versions /\ k[h] \in Nat
  BY DEF IInv, TypeOK, HeadersInv, IoPc
<1>2. ActiveLocator(m_vmgs_data[h]).allocation_lba = l.allocation_lba
  BY <1>1, VersionFacts
<1>3. CASE pc[h] \in {"store_read0", "store_read1", "store_write0", "store_write1"}
  BY <1>1, <1>3, HeaderLbasFacts, KernelAssumption DEF Served, Target, TransferInv
<1>4. CASE pc[h] \in {"direct", "tail_read", "tail_write"}
  <2>1. /\ buf[h] \in Buffers /\ Size(buf[h]) < U32
        /\ DirectBlocks(h) = Size(buf[h]) \div BlockSize /\ DirectBlocks(h) \in Nat
    BY <1>1, <1>4, PartsTyped DEF ErrorInv, WritePc, DirectBlocks
  <2>2. Dev(l.allocation_lba + DirectBlocks(h)) \in Lba
    BY <2>1 DEF TailBlocksExist
  <2>3. l.allocation_lba + DirectBlocks(h) \in Nat
    BY <2>1, AllocationFacts
  <2>4. Target(h) \in Nat /\ Target(h) <= l.allocation_lba + DirectBlocks(h)
    BY <1>1, <1>2, <1>4, <2>1, AllocationFacts DEF Target, TransferInv
  <2>5. FromPartition => k[h] < KernelLimit
    BY <1>1, <1>4, <2>1, KernelAssumption DEF LengthsFit, TransferInv
  <2> QED
    BY <1>4, <2>2, <2>3, <2>4, <2>5, LowerBlocks DEF Served
<1>5. CASE pc[h] = "reading"
  <2>1. k[h] < ReadBlocks(h) /\ ReadBlocks(h) \in Nat /\ ReadBlocks(h) <= l.allocation_num
    BY <1>1, <1>5, ReadFits DEF TransferInv
  <2>2. Served(h)
    <3>1. Target(h) \in Nat /\ Target(h) < PartBlocks
      BY <1>1, <1>2, <1>5, <2>1, AllocationFacts, GeometryAssumption DEF Target
    <3>2. FromPartition => k[h] < KernelLimit
      BY <1>1, <2>1, AllocationFacts, KernelAssumption DEF LengthsFit
    <3> QED
      BY <1>5, <3>1, <3>2, GeometryAssumption DEF Served, OutPc, Dev, Lba
  <2>3. Moved(ReadBlocks(h)) # 0
    <3> DEFINE n == ReadBlocks(h)
    <3>1. n \in Nat /\ n > 0 /\ n <= l.allocation_num
      BY <1>1, <2>1
    <3> HIDE DEF n
    <3>2. n * BlockSize \in Nat /\ n * BlockSize <= l.allocation_num * BlockSize
      BY <3>1, AllocationFacts, BlockSizeAssumption
    <3>3. (n * BlockSize) % U32 = n * BlockSize
      BY <3>2, AllocationFacts, OriginalTyped, WidthAssumption, SmallRemainder DEF LengthsFit
    <3>4. (n * BlockSize) \div BlockSize = n
      BY <3>1, BlockSizeAssumption
    <3> QED
      BY <3>1, <3>3, <3>4 DEF Moved, n
  <2> QED
    BY <2>2, <2>3
<1> QED
  BY <1>3, <1>4, <1>5 DEF IoPc, WritePc

\* On a device without errors, opened for writing, no call of any process ends
\* in a device error, as long as the block behind every buffer exists (the run
\* exact_fit has one that does not) and no transfer is longer than a device call
\* can be (README.md:78, Vmgs.cpp:240-288).
THEOREM ErrorsHaveCause ==
  ASSUME "io" \notin Faults, TailBlocksExist, LengthsFit
  PROVE  Spec => []NoSpuriousError
<1>1. Init => \A h \in Handles : ErrorInv(h)
  BY DEF Init, ErrorInv, WritePc, Nothing
<1>2. ASSUME IInv, \A h \in Handles : ErrorInv(h), [Next]_vars
      PROVE  \A h \in Handles : ErrorInv(h)'
  <2> SUFFICES ASSUME NEW g \in Handles
               PROVE  ErrorInv(g)'
    OBVIOUS
  <2>1. TypeOK /\ ErrorInv(g)
    BY <1>2 DEF IInv
  <2>2. CASE Still(g)
    BY <2>1, <2>2 DEF Still, ErrorInv, Size
  <2>3. ASSUME NEW to \in Pc \ (WritePc \cup {"none"}), NEW result, Finish(g, to, result),
               result.status # "io_error" \/ ~ writable'[g]
        PROVE  ErrorInv(g)'
    BY <2>1, <2>3 DEF Finish, TypeOK, ErrorInv
  <2>4. ASSUME Forget(g) PROVE ErrorInv(g)'
    <3>1. pc'[g] = "none" /\ ret'[g] = Nothing
      BY <2>1, <2>4 DEF Forget, Finish, TypeOK
    <3> QED
      BY <3>1 DEF ErrorInv, WritePc, Nothing
  <2>5. "ready" \in Pc \ (WritePc \cup {"none"})
    BY DEF Pc, WritePc
  <2>6. CASE Call(g)
    <3>1. ASSUME NEW w \in BOOLEAN, Open(g, w) PROVE ErrorInv(g)'
      BY <2>1, <3>1 DEF Open, TypeOK, ErrorInv, WritePc, Nothing
    <3>2. ASSUME NEW b \in Buffers, WriteRefused(g, b) PROVE ErrorInv(g)'
      BY <2>3, <2>5, <3>2 DEF WriteRefused, Result
    <3>3. ASSUME NEW b \in Buffers, BeginWrite(g, b) PROVE ErrorInv(g)'
      BY <2>1, <3>3 DEF BeginWrite, TypeOK, ErrorInv, Nothing
    <3>4. ASSUME BeginRead(g) PROVE ErrorInv(g)'
      <4>1. CASE ReadBlocks(g) = 0
        BY <2>3, <2>5, <3>4, <4>1 DEF BeginRead, Result
      <4>2. CASE ReadBlocks(g) # 0
        BY <2>1, <3>4, <4>2 DEF BeginRead, TypeOK, ErrorInv, WritePc, Nothing
      <4> QED
        BY <4>1, <4>2
    <3>5. ASSUME Close(g) PROVE ErrorInv(g)'
      BY <2>1, <3>5 DEF Close, TypeOK, ErrorInv, WritePc
    <3>6. \A kw \in Kwargs : Writable(kw) \in BOOLEAN
      BY DEF Writable
    <3> QED
      BY <2>4, <2>6, <3>1, <3>2, <3>3, <3>4, <3>5, <3>6 DEF Call, Gone
  <2>7. CASE Step(g)
    <3>1. CASE Load0(g)
      BY <2>1, <3>1 DEF Load0, TypeOK, ErrorInv, WritePc
    <3>2. CASE Load1(g)
      BY <2>3, <2>4, <2>5, <3>2 DEF Load1, Nothing
    <3>3. CASE DirectWrite(g)
      BY <2>1, <3>3 DEF DirectWrite, TypeOK, ErrorInv, WritePc, Size
    <3>4. CASE TailRead(g)
      BY <2>1, <3>4 DEF TailRead, TypeOK, ErrorInv, WritePc, Size
    <3>5. CASE TailWrite(g)
      <4>1. CASE Fits(m_vmgs_data[g], Size(buf[g]))
        BY <2>1, <3>5, <4>1 DEF TailWrite, TypeOK, ErrorInv, WritePc, Size
      <4>2. CASE ~ Fits(m_vmgs_data[g], Size(buf[g]))
        BY <2>3, <2>5, <3>5, <4>2 DEF TailWrite, Result
      <4> QED
        BY <4>1, <4>2
    <3>6. CASE StoreTo(g)
      <4>1. CASE StoreRead(g, 0, "store_read0", "store_read1")
                 \/ StoreRead(g, 1, "store_read1", "store_write0")
        BY <2>1, <4>1 DEF StoreRead, TypeOK, ErrorInv, WritePc, Size
      <4>2. CASE StoreWrite0(g)
        BY <2>1, <4>2 DEF StoreWrite0, TypeOK, ErrorInv, WritePc, Size
      <4>3. CASE StoreWrite1(g)
        BY <2>3, <2>5, <4>3 DEF StoreWrite1, Result
      <4> QED
        BY <3>6, <4>1, <4>2, <4>3 DEF StoreTo
    <3>7. CASE ReadBlock(g)
      <4>1. CASE k[g] + 1 < ReadBlocks(g)
        BY <2>1, <3>7, <4>1 DEF ReadBlock, TypeOK, ErrorInv, WritePc
      <4>2. CASE ~ (k[g] + 1 < ReadBlocks(g))
        BY <2>3, <2>5, <3>7, <4>2 DEF ReadBlock, Result
      <4> QED
        BY <4>1, <4>2
    <3>8. CASE LoadFails(g)
      BY <2>4, <3>8 DEF LoadFails
    <3>9. CASE IoFails(g)
      <4>1. ~ writable[g]
        BY <1>2, <2>1, <3>9, WritableIsServed DEF IoFails, CallFails
      <4>2. Finish(g, "ready", Result("io_error", <<>>)) /\ UNCHANGED writable
        BY <3>9 DEF IoFails
      <4> QED
        BY <2>3, <2>5, <4>1, <4>2
    <3>10. CASE ReadNothing(g)
      BY <2>3, <2>5, <3>10 DEF ReadNothing, Result
    <3> QED
      BY <2>7, <3>1, <3>2, <3>3, <3>4, <3>5, <3>6, <3>7, <3>8, <3>9, <3>10 DEF Step
  <2>8. CASE Crash(g)
    BY <2>4, <2>8 DEF Crash
  <2>9. CASE PowerLoss
    BY <2>9 DEF PowerLoss, ErrorInv, WritePc, Nothing
  <2> QED
    BY <1>2, <2>1, <2>2, <2>6, <2>7, <2>8, <2>9, OwnSteps
<1>3. (\A h \in Handles : ErrorInv(h)) => NoSpuriousError
  BY DEF ErrorInv, NoSpuriousError
<1>4. IInv /\ (\A h \in Handles : ErrorInv(h)) /\ [Next]_vars
        => (\A h \in Handles : ErrorInv(h))'
  BY <1>2
<1> QED
  BY <1>1, <1>3, <1>4, Invariance, PTL DEF Spec

---------------------------------------------------------------------------
(* The allocation and its bytes.                                           *)

\* The active allocation: its blocks, and block m of them on the device.
AllocationNum == ActiveLocator(Original).allocation_num
AllocationBlock(m) == Dev(ActiveLocator(Original).allocation_lba + m)

\* Byte i of an allocation is byte (i - 1) % block_size of block
\* (i - 1) / block_size, counted from 0, and no other byte is that one.
LEMMA PlaceOfByte ==
  ASSUME NEW i \in Nat, i >= 1, NEW n \in Nat, NEW b \in Nat \ {0}
  PROVE  /\ (i - 1) \div b \in Nat
         /\ ((i - 1) % b) + 1 \in 1 .. b
         /\ ((i - 1) \div b) * b + (((i - 1) % b) + 1) = i
         /\ i <= n * b => (i - 1) \div b < n
<1> DEFINE q == (i - 1) \div b
           r == (i - 1) % b
<1>1. q \in Nat /\ r \in Nat /\ r < b /\ i - 1 = b * q + r
  OBVIOUS
<1> HIDE DEF q, r
<1>2. b * q = q * b /\ q * b \in Nat
  BY <1>1
<1>3. q * b + (r + 1) = i
  BY <1>1, <1>2
<1>4. ASSUME i <= n * b PROVE q < n
  <2>1. n * b \in Nat
    OBVIOUS
  <2>2. q * b < n * b
    BY <1>1, <1>3, <1>4, <2>1, <1>2
  <2> QED
    BY <1>1, <2>2, Quotient
<1>5. q \in Nat /\ r + 1 \in 1 .. b
  BY <1>1
<1> QED
  BY <1>3, <1>4, <1>5 DEF q, r

LEMMA ByteOfPlace ==
  ASSUME NEW m \in Nat, NEW b \in Nat \ {0}, NEW j \in 1 .. b
  PROVE  /\ m * b + j \in Nat /\ m * b + j >= 1
         /\ (m * b + j - 1) \div b = m
         /\ ((m * b + j - 1) % b) + 1 = j
         /\ \A n \in Nat : m < n => m * b + j <= n * b
<1>1. m * b \in Nat
  OBVIOUS
<1>2. (m * b + j - 1) \div b = m
  <2>1. m * b + j - 1 = m * b + (j - 1) /\ j - 1 \in Nat /\ j - 1 < b
    BY <1>1
  <2>2. ASSUME NEW t \in Nat, t < b PROVE (m * b + t) \div b = m /\ (m * b + t) % b = t
    BY <2>2, Z3T(30)
  <2> QED
    BY <2>1, <2>2
<1>3. (m * b + j - 1) % b = j - 1
  <2>1. m * b + j - 1 = m * b + (j - 1) /\ j - 1 \in Nat /\ j - 1 < b
    BY <1>1
  <2>2. ASSUME NEW t \in Nat, t < b PROVE (m * b + t) % b = t
    BY <2>2, Z3T(30)
  <2> QED
    BY <2>1, <2>2
<1>4. ASSUME NEW n \in Nat, m < n PROVE m * b + j <= n * b
  <2>1. /\ (m + 1) * b = m * b + b /\ (m + 1) * b <= n * b /\ n * b \in Nat
    BY <1>4, NextBlock
  <2> QED
    BY <1>1, <2>1
<1> QED
  BY <1>1, <1>2, <1>3, <1>4

\* The blocks of the allocation are blocks of the device, and different ones,
\* and none of them is a header block or behind the allocation.
LEMMA AllocationBlocks ==
  /\ AllocationNum \in Nat /\ MaxSize = AllocationNum * BlockSize
  /\ \A m \in 0 .. AllocationNum - 1 :
       /\ AllocationBlock(m) \in Lba /\ AllocationBlock(m) \in ActiveLbas
       /\ AllocationBlock(m) \notin HeaderLbas
       /\ \A t \in Nat :
            Dev(ActiveLocator(Original).allocation_lba + t) = AllocationBlock(m) => t = m
<1> DEFINE l == ActiveLocator(Original)
<1>1. /\ l.allocation_lba \in Nat /\ l.allocation_lba >= 2 /\ AllocationNum \in Nat
      /\ l.allocation_lba + AllocationNum <= PartBlocks
      /\ MaxSize = AllocationNum * BlockSize
  BY AllocationFacts DEF AllocationNum
<1>2. ASSUME NEW m \in 0 .. AllocationNum - 1
      PROVE  /\ AllocationBlock(m) \in Lba /\ AllocationBlock(m) \in ActiveLbas
             /\ AllocationBlock(m) \notin HeaderLbas
             /\ \A t \in Nat : Dev(l.allocation_lba + t) = AllocationBlock(m) => t = m
  <2>1. AllocationBlock(m) \in Lba
    BY <1>1, GeometryAssumption DEF AllocationBlock, Dev, Lba
  <2>2. AllocationBlock(m) \in ActiveLbas
    BY <1>1 DEF AllocationBlock, ActiveLbas, AllocationLbas, AllocationNum
  <2>3. AllocationBlock(m) \notin HeaderLbas
    BY <1>1, HeaderLbasFacts DEF AllocationBlock, HeaderLbas
  <2>4. \A t \in Nat : Dev(l.allocation_lba + t) = AllocationBlock(m) => t = m
    BY <1>1, GeometryAssumption DEF AllocationBlock, Dev
  <2> QED
    BY <2>1, <2>2, <2>3, <2>4
<1> QED
  BY <1>1, <1>2

\* The headers of a version point to the image's allocation, so that the bytes
\* of the file are those of its blocks.
LEMMA BytesOfBlocks ==
  ASSUME NEW d, HeadersOn(d) \in Versions
  PROVE  \A m \in 0 .. AllocationNum - 1, j \in 1 .. BlockSize :
           Bytes(d, MaxSize)[m * BlockSize + j] = d[AllocationBlock(m)].body[j]
<1> SUFFICES ASSUME NEW m \in 0 .. AllocationNum - 1, NEW j \in 1 .. BlockSize
             PROVE  Bytes(d, MaxSize)[m * BlockSize + j] = d[AllocationBlock(m)].body[j]
  OBVIOUS
<1> DEFINE i == m * BlockSize + j
<1>1. m \in Nat /\ m < AllocationNum
  BY AllocationBlocks
<1>2. /\ i \in Nat /\ i >= 1 /\ i <= MaxSize
      /\ (i - 1) \div BlockSize = m /\ ((i - 1) % BlockSize) + 1 = j
  BY <1>1, ByteOfPlace, AllocationBlocks, BlockSizeAssumption
<1>3. ActiveLocator(HeadersOn(d)).allocation_lba = ActiveLocator(Original).allocation_lba
  BY VersionFacts
<1> HIDE DEF i
<1>4. i \in 1 .. MaxSize
  BY <1>2, OriginalTyped
<1>5. Bytes(d, MaxSize)[i] =
        d[Dev(ActiveLocator(HeadersOn(d)).allocation_lba + (i - 1) \div BlockSize)]
          .body[((i - 1) % BlockSize) + 1]
  BY <1>4 DEF Bytes
<1> QED
  BY <1>2, <1>3, <1>5 DEF AllocationBlock, i
=============================================================================
