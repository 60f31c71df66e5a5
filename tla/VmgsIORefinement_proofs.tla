---------------------- MODULE VmgsIORefinement_proofs ----------------------
(***************************************************************************)
(* Proofs about one process's VmgsIO, for every device, partition, image   *)
(* and set of buffers: its headers are those of the device between calls   *)
(* (CacheFresh), read() returns what is stored (ReadReturnsStored), a      *)
(* write that returned is stored whole (ReturnedWriteIsOnDisk), and every  *)
(* step is one of VmgsStore (ImplementsStore).                             *)
(***************************************************************************)
EXTENDS VmgsIORefinement, VmgsIO_proofs

\* No other process has the device open, as VmgsStore supposes.
OneProcess == Handles = {Process}

\* Items of one byte, which write() asserts and a release build does not check
\* (Vmgs.cpp:256).
ByteItems == \A b \in Buffers : b.itemsize = 1

---------------------------------------------------------------------------
(* The invariants.                                                         *)

\* Byte i of the active allocation, counted from 1.
ByteAt(d, i) ==
  d[AllocationBlock((i - 1) \div BlockSize)].body[((i - 1) % BlockSize) + 1]

\* The first n bytes of the allocation are those of the buffer; bytes beyond the
\* allocation do not count.
Laid(h, n) ==
  \A i \in 1 .. MaxSize : i <= n => ByteAt(disk, i) = buf[h].bytes[i]

\* Bytes of a write that are on the device while it is at pc[h].
LaidBytes(h) ==
  CASE pc[h] = "direct" -> k[h] * BlockSize
    [] pc[h] \in {"tail_read", "tail_write"} -> DirectBlocks(h) * BlockSize
    [] OTHER -> Size(buf[h])

StorePc == {"store_read0", "store_read1", "store_write0", "store_write1"}

\* A write in progress: what it has laid, the tail block it holds, the size the
\* object has from then on, and the header block that is out already.
WriteInv(h) ==
  /\ pc[h] \in WritePc => buf[h] \in Buffers /\ Laid(h, LaidBytes(h))
  /\ pc[h] \notin WritePc => buf[h] = NoBuffer
  /\ pc[h] = "tail_write" => single_block[h] = disk[Dev(Target(h))]
  /\ pc[h] \in StorePc =>
       ActiveLocator(m_vmgs_data[h]).data_size = Size(buf[h])
  /\ pc[h] = "store_write1" =>
       disk[Dev(0)].head = StoreHeader(m_vmgs_data[h][0])

\* A read in progress, and what it returned.
ReadInv(h) ==
  /\ pc[h] = "reading" =>
       \A i \in 1 .. k[h] * BlockSize : got[h][i] = ByteAt(disk, i)
  /\ ret[h].status = "read" =>
       LET size == ActiveLocator(m_vmgs_data[h]).data_size IN
       \/ ret[h].data = Bytes(disk, size)
       \/ Nulled(ret[h].data) /\ Len(ret[h].data) = size

\* How the last call ended is known between calls.
RetInv(h) ==
  pc[h] \notin {"ready", "closed"} => ret[h] = Nothing

CallInv == \A h \in Handles : WriteInv(h) /\ ReadInv(h) /\ RetInv(h)

\* On a device without errors: the object's headers are the device's, from
\* load_from on, but while store_to writes them out.
FreshInv(h) ==
  /\ pc[h] \in {"ready", "closed", "reading"} \cup (WritePc \ StorePc) =>
       m_vmgs_data[h] = HeadersOn(disk)
  /\ pc[h] = "load1" => header_block[h][0].head = disk[Dev(0)].head
  /\ pc[h] \in StorePc => writable[h]

---------------------------------------------------------------------------
(* Steps, and the bytes of the allocation.                                 *)

USE DEF Goto, At

\* Nothing that the process or its reader can see changes.
Idle == UNCHANGED <<disk, pc, writable, m_vmgs_data, buf, k, single_block,
                    header_block, got, ret>>

LEMMA OneSteps ==
  ASSUME OneProcess, [Next]_vars
  PROVE  \/ Call(Process) \/ Step(Process) \/ Crash(Process)
         \/ "power" \in Faults /\ PowerLoss
         \/ Idle
<1>1. \A h \in Handles : h = Process
  BY DEF OneProcess
<1> QED
  BY <1>1 DEF Next, Writeback, PowerLoss, vars, Idle

\* What a reader gets is the bytes of the allocation, up to the size.
LEMMA BytesAre ==
  ASSUME NEW d, HeadersOn(d) \in Versions, NEW n \in 0 .. MaxSize
  PROVE  Bytes(d, n) = [i \in 1 .. n |-> ByteAt(d, i)]
<1>1. ActiveLocator(HeadersOn(d)).allocation_lba = ActiveLocator(Original).allocation_lba
  BY VersionFacts
<1> QED
  BY <1>1 DEF Bytes, ByteAt, AllocationBlock

\* Where byte i of the allocation is.
LEMMA ByteAtPlace ==
  ASSUME NEW i \in 1 .. MaxSize
  PROVE  LET m == (i - 1) \div BlockSize
             j == ((i - 1) % BlockSize) + 1 IN
         /\ m \in 0 .. AllocationNum - 1 /\ m \in Nat
         /\ j \in 1 .. BlockSize
         /\ m * BlockSize + j = i
  BY PlaceOfByte, AllocationBlocks, BlockSizeAssumption, OriginalTyped

\* A data block that goes out changes the bytes from where the write is to the
\* end of the block or of the buffer, to the buffer's, and no others.
LaidNext(h) == IF pc[h] = "direct" THEN (k[h] + 1) * BlockSize ELSE Size(buf[h])

LEMMA PutData ==
  ASSUME IInv, NEW h \in Handles, WriteInv(h), pc[h] \in {"direct", "tail_write"},
         Served(h), PutBlock(h)
  PROVE  /\ LaidBytes(h) \in Nat /\ LaidNext(h) \in Nat
         /\ LaidBytes(h) <= LaidNext(h) /\ LaidNext(h) <= Size(buf[h])
         /\ \A i \in 1 .. MaxSize :
              ByteAt(disk', i) = IF LaidBytes(h) < i /\ i <= LaidNext(h)
                                   THEN buf[h].bytes[i] ELSE ByteAt(disk, i)
         /\ disk'[Dev(0)] = disk[Dev(0)] /\ disk'[Dev(1)] = disk[Dev(1)]
<1> DEFINE n == IF pc[h] = "direct" THEN k[h] ELSE DirectBlocks(h)
           lo == n * BlockSize
           hi == LaidNext(h)
           size == Size(buf[h])
<1>1. /\ TypeOK /\ TransferInv(h) /\ k[h] \in Nat /\ disk \in [Lba -> Block]
      /\ m_vmgs_data[h] \in Versions /\ DirectBlocks(h) \in Nat
      /\ buf[h] \in Buffers \cup {NoBuffer} /\ single_block[h] \in Block
  BY PartsTyped DEF IInv, TypeOK, HeadersInv, WritePc
<1>2. /\ n \in Nat /\ Target(h) = ActiveLocator(Original).allocation_lba + n
      /\ Target(h) \in Nat /\ Target(h) >= 2 /\ size \in Nat
  BY <1>1, VersionFacts, AllocationFacts, SizeFacts DEF Target
<1>3. /\ LaidBytes(h) = lo /\ lo \in Nat /\ hi \in Nat /\ lo <= hi /\ hi <= size
      /\ hi <= lo + BlockSize
      /\ pc[h] = "direct" => hi = lo + BlockSize
  <2>1. CASE pc[h] = "direct"
    BY <1>1, <1>2, <2>1, ChunkBytes, BlockSizeAssumption DEF LaidBytes, LaidNext, TransferInv
  <2>2. CASE pc[h] = "tail_write"
    BY <1>1, <1>2, <2>2, TailBytesAre, BlockSizeAssumption DEF LaidBytes, LaidNext
  <2> QED
    BY <2>1, <2>2
<1>4. disk' = [disk EXCEPT ![Dev(Target(h))] = Outgoing(h)] /\ Dev(Target(h)) \in Lba
  BY DEF PutBlock, Served
<1>5. disk'[Dev(0)] = disk[Dev(0)] /\ disk'[Dev(1)] = disk[Dev(1)]
  BY <1>1, <1>2, <1>4, HeaderLbasFacts
<1>6. ASSUME NEW j \in 1 .. BlockSize
      PROVE  Outgoing(h).body[j] = IF lo + j <= hi THEN buf[h].bytes[lo + j]
                                   ELSE disk[Dev(Target(h))].body[j]
  <2>1. CASE pc[h] = "direct"
    <3>1. /\ Len(Chunk(h)) = BlockSize /\ Chunk(h)[j] = buf[h].bytes[lo + j]
      BY <1>1, <2>1, ChunkBytes DEF TransferInv
    <3>2. Outgoing(h).body[j] = buf[h].bytes[lo + j]
      BY <2>1, <3>1, BlockSizeAssumption DEF Outgoing, Overlay, BlockOf
    <3>3. lo + j <= hi
      BY <1>3, <2>1, BlockSizeAssumption
    <3> QED
      BY <3>2, <3>3
  <2>2. CASE pc[h] = "tail_write"
    <3>1. /\ single_block[h] = disk[Dev(Target(h))] /\ hi = size
          /\ Outgoing(h) = Overlay(single_block[h], TailBytes(h))
      BY <2>2 DEF WriteInv, LaidNext, Outgoing
    <3>2. /\ Len(TailBytes(h)) = size - lo
          /\ \A t \in 1 .. size - lo : TailBytes(h)[t] = buf[h].bytes[lo + t]
      BY <1>1, <2>2, TailBytesAre
    <3> HIDE DEF lo, hi, size
    <3>3. CASE lo + j <= hi
      <4>1. j \in 1 .. size - lo
        BY <1>2, <1>3, <3>1, <3>3
      <4> QED
        BY <1>2, <1>3, <3>1, <3>2, <3>3, <4>1 DEF Overlay, BlockOf
    <3>4. CASE ~ (lo + j <= hi)
      <4>1. ~ (j <= Len(TailBytes(h)))
        BY <1>2, <1>3, <3>1, <3>2, <3>4
      <4> QED
        BY <3>1, <3>4, <4>1 DEF Overlay, BlockOf
    <3> QED
      BY <3>3, <3>4
  <2> QED
    BY <2>1, <2>2
<1> HIDE DEF lo, hi, size
<1>7. ASSUME NEW i \in 1 .. MaxSize
      PROVE  ByteAt(disk', i) = IF lo < i /\ i <= hi THEN buf[h].bytes[i]
                                ELSE ByteAt(disk, i)
  <2> DEFINE m == (i - 1) \div BlockSize
             j == ((i - 1) % BlockSize) + 1
  <2>1. /\ m \in 0 .. AllocationNum - 1 /\ m \in Nat /\ j \in 1 .. BlockSize
        /\ m * BlockSize + j = i
    BY ByteAtPlace
  <2>2. /\ ByteAt(disk', i) = disk'[AllocationBlock(m)].body[j]
        /\ ByteAt(disk, i) = disk[AllocationBlock(m)].body[j]
    BY DEF ByteAt
  <2> HIDE DEF m, j
  <2>3. CASE m = n
    <3>1. AllocationBlock(m) = Dev(Target(h))
      BY <1>2, <2>3 DEF AllocationBlock
    <3>2. /\ disk'[AllocationBlock(m)] = Outgoing(h)
          /\ disk[AllocationBlock(m)] = disk[Dev(Target(h))]
      BY <1>1, <1>4, <3>1
    <3>3. lo + j = i /\ lo < i
      BY <1>3, <2>1, <2>3, BlockSizeAssumption DEF lo
    <3> QED
      BY <1>6, <2>1, <2>2, <3>2, <3>3
  <2>4. CASE m # n
    <3>1. AllocationBlock(m) # Dev(Target(h))
      BY <1>2, <2>1, <2>4, AllocationBlocks
    <3>2. disk'[AllocationBlock(m)] = disk[AllocationBlock(m)]
      BY <1>1, <1>4, <2>1, <3>1, AllocationBlocks
    <3>3. ~ (lo < i /\ i <= hi)
      <4>1. CASE m < n
        <5>1. m * BlockSize + j <= n * BlockSize
          BY <1>2, <2>1, <4>1, ByteOfPlace, BlockSizeAssumption
        <5> QED
          BY <1>3, <2>1, <5>1 DEF lo
      <4>2. CASE n < m
        <5>1. /\ (n + 1) * BlockSize = n * BlockSize + BlockSize
              /\ (n + 1) * BlockSize <= m * BlockSize
              /\ m * BlockSize \in Nat
          BY <1>2, <2>1, <4>2, BlockSizeAssumption, NextBlock
        <5> QED
          BY <1>3, <2>1, <5>1, BlockSizeAssumption DEF lo
      <4> QED
        BY <1>2, <2>1, <2>4, <4>1, <4>2
    <3> QED
      BY <2>2, <3>2, <3>3
  <2> QED
    BY <2>3, <2>4
<1> QED
  BY <1>3, <1>5, <1>7 DEF hi, size

\* A header block that goes out changes no byte of the allocation, and nothing
\* of the other header block.
LEMMA PutHeader ==
  ASSUME IInv, NEW h \in Handles, NEW i \in {0, 1},
         pc[h] = IF i = 0 THEN "store_write0" ELSE "store_write1",
         Served(h), PutBlock(h)
  PROVE  /\ \A x \in 1 .. MaxSize : ByteAt(disk', x) = ByteAt(disk, x)
         /\ disk'[Dev(i)].head = StoreHeader(m_vmgs_data[h][i])
         /\ disk'[Dev(1 - i)] = disk[Dev(1 - i)]
<1>1. disk \in [Lba -> Block]
  BY DEF IInv, TypeOK
<1>2. Target(h) = i /\ Outgoing(h).head = StoreHeader(m_vmgs_data[h][i])
  BY DEF Target, Outgoing, Stored, BlockOf
<1>3. disk' = [disk EXCEPT ![Dev(i)] = Outgoing(h)]
  BY <1>2 DEF PutBlock
<1>4. ASSUME NEW x \in 1 .. MaxSize
      PROVE  ByteAt(disk', x) = ByteAt(disk, x)
  <2> DEFINE m == (x - 1) \div BlockSize
  <2>1. m \in 0 .. AllocationNum - 1
    BY ByteAtPlace
  <2> HIDE DEF m
  <2>2. disk'[AllocationBlock(m)] = disk[AllocationBlock(m)]
    BY <1>1, <1>3, <2>1, AllocationBlocks DEF HeaderLbas
  <2> QED
    BY <2>2 DEF ByteAt, m
<1>5. disk'[Dev(i)] = Outgoing(h) /\ disk'[Dev(1 - i)] = disk[Dev(1 - i)]
  BY <1>1, <1>3, HeaderLbasFacts
<1> QED
  BY <1>2, <1>4, <1>5

---------------------------------------------------------------------------
(* The invariant of the calls.                                             *)

OwnInv(h) == WriteInv(h) /\ ReadInv(h) /\ RetInv(h)

\* What a call leaves when it ends.
LEMMA FinishOwn ==
  ASSUME TypeOK, NEW h \in Handles, NEW result, Finish(h, "ready", result),
         result.status = "read" =>
           LET size == ActiveLocator(m_vmgs_data'[h]).data_size IN
           \/ result.data = Bytes(disk', size)
           \/ Nulled(result.data) /\ Len(result.data) = size
  PROVE  OwnInv(h)'
<1>1. pc'[h] = "ready" /\ buf'[h] = NoBuffer /\ ret'[h] = result
  BY DEF Finish, TypeOK
<1>2. WriteInv(h)'
  BY <1>1 DEF WriteInv, WritePc, StorePc, NoBuffer
<1>3. ReadInv(h)'
  <2> DEFINE size == ActiveLocator(m_vmgs_data[h]).data_size
  <2>1. Bytes(disk, size)' = Bytes(disk', size')
    BY DEF Bytes, HeadersOn, Dev
  <2>2. Nulled(ret[h].data)' = Nulled(ret'[h].data)
    BY DEF Nulled, FromPartition
  <2> QED
    BY <1>1, <2>1, <2>2 DEF ReadInv
<1> QED
  BY <1>1, <1>2, <1>3 DEF OwnInv, RetInv

LEMMA ForgetOwn ==
  ASSUME TypeOK, NEW h \in Handles, Forget(h)
  PROVE  OwnInv(h)'
<1>1. pc'[h] = "none" /\ buf'[h] = NoBuffer /\ ret'[h] = Nothing
  BY DEF Forget, Finish, TypeOK
<1> QED
  BY <1>1 DEF OwnInv, WriteInv, ReadInv, RetInv, WritePc, StorePc, NoBuffer, Nothing

\* The start of a call.
LEMMA CallOwn ==
  ASSUME IInv, NEW h \in Handles, OwnInv(h), Call(h)
  PROVE  OwnInv(h)'
<1>1. /\ TypeOK /\ HeadersInv(h) /\ TransferInv(h)
      /\ WriteInv(h) /\ ReadInv(h) /\ RetInv(h)
  BY DEF IInv, OwnInv
<1>2. ASSUME NEW w \in BOOLEAN, Open(h, w) PROVE OwnInv(h)'
  <2>1. pc[h] = "none" /\ pc'[h] = "load0" /\ buf'[h] = buf[h] /\ ret'[h] = ret[h]
    BY <1>1, <1>2 DEF Open, TypeOK
  <2>2. buf[h] = NoBuffer /\ ret[h] = Nothing
    BY <1>1, <2>1 DEF WriteInv, RetInv, WritePc
  <2> QED
    BY <2>1, <2>2 DEF OwnInv, WriteInv, ReadInv, RetInv, WritePc, StorePc, NoBuffer,
         Nothing
<1>3. ASSUME NEW b \in Buffers, WriteRefused(h, b) PROVE OwnInv(h)'
  BY <1>1, <1>3, FinishOwn DEF WriteRefused, Result
<1>4. ASSUME NEW b \in Buffers, BeginWrite(h, b) PROVE OwnInv(h)'
  <2>1. /\ pc'[h] = IF Size(b) >= BlockSize THEN "direct" ELSE "tail_read"
        /\ buf'[h] = b /\ ret'[h] = Nothing /\ k'[h] = 0 /\ Size(b) \in Nat
    BY <1>1, <1>4, SizeFacts DEF BeginWrite, TypeOK, TransferInv
  <2>2. LaidBytes(h)' = 0
    <3>1. CASE Size(b) >= BlockSize
      <4>1. LaidBytes(h)' = 0 * BlockSize
        BY <2>1, <3>1 DEF LaidBytes
      <4> QED
        BY <4>1, BlockSizeAssumption
    <3>2. CASE ~ (Size(b) >= BlockSize)
      <4>1. Size(b) \div BlockSize = 0
        BY <2>1, <3>2, BlockSizeAssumption
      <4>2. LaidBytes(h)' = 0 * BlockSize
        BY <2>1, <3>2, <4>1 DEF LaidBytes, DirectBlocks
      <4> QED
        BY <4>2, BlockSizeAssumption
    <3> QED
      BY <3>1, <3>2
  <2>3. Laid(h, LaidBytes(h))'
    BY <2>2, OriginalTyped DEF Laid
  <2>4. WriteInv(h)'
    BY <2>1, <2>3 DEF WriteInv, WritePc, StorePc
  <2>5. ReadInv(h)' /\ RetInv(h)'
    BY <2>1 DEF ReadInv, RetInv, Nothing
  <2> QED
    BY <2>4, <2>5 DEF OwnInv
<1>5. ASSUME BeginRead(h) PROVE OwnInv(h)'
  <2>1. m_vmgs_data[h] \in Versions /\ pc[h] = "ready" /\ UNCHANGED <<disk, m_vmgs_data>>
    BY <1>1, <1>5 DEF HeadersInv, BeginRead
  <2>2. CASE ReadBlocks(h) = 0
    <3> DEFINE s == ActiveLocator(m_vmgs_data[h]).data_size
    <3>1. s \in Nat
      BY <2>1, VersionFacts DEF Locator
    <3>2. s <= ReadBlocks(h) * BlockSize
      BY <3>1, BlockSizeAssumption, CeilBlocks DEF ReadBlocks, BlocksOf
    <3>3. s = 0
      BY <2>2, <3>1, <3>2, BlockSizeAssumption
    <3>4. Bytes(disk, 0) = <<>>
      BY DEF Bytes
    <3> QED
      BY <1>1, <1>5, <2>1, <2>2, <3>3, <3>4, FinishOwn DEF BeginRead, Result
  <2>3. CASE ReadBlocks(h) # 0
    <3>1. /\ pc'[h] = "reading" /\ buf'[h] = buf[h] /\ ret'[h] = Nothing /\ k'[h] = 0
      BY <1>1, <1>5, <2>1, <2>3 DEF BeginRead, TypeOK, TransferInv
    <3>2. \A i \in 1 .. k'[h] * BlockSize : FALSE
      BY <3>1, BlockSizeAssumption
    <3>3. buf[h] = NoBuffer
      BY <1>1, <2>1 DEF WriteInv, WritePc
    <3> QED
      BY <3>1, <3>2, <3>3 DEF OwnInv, WriteInv, ReadInv, RetInv, WritePc, StorePc,
           NoBuffer, Nothing
  <2> QED
    BY <2>2, <2>3
<1>6. ASSUME Close(h) PROVE OwnInv(h)'
  <2>1. /\ pc[h] = "ready" /\ pc'[h] = "closed" /\ buf'[h] = buf[h] /\ ret'[h] = ret[h]
        /\ UNCHANGED <<disk, m_vmgs_data>>
    BY <1>1, <1>6 DEF Close, TypeOK
  <2>2. buf[h] = NoBuffer
    BY <1>1, <2>1 DEF WriteInv, WritePc
  <2>3. ReadInv(h)'
    BY <1>1, <2>1 DEF ReadInv, Bytes, HeadersOn, Dev
  <2> QED
    BY <2>1, <2>2, <2>3 DEF OwnInv, WriteInv, RetInv, WritePc, StorePc, NoBuffer
<1>7. \A kw \in Kwargs : Writable(kw) \in BOOLEAN
  BY DEF Writable
<1> QED
  BY <1>1, <1>2, <1>3, <1>4, <1>5, <1>6, <1>7, ForgetOwn DEF Call, Gone

\* A block that read() gets is the next one of the allocation.
LEMMA ReadOwn ==
  ASSUME IInv, NEW h \in Handles, OwnInv(h), ReadBlock(h)
  PROVE  OwnInv(h)'
<1> DEFINE blk == disk[Dev(Target(h))]
           lo == k[h] * BlockSize
           bytes == got[h] \o blk.body
           size == ActiveLocator(m_vmgs_data[h]).data_size
<1>1. /\ TypeOK /\ TransferInv(h) /\ WriteInv(h) /\ ReadInv(h) /\ RetInv(h)
      /\ pc[h] = "reading" /\ m_vmgs_data[h] \in Versions
      /\ k[h] \in Nat /\ got[h] \in Seq(Byte) /\ disk \in [Lba -> Block]
      /\ Dev(Target(h)) \in Lba /\ UNCHANGED <<disk, m_vmgs_data>>
  BY DEF IInv, OwnInv, ReadBlock, Served, HeadersInv, TypeOK
<1>2. /\ k[h] < ReadBlocks(h) /\ ReadBlocks(h) \in Nat
      /\ ReadBlocks(h) <= AllocationNum /\ AllocationNum \in Nat
  BY <1>1, ReadFits, AllocationBlocks DEF TransferInv, AllocationNum
<1>3. blk.body \in Seq(Byte) /\ Len(blk.body) = BlockSize
  BY <1>1, BlocksTyped
<1>4. lo \in Nat /\ Len(got[h]) = lo /\ (k[h] + 1) * BlockSize = lo + BlockSize
  BY <1>1, BlockSizeAssumption, NextBlock DEF TransferInv
<1>5. Dev(Target(h)) = AllocationBlock(k[h])
  BY <1>1, VersionFacts DEF Target, AllocationBlock
<1> HIDE DEF blk, lo
<1>6. /\ bytes \in Seq(Byte) /\ Len(bytes) = lo + BlockSize
      /\ \A i \in 1 .. lo : bytes[i] = got[h][i]
      /\ \A j \in 1 .. BlockSize : bytes[lo + j] = blk.body[j]
  <2>1. ASSUME NEW s \in Seq(Byte), NEW t \in Seq(Byte)
        PROVE  /\ s \o t \in Seq(Byte) /\ Len(s \o t) = Len(s) + Len(t)
               /\ \A x \in 1 .. Len(s) : (s \o t)[x] = s[x]
               /\ \A x \in 1 .. Len(t) : (s \o t)[Len(s) + x] = t[x]
    OBVIOUS
  <2> QED
    BY <1>1, <1>3, <1>4, <2>1
<1> HIDE DEF bytes
<1>7. ASSUME NEW i \in 1 .. lo + BlockSize
      PROVE  bytes[i] = ByteAt(disk, i)
  <2>1. CASE i <= lo
    BY <1>1, <1>4, <1>6, <2>1 DEF ReadInv, lo
  <2>2. CASE ~ (i <= lo)
    <3> DEFINE j == i - lo
    <3>1. j \in 1 .. BlockSize /\ i = lo + j
      BY <1>4, <2>2, BlockSizeAssumption
    <3> HIDE DEF j
    <3>2. (i - 1) \div BlockSize = k[h] /\ ((i - 1) % BlockSize) + 1 = j
      <4>1. /\ (k[h] * BlockSize + j - 1) \div BlockSize = k[h]
            /\ ((k[h] * BlockSize + j - 1) % BlockSize) + 1 = j
        BY <1>1, <3>1, BlockSizeAssumption, ByteOfPlace
      <4>2. i - 1 = k[h] * BlockSize + j - 1
        BY <1>1, <1>4, <3>1 DEF lo
      <4> QED
        BY <4>1, <4>2
    <3>3. ByteAt(disk, i) = blk.body[j]
      BY <1>5, <3>2 DEF ByteAt, blk
    <3> QED
      BY <1>6, <3>1, <3>3
  <2> QED
    BY <2>1, <2>2
<1>8. CASE k[h] + 1 < ReadBlocks(h)
  <2>1. /\ pc'[h] = "reading" /\ k'[h] = k[h] + 1 /\ got'[h] = bytes
        /\ buf'[h] = buf[h] /\ ret'[h] = ret[h]
    BY <1>1, <1>8 DEF ReadBlock, TypeOK, bytes, blk
  <2>2. \A i \in 1 .. k'[h] * BlockSize : got'[h][i] = ByteAt(disk, i)
    BY <1>4, <1>7, <2>1
  <2>3. buf[h] = NoBuffer /\ ret[h] = Nothing
    BY <1>1 DEF WriteInv, RetInv, WritePc
  <2>4. (\A i \in 1 .. k[h] * BlockSize : got[h][i] = ByteAt(disk, i))'
    BY <1>1, <2>2 DEF ByteAt, AllocationBlock, Dev
  <2> QED
    BY <2>1, <2>3, <2>4 DEF OwnInv, WriteInv, ReadInv, RetInv, WritePc, StorePc,
         NoBuffer, Nothing
<1>9. CASE ~ (k[h] + 1 < ReadBlocks(h))
  <2>1. Finish(h, "ready", Result("read", SubSeq(bytes, 1, size)))
    BY <1>9 DEF ReadBlock, bytes, blk
  <2>2. size \in Nat /\ size <= MaxSize
    BY <1>1, VersionFacts DEF Locator
  <2>3. size <= lo + BlockSize
    <3>1. ReadBlocks(h) = k[h] + 1
      BY <1>1, <1>2, <1>9
    <3>2. size <= ReadBlocks(h) * BlockSize
      BY <2>2, BlockSizeAssumption, CeilBlocks DEF ReadBlocks, BlocksOf
    <3> QED
      BY <1>4, <3>1, <3>2
  <2> HIDE DEF size
  <2>4. SubSeq(bytes, 1, size) = [i \in 1 .. size |-> bytes[i]]
    BY <1>4, <1>6, <2>2, <2>3, BlockSizeAssumption
  <2>5. \A i \in 1 .. size : bytes[i] = ByteAt(disk, i)
    BY <1>4, <1>7, <2>2, <2>3, BlockSizeAssumption
  <2>6. HeadersOn(disk) \in Versions
    BY MixedHeadersLoad DEF IInv, HeadersOn
  <2>7. Bytes(disk, size) = [i \in 1 .. size |-> ByteAt(disk, i)]
    BY <2>2, <2>6, BytesAre, OriginalTyped
  <2>8. SubSeq(bytes, 1, size) = Bytes(disk, size)
    BY <2>4, <2>5, <2>7
  <2> QED
    BY <1>1, <2>1, <2>8, FinishOwn DEF Result, size
<1> QED
  BY <1>8, <1>9

\* A read() whose request has lost its length returns as many zeroes.
LEMMA ReadNothingOwn ==
  ASSUME IInv, NEW h \in Handles, ReadNothing(h)
  PROVE  OwnInv(h)'
<1> DEFINE size == ActiveLocator(m_vmgs_data[h]).data_size
           zeroes == [i \in 1 .. size |-> Zero]
<1>1. /\ TypeOK /\ m_vmgs_data[h] \in Versions /\ m_vmgs_data' = m_vmgs_data
      /\ Finish(h, "ready", Result("read", zeroes))
      /\ ~ FromPartition /\ Moved(BlocksOf(size)) = 0
  BY DEF IInv, HeadersInv, ReadNothing, ReadBlocks
<1>2. size \in Nat
  BY <1>1, VersionFacts DEF Locator
<1> HIDE DEF size
<1>3. Len(zeroes) = size
  BY <1>2
<1>4. Nulled(zeroes)
  BY <1>1, <1>3 DEF Nulled
<1> QED
  BY <1>1, <1>3, <1>4, FinishOwn DEF Result, size

\* A block that write() puts on the device, and the block it reads before.
LEMMA WriteOwn ==
  ASSUME IInv, NEW h \in Handles, OwnInv(h),
         DirectWrite(h) \/ TailRead(h) \/ TailWrite(h) \/ StoreTo(h)
  PROVE  OwnInv(h)'
<1>1. /\ TypeOK /\ TransferInv(h) /\ WriteInv(h) /\ ReadInv(h) /\ RetInv(h)
      /\ pc[h] \in WritePc /\ m_vmgs_data[h] \in Versions
      /\ disk \in [Lba -> Block] /\ buf[h] \in Buffers /\ Laid(h, LaidBytes(h))
      /\ ret[h] = Nothing
  BY DEF IInv, OwnInv, DirectWrite, TailRead, TailWrite, StoreTo, StoreRead,
     StoreWrite0, StoreWrite1, HeadersInv, TypeOK, WriteInv, RetInv, WritePc
<1>2. ASSUME pc'[h] \in WritePc, ret'[h] = ret[h], WriteInv(h)'
      PROVE  OwnInv(h)'
  BY <1>1, <1>2 DEF OwnInv, ReadInv, RetInv, Nothing, WritePc
<1>4. CASE DirectWrite(h)
  <2>1. /\ pc[h] = "direct" /\ Served(h) /\ PutBlock(h) /\ buf'[h] = buf[h]
        /\ ret'[h] = ret[h] /\ m_vmgs_data'[h] = m_vmgs_data[h]
        /\ IF k[h] + 1 < DirectBlocks(h)
             THEN pc'[h] = "direct" /\ k'[h] = k[h] + 1
             ELSE pc'[h] = "tail_read"
    BY <1>1, <1>4 DEF DirectWrite, TypeOK
  <2>2. /\ LaidBytes(h)' = LaidNext(h) /\ DirectBlocks(h)' = DirectBlocks(h)
    <3>1. DirectBlocks(h)' = DirectBlocks(h)
      BY <2>1 DEF DirectBlocks
    <3>2. CASE k[h] + 1 < DirectBlocks(h)
      <4>1. LaidBytes(h)' = (k[h] + 1) * BlockSize
        BY <2>1, <3>2 DEF LaidBytes
      <4> QED
        BY <2>1, <3>1, <4>1 DEF LaidNext
    <3>3. CASE ~ (k[h] + 1 < DirectBlocks(h))
      <4>1. k[h] \in Nat /\ DirectBlocks(h) \in Nat /\ k[h] < DirectBlocks(h)
        BY <1>1, <2>1, PartsTyped DEF TypeOK, TransferInv
      <4>2. DirectBlocks(h) = k[h] + 1
        BY <3>3, <4>1
      <4>3. LaidBytes(h)' = DirectBlocks(h) * BlockSize
        BY <2>1, <3>1, <3>3 DEF LaidBytes
      <4> QED
        BY <2>1, <3>1, <4>2, <4>3 DEF LaidNext
    <3> QED
      BY <3>1, <3>2, <3>3
  <2>3. \A i \in 1 .. MaxSize : i <= LaidNext(h) => ByteAt(disk', i) = buf[h].bytes[i]
    BY <1>1, <2>1, PutData, OriginalTyped DEF Laid
  <2>4. Laid(h, LaidBytes(h))'
    BY <2>1, <2>2, <2>3 DEF Laid, ByteAt, AllocationBlock, Dev
  <2>5. WriteInv(h)'
    BY <1>1, <2>1, <2>4 DEF WriteInv, WritePc, StorePc
  <2> QED
    BY <1>2, <2>1, <2>5 DEF WritePc
<1>5. CASE TailRead(h)
  <2>1. /\ pc[h] = "tail_read" /\ pc'[h] = "tail_write" /\ buf'[h] = buf[h]
        /\ ret'[h] = ret[h] /\ m_vmgs_data'[h] = m_vmgs_data[h] /\ disk' = disk
        /\ single_block'[h] = disk[Dev(Target(h))]
    BY <1>1, <1>5 DEF TailRead, TypeOK
  <2>2. DirectBlocks(h)' = DirectBlocks(h)
    BY <2>1 DEF DirectBlocks
  <2>3. Target(h)' = Target(h) /\ LaidBytes(h)' = LaidBytes(h)
    BY <2>1, <2>2 DEF Target, LaidBytes
  <2>4. Laid(h, LaidBytes(h))'
    BY <1>1, <2>1, <2>3 DEF Laid, ByteAt, AllocationBlock, Dev
  <2>5. WriteInv(h)'
    BY <1>1, <2>1, <2>3, <2>4 DEF WriteInv, WritePc, StorePc, Dev
  <2> QED
    BY <1>2, <2>1, <2>5 DEF WritePc
<1>6. CASE TailWrite(h)
  <2>1. pc[h] = "tail_write" /\ Served(h) /\ PutBlock(h)
    BY <1>6 DEF TailWrite
  <2>2. CASE ~ Fits(m_vmgs_data[h], Size(buf[h]))
    BY <1>1, <1>6, <2>2, FinishOwn DEF TailWrite, Result
  <2>3. CASE Fits(m_vmgs_data[h], Size(buf[h]))
    <3>1. /\ pc'[h] = "store_read0" /\ buf'[h] = buf[h] /\ ret'[h] = ret[h]
          /\ m_vmgs_data'[h] = Resize(m_vmgs_data[h], Size(buf[h]))
      BY <1>1, <1>6, <2>3 DEF TailWrite, TypeOK
    <3>2. Size(buf[h]) \in Nat
      BY <1>1, SizeFacts
    <3>3. ActiveLocator(Resize(m_vmgs_data[h], Size(buf[h]))).data_size = Size(buf[h])
      <4>1. m_vmgs_data[h] \in Headers /\ ActiveLocator(m_vmgs_data[h]) \in Locator
        BY <1>1, VersionFacts
      <4> QED
        BY <3>2, <4>1, ResizeKeeps DEF Locator
    <3>4. LaidBytes(h)' = Size(buf[h]) /\ LaidNext(h) = Size(buf[h])
      BY <2>1, <3>1 DEF LaidBytes, LaidNext, Size
    <3>5. \A i \in 1 .. MaxSize : i <= LaidNext(h) => ByteAt(disk', i) = buf[h].bytes[i]
      BY <1>1, <2>1, PutData, OriginalTyped DEF Laid
    <3>6. Laid(h, LaidBytes(h))'
      BY <3>1, <3>4, <3>5 DEF Laid, ByteAt, AllocationBlock, Dev
    <3>7. ActiveLocator(m_vmgs_data[h])'.data_size = Size(buf[h])'
      BY <3>1, <3>3 DEF ActiveLocator, ActiveHeader, ActiveIndex, Size
    <3>8. WriteInv(h)'
      BY <1>1, <3>1, <3>6, <3>7 DEF WriteInv, WritePc, StorePc
    <3> QED
      BY <1>2, <3>1, <3>8 DEF WritePc
  <2> QED
    BY <2>2, <2>3
<1>7. CASE StoreRead(h, 0, "store_read0", "store_read1")
           \/ StoreRead(h, 1, "store_read1", "store_write0")
  <2>1. /\ pc[h] \in {"store_read0", "store_read1"}
        /\ pc'[h] \in {"store_read1", "store_write0"} /\ buf'[h] = buf[h]
        /\ ret'[h] = ret[h] /\ m_vmgs_data'[h] = m_vmgs_data[h] /\ disk' = disk
    BY <1>1, <1>7 DEF StoreRead, TypeOK
  <2>2. LaidBytes(h)' = LaidBytes(h)
    BY <2>1 DEF LaidBytes, Size
  <2>3. Laid(h, LaidBytes(h))'
    BY <1>1, <2>1, <2>2 DEF Laid, ByteAt, AllocationBlock, Dev
  <2>4. ActiveLocator(m_vmgs_data[h])'.data_size = Size(buf[h])'
    BY <1>1, <2>1 DEF WriteInv, StorePc, ActiveLocator, ActiveHeader, ActiveIndex, Size
  <2>5. WriteInv(h)'
    BY <1>1, <2>1, <2>3, <2>4 DEF WriteInv, WritePc, StorePc
  <2> QED
    BY <1>2, <2>1, <2>5 DEF WritePc
<1>8. CASE StoreWrite0(h)
  <2>1. /\ pc[h] = "store_write0" /\ pc'[h] = "store_write1" /\ buf'[h] = buf[h]
        /\ ret'[h] = ret[h] /\ m_vmgs_data'[h] = m_vmgs_data[h]
        /\ Served(h) /\ PutBlock(h)
    BY <1>1, <1>8 DEF StoreWrite0, TypeOK
  <2>2. /\ \A x \in 1 .. MaxSize : ByteAt(disk', x) = ByteAt(disk, x)
        /\ disk'[Dev(0)].head = StoreHeader(m_vmgs_data[h][0])
    BY <2>1, PutHeader
  <2>3. LaidBytes(h)' = LaidBytes(h)
    BY <2>1 DEF LaidBytes, Size
  <2>4. Laid(h, LaidBytes(h))'
    BY <1>1, <2>1, <2>2, <2>3 DEF Laid, ByteAt, AllocationBlock, Dev
  <2>5. ActiveLocator(m_vmgs_data[h])'.data_size = Size(buf[h])'
    BY <1>1, <2>1 DEF WriteInv, StorePc, ActiveLocator, ActiveHeader, ActiveIndex, Size
  <2>6. disk'[Dev(0)].head = StoreHeader(m_vmgs_data'[h][0])
    BY <2>1, <2>2
  <2>7. WriteInv(h)'
    BY <1>1, <2>1, <2>4, <2>5, <2>6 DEF WriteInv, WritePc, StorePc, Dev, StoreHeader
  <2> QED
    BY <1>2, <2>1, <2>7 DEF WritePc
<1>9. CASE StoreWrite1(h)
  BY <1>1, <1>9, FinishOwn DEF StoreWrite1, Result
<1> QED
  BY <1>4, <1>5, <1>6, <1>7, <1>8, <1>9 DEF StoreTo

\* What a constructor does, a failure, and the end of a process.
LEMMA OtherOwn ==
  ASSUME IInv, NEW h \in Handles, OwnInv(h),
         \/ Load0(h) \/ Load1(h) \/ LoadFails(h) \/ IoFails(h) \/ Crash(h)
         \/ PowerLoss \/ Idle
  PROVE  OwnInv(h)'
<1>1. TypeOK /\ WriteInv(h) /\ ReadInv(h) /\ RetInv(h)
  BY DEF IInv, OwnInv
<1>2. CASE Load0(h)
  <2>1. pc[h] = "load0" /\ pc'[h] = "load1" /\ buf'[h] = buf[h] /\ ret'[h] = ret[h]
    BY <1>1, <1>2 DEF Load0, TypeOK
  <2>2. buf[h] = NoBuffer /\ ret[h] = Nothing
    BY <1>1, <2>1 DEF WriteInv, RetInv, WritePc
  <2> QED
    BY <2>1, <2>2 DEF OwnInv, WriteInv, ReadInv, RetInv, WritePc, StorePc, NoBuffer,
         Nothing
<1>3. CASE Load1(h)
  BY <1>1, <1>3, FinishOwn, ForgetOwn DEF Load1, Nothing
<1>4. CASE IoFails(h)
  BY <1>1, <1>4, FinishOwn DEF IoFails, Result
<1>5. CASE LoadFails(h) \/ Crash(h)
  BY <1>1, <1>5, ForgetOwn DEF LoadFails, Crash
<1>6. CASE PowerLoss
  <2>1. pc'[h] = "none" /\ buf'[h] = NoBuffer /\ ret'[h] = Nothing
    BY <1>6 DEF PowerLoss
  <2> QED
    BY <2>1 DEF OwnInv, WriteInv, ReadInv, RetInv, WritePc, StorePc, NoBuffer, Nothing
<1>7. CASE Idle
  <2>1. UNCHANGED <<disk, pc, m_vmgs_data, buf, k, single_block, got, ret>>
    BY <1>7 DEF Idle
  <2>2. WriteInv(h)'
    BY <1>1, <2>1 DEF WriteInv, Laid, LaidBytes, ByteAt, AllocationBlock, Dev, Size,
         DirectBlocks, Target
  <2>3. ReadInv(h)' /\ RetInv(h)'
    BY <1>1, <2>1 DEF ReadInv, RetInv, ByteAt, AllocationBlock, Bytes, HeadersOn, Dev
  <2> QED
    BY <2>2, <2>3 DEF OwnInv
<1> QED
  BY <1>2, <1>3, <1>4, <1>5, <1>6, <1>7

LEMMA CallInvInit ==
  ASSUME Init
  PROVE  CallInv
  BY DEF Init, CallInv, WriteInv, ReadInv, RetInv, WritePc, StorePc, Nothing

LEMMA CallInvNext ==
  ASSUME OneProcess, IInv, CallInv, [Next]_vars
  PROVE  CallInv'
<1> SUFFICES ASSUME NEW h \in Handles
             PROVE  OwnInv(h)'
  BY DEF CallInv, OwnInv
<1>1. OwnInv(h)
  BY DEF CallInv, OwnInv
<1>2. \/ Call(h) \/ Step(h) \/ Crash(h)
      \/ PowerLoss \/ Idle
  BY OneSteps DEF OneProcess
<1>3. CASE Call(h)
  BY <1>1, <1>3, CallOwn
<1>4. CASE Step(h)
  BY <1>1, <1>4, ReadOwn, ReadNothingOwn, WriteOwn, OtherOwn DEF Step
<1>5. CASE Crash(h) \/ PowerLoss \/ Idle
  BY <1>1, <1>5, OtherOwn
<1> QED
  BY <1>2, <1>3, <1>4, <1>5

\* What a call in progress has moved so far is where it belongs, and what a
\* call returned is what the device holds, for one process on any device.
THEOREM CallInvariance ==
  ASSUME OneProcess
  PROVE  Spec => [](IInv /\ CallInv)
<1>1. Init => IInv /\ CallInv
  BY InitHolds, CallInvInit
<1>2. IInv /\ CallInv /\ [Next]_vars => (IInv /\ CallInv)'
  BY NextKeeps, CallInvNext
<1> QED
  BY <1>1, <1>2, PTL DEF Spec

\* read() returns what the device stores, if the object's headers are those of
\* the device, whatever was written and whatever failed before; the exception is
\* a VhdDisk and a length whose whole blocks come to a multiple of 2^32 bytes,
\* for which it returns zeroes (VhdDisk.cpp:32).
THEOREM ReadsWhatIsStored ==
  ASSUME OneProcess
  PROVE  Spec => []ReadReturnsStored
<1>1. ASSUME IInv, CallInv, NEW h \in Handles, ret[h].status = "read",
             m_vmgs_data[h] = HeadersOn(disk)
      PROVE  \/ ret[h].data = Content(disk)
             \/ Nulled(ret[h].data) /\ Len(ret[h].data) = Len(Content(disk))
  <2> DEFINE size == ActiveLocator(m_vmgs_data[h]).data_size
  <2>1. Content(disk) = Bytes(disk, size)
    BY <1>1 DEF Content
  <2>2. \/ ret[h].data = Bytes(disk, size)
        \/ Nulled(ret[h].data) /\ Len(ret[h].data) = size
    BY <1>1 DEF CallInv, ReadInv
  <2>3. size \in Nat
    <3>1. HeadersOn(disk) \in Versions
      BY <1>1, MixedHeadersLoad DEF IInv, HeadersOn
    <3> QED
      BY <1>1, <3>1, VersionFacts DEF Locator
  <2> HIDE DEF size
  <2>4. Len(Bytes(disk, size)) = size
    BY <2>3 DEF Bytes
  <2> QED
    BY <2>1, <2>2, <2>4
<1>2. IInv /\ CallInv => ReadReturnsStored
  BY <1>1 DEF ReadReturnsStored
<1> QED
  BY <1>2, CallInvariance, PTL

---------------------------------------------------------------------------
(* What a block on its way out does to the content.                        *)

\* The bytes of the write in progress.
NewData(h) == SubSeq(buf[h].bytes, 1, Size(buf[h]))

\* The first n bytes of d over those of c.
LEMMA TornIs ==
  ASSUME NEW c \in Seq(Byte), NEW d \in Seq(Byte), NEW n \in Nat,
         n <= Len(c), n <= Len(d)
  PROVE  SubSeq(d, 1, n) \o SubSeq(c, n + 1, Len(c))
           = [i \in 1 .. Len(c) |-> IF i <= n THEN d[i] ELSE c[i]]
<1> DEFINE a == SubSeq(d, 1, n)
           b == SubSeq(c, n + 1, Len(c))
<1>1. a \in Seq(Byte) /\ Len(a) = n /\ \A i \in 1 .. n : a[i] = d[i]
  OBVIOUS
<1>2. /\ b \in Seq(Byte) /\ Len(b) = Len(c) - n
      /\ \A i \in 1 .. Len(c) - n : b[i] = c[n + i]
  OBVIOUS
<1> HIDE DEF a, b
<1>3. a \o b = [i \in 1 .. Len(a) + Len(b) |-> IF i <= Len(a) THEN a[i] ELSE b[i - Len(a)]]
  <2>1. ASSUME NEW x \in Seq(Byte), NEW y \in Seq(Byte)
        PROVE  x \o y = [i \in 1 .. Len(x) + Len(y) |->
                            IF i <= Len(x) THEN x[i] ELSE y[i - Len(x)]]
    <3>1. /\ x \o y \in Seq(Byte) /\ Len(x \o y) = Len(x) + Len(y)
          /\ \A i \in 1 .. Len(x) + Len(y) :
               (x \o y)[i] = IF i <= Len(x) THEN x[i] ELSE y[i - Len(x)]
      OBVIOUS
    <3>2. ASSUME NEW z \in Seq(Byte)
          PROVE  z = [i \in 1 .. Len(z) |-> z[i]]
      OBVIOUS
    <3>3. x \o y = [i \in 1 .. Len(x \o y) |-> (x \o y)[i]]
      BY <3>1, <3>2
    <3> QED
      BY <3>1, <3>3
  <2> QED
    BY <1>1, <1>2, <2>1
<1>4. ASSUME NEW i \in 1 .. Len(c)
      PROVE  (IF i <= Len(a) THEN a[i] ELSE b[i - Len(a)])
               = IF i <= n THEN d[i] ELSE c[i]
  <2>1. CASE i <= n
    BY <1>1, <2>1
  <2>2. CASE ~ (i <= n)
    <3>1. i - n \in 1 .. Len(c) - n /\ n + (i - n) = i
      BY <2>2
    <3> QED
      BY <1>1, <1>2, <2>2, <3>1
  <2> QED
    BY <2>1, <2>2
<1>5. Len(a) + Len(b) = Len(c)
  BY <1>1, <1>2
<1> QED
  BY <1>3, <1>4, <1>5 DEF a, b

LEMMA NewDataIs ==
  ASSUME TypeOK, NEW h \in Handles
  PROVE  /\ NewData(h) \in Seq(Byte) /\ Len(NewData(h)) = Size(buf[h])
         /\ NewData(h) = [i \in 1 .. Size(buf[h]) |-> buf[h].bytes[i]]
<1>1. /\ buf[h].bytes \in Seq(Byte) /\ Size(buf[h]) \in Nat
      /\ Size(buf[h]) <= Len(buf[h].bytes)
  BY SizeFacts DEF TypeOK
<1>2. ASSUME NEW s \in Seq(Byte), NEW n \in Nat, n <= Len(s)
      PROVE  /\ SubSeq(s, 1, n) \in Seq(Byte) /\ Len(SubSeq(s, 1, n)) = n
             /\ SubSeq(s, 1, n) = [i \in 1 .. n |-> s[i]]
  BY <1>2
<1> QED
  BY <1>1, <1>2 DEF NewData

\* The heads of the two header blocks are those of the pair that loads.
LEMMA HeadersAre ==
  ASSUME NEW d, d[Dev(0)] \in HeaderBlocks(0), d[Dev(1)] \in HeaderBlocks(1)
  PROVE  /\ HeadersOn(d) \in Versions
         /\ \A i \in {0, 1} : d[Dev(i)].head = StoreHeader(HeadersOn(d)[i])
<1>1. HeadersOn(d) \in Versions
  BY MixedHeadersLoad DEF HeadersOn
<1>2. ASSUME NEW i \in {0, 1}
      PROVE  d[Dev(i)].head = StoreHeader(HeadersOn(d)[i])
  <2>1. PICK v \in Versions : d[Dev(i)].head = StoreHeader(v[i])
    BY DEF HeaderBlocks, BlockOf
  <2>2. v[i] \in Header
    BY <2>1, VersionFacts DEF Headers
  <2>3. HeadersOn(d)[i] = LoadHeader(d[Dev(i)].head)
    BY DEF HeadersOn, LoadPair
  <2> QED
    BY <2>1, <2>2, <2>3, StoreThenLoad
<1> QED
  BY <1>1, <1>2

\* The content is the bytes of the allocation up to the size of the headers.
LEMMA ContentIs ==
  ASSUME NEW d \in [Lba -> Block], HeadersOn(d) \in Versions
  PROVE  LET s == ActiveLocator(HeadersOn(d)).data_size IN
         /\ s \in Nat /\ s <= MaxSize
         /\ Content(d) = [i \in 1 .. s |-> ByteAt(d, i)]
         /\ Content(d) \in Seq(Byte) /\ Len(Content(d)) = s
<1> DEFINE s == ActiveLocator(HeadersOn(d)).data_size
<1>1. s \in Nat /\ s <= MaxSize
  BY VersionFacts DEF Locator
<1>2. Content(d) = [i \in 1 .. s |-> ByteAt(d, i)]
  BY <1>1, BytesAre, OriginalTyped DEF Content
<1>3. ASSUME NEW i \in 1 .. s PROVE ByteAt(d, i) \in Byte
  <2>1. i \in 1 .. MaxSize
    BY <1>1, OriginalTyped
  <2> DEFINE m == (i - 1) \div BlockSize
             j == ((i - 1) % BlockSize) + 1
  <2>2. m \in 0 .. AllocationNum - 1 /\ j \in 1 .. BlockSize
    BY <2>1, ByteAtPlace
  <2> HIDE DEF m, j
  <2>3. d[AllocationBlock(m)] \in Block
    BY <2>2, AllocationBlocks
  <2>4. d[AllocationBlock(m)].body \in Body
    BY <2>3 DEF Block
  <2>5. d[AllocationBlock(m)].body[j] \in Byte
    BY <2>2, <2>4 DEF Body
  <2> QED
    BY <2>5 DEF ByteAt, m, j
<1> HIDE DEF s
<1>4. Content(d) \in Seq(Byte) /\ Len(Content(d)) = s
  BY <1>1, <1>2, <1>3
<1> QED
  BY <1>1, <1>2, <1>4 DEF s

\* A data block leaves the headers alone, and replaces a prefix of the content.
LEMMA PutTears ==
  ASSUME IInv, NEW h \in Handles, OwnInv(h), pc[h] \in {"direct", "tail_write"},
         Served(h), PutBlock(h), disk' \in [Lba -> Block]
  PROVE  /\ HeadersOn(disk') = HeadersOn(disk)
         /\ \/ Content(disk') = Content(disk)
            \/ \E n \in 1 .. Len(Content(disk)) :
                 /\ n <= Len(NewData(h))
                 /\ Content(disk') = SubSeq(NewData(h), 1, n)
                      \o SubSeq(Content(disk), n + 1, Len(Content(disk)))
<1> DEFINE s == ActiveLocator(HeadersOn(disk)).data_size
           hi == LaidNext(h)
           n == IF hi <= s THEN hi ELSE s
           c == Content(disk)
<1>1. /\ TypeOK /\ WriteInv(h) /\ buf[h] \in Buffers /\ Laid(h, LaidBytes(h))
      /\ disk \in [Lba -> Block] /\ HeadersOn(disk) \in Versions
  BY HeadersAre DEF IInv, TypeOK, OwnInv, WriteInv, WritePc
<1>2. /\ LaidBytes(h) \in Nat /\ hi \in Nat
      /\ LaidBytes(h) <= hi /\ hi <= Size(buf[h])
      /\ \A i \in 1 .. MaxSize :
           ByteAt(disk', i) = IF LaidBytes(h) < i /\ i <= hi
                                THEN buf[h].bytes[i] ELSE ByteAt(disk, i)
      /\ disk'[Dev(0)] = disk[Dev(0)] /\ disk'[Dev(1)] = disk[Dev(1)]
  BY <1>1, PutData
<1>3. HeadersOn(disk') = HeadersOn(disk)
  BY <1>2 DEF HeadersOn
<1>4. /\ s \in Nat /\ s <= MaxSize /\ c \in Seq(Byte) /\ Len(c) = s
      /\ c = [i \in 1 .. s |-> ByteAt(disk, i)]
      /\ Content(disk') = [i \in 1 .. s |-> ByteAt(disk', i)]
  BY <1>1, <1>3, ContentIs
<1>5. /\ NewData(h) \in Seq(Byte) /\ Len(NewData(h)) = Size(buf[h])
      /\ NewData(h) = [i \in 1 .. Size(buf[h]) |-> buf[h].bytes[i]]
      /\ Size(buf[h]) \in Nat
  BY <1>1, NewDataIs, SizeFacts
<1> HIDE DEF s, hi, c
<1>6. n \in Nat /\ n <= s /\ n <= Size(buf[h]) /\ n <= hi /\ MaxSize \in Nat
  <2>1. s \in Nat /\ hi \in Nat /\ hi <= Size(buf[h]) /\ Size(buf[h]) \in Nat
    BY <1>2, <1>4, <1>5
  <2> QED
    BY <2>1, OriginalTyped
<1>7. ASSUME NEW i \in 1 .. s
      PROVE  ByteAt(disk', i) = IF i <= n THEN NewData(h)[i] ELSE c[i]
  <2>1. /\ i \in 1 .. MaxSize
        /\ c[i] = ByteAt(disk, i)
    BY <1>4, <1>6
  <2>2. CASE i <= n
    <3>1. i <= hi /\ i \in 1 .. Size(buf[h])
      <4>1. hi \in Nat /\ s \in Nat /\ Size(buf[h]) \in Nat
        BY <1>2, <1>4, <1>5
      <4> HIDE DEF n
      <4> QED
        BY <4>1, <1>6, <2>2
    <3>2. NewData(h)[i] = buf[h].bytes[i]
      BY <1>5, <3>1
    <3>3. i <= LaidBytes(h) => ByteAt(disk, i) = buf[h].bytes[i]
      BY <1>1, <2>1 DEF Laid
    <3>4. LaidBytes(h) < i \/ i <= LaidBytes(h)
      BY <1>2, <2>1
    <3> QED
      BY <1>2, <2>1, <2>2, <3>1, <3>2, <3>3, <3>4
  <2>3. CASE ~ (i <= n)
    <3>1. ~ (i <= hi)
      BY <1>2, <1>4, <2>3
    <3> QED
      BY <1>2, <2>1, <2>3, <3>1
  <2> QED
    BY <2>2, <2>3
<1> HIDE DEF n
<1>8. Content(disk') = [i \in 1 .. s |-> IF i <= n THEN NewData(h)[i] ELSE c[i]]
  BY <1>4, <1>7
<1>9. CASE n = 0
  <2>1. [i \in 1 .. s |-> IF i <= n THEN NewData(h)[i] ELSE c[i]] = [i \in 1 .. s |-> c[i]]
    BY <1>4, <1>9
  <2>2. [i \in 1 .. s |-> c[i]] = c
    BY <1>4
  <2> QED
    BY <1>3, <1>8, <2>1, <2>2 DEF c
<1>10. CASE n # 0
  <2>1. n \in 1 .. Len(c) /\ n <= Len(NewData(h))
    BY <1>4, <1>5, <1>6, <1>10
  <2>2. SubSeq(NewData(h), 1, n) \o SubSeq(c, n + 1, Len(c))
          = [i \in 1 .. Len(c) |-> IF i <= n THEN NewData(h)[i] ELSE c[i]]
    <3>1. n \in Nat /\ n <= Len(c) /\ n <= Len(NewData(h))
      BY <1>4, <1>5, <1>6
    <3>2. c \in Seq(Byte) /\ NewData(h) \in Seq(Byte)
      BY <1>4, <1>5
    <3> QED
      BY <3>1, <3>2, TornIs
  <2>3. Content(disk') = SubSeq(NewData(h), 1, n) \o SubSeq(c, n + 1, Len(c))
    BY <1>4, <1>8, <2>2
  <2> QED
    BY <1>3, <2>1, <2>3 DEF c
<1> QED
  BY <1>9, <1>10

\* The second header block completes the write: what load_from gets then is the
\* object's headers, and the content is the buffer.
LEMMA PutCompletes ==
  ASSUME IInv, NEW h \in Handles, OwnInv(h), pc[h] = "store_write1",
         Served(h), PutBlock(h), IInv'
  PROVE  HeadersOn(disk') = m_vmgs_data[h] /\ Content(disk') = NewData(h)
<1>1. /\ TypeOK /\ m_vmgs_data[h] \in Versions /\ buf[h] \in Buffers
      /\ disk \in [Lba -> Block] /\ disk' \in [Lba -> Block]
      /\ Laid(h, Size(buf[h]))
      /\ ActiveLocator(m_vmgs_data[h]).data_size = Size(buf[h])
      /\ disk[Dev(0)].head = StoreHeader(m_vmgs_data[h][0])
  BY DEF IInv, TypeOK, HeadersInv, OwnInv, WriteInv, WritePc, StorePc, LaidBytes
<1>2. /\ \A x \in 1 .. MaxSize : ByteAt(disk', x) = ByteAt(disk, x)
      /\ disk'[Dev(1)].head = StoreHeader(m_vmgs_data[h][1])
      /\ disk'[Dev(0)] = disk[Dev(0)]
  BY PutHeader
<1>3. HeadersOn(disk') = m_vmgs_data[h]
  BY <1>1, <1>2, MixedVersions DEF HeadersOn
<1>4. /\ Size(buf[h]) \in Nat /\ Size(buf[h]) <= MaxSize
      /\ Content(disk') = [i \in 1 .. Size(buf[h]) |-> ByteAt(disk', i)]
  BY <1>1, <1>3, ContentIs
<1>5. ASSUME NEW i \in 1 .. Size(buf[h])
      PROVE  ByteAt(disk', i) = buf[h].bytes[i]
  BY <1>1, <1>2, <1>4, OriginalTyped DEF Laid
<1>6. Content(disk') = [i \in 1 .. Size(buf[h]) |-> buf[h].bytes[i]]
  BY <1>4, <1>5
<1> QED
  BY <1>1, <1>3, <1>6, NewDataIs

\* The first header block completes it already, or changes nothing, by which
\* of the two headers is the active one.
LEMMA PutSwitches ==
  ASSUME IInv, NEW h \in Handles, OwnInv(h), pc[h] = "store_write0",
         Served(h), PutBlock(h), IInv'
  PROVE  Content(disk') \in {Content(disk), NewData(h)}
<1> DEFINE u == HeadersOn(disk)
<1>1. /\ TypeOK /\ m_vmgs_data[h] \in Versions /\ buf[h] \in Buffers
      /\ disk \in [Lba -> Block] /\ disk' \in [Lba -> Block]
      /\ Laid(h, Size(buf[h]))
      /\ ActiveLocator(m_vmgs_data[h]).data_size = Size(buf[h])
  BY DEF IInv, TypeOK, HeadersInv, OwnInv, WriteInv, WritePc, StorePc, LaidBytes
<1>2. u \in Versions /\ disk[Dev(1)].head = StoreHeader(u[1])
  BY HeadersAre DEF IInv
<1>3. /\ \A x \in 1 .. MaxSize : ByteAt(disk', x) = ByteAt(disk, x)
      /\ disk'[Dev(0)].head = StoreHeader(m_vmgs_data[h][0])
      /\ disk'[Dev(1)] = disk[Dev(1)]
  BY PutHeader
<1>4. HeadersOn(disk') \in {m_vmgs_data[h], u}
  BY <1>1, <1>2, <1>3, MixedVersions DEF HeadersOn
<1>5. CASE HeadersOn(disk') = u
  <2> DEFINE s == ActiveLocator(u).data_size
  <2>1. /\ s \in Nat /\ s <= MaxSize
        /\ Content(disk') = [i \in 1 .. s |-> ByteAt(disk', i)]
        /\ Content(disk) = [i \in 1 .. s |-> ByteAt(disk, i)]
    BY <1>1, <1>2, <1>5, ContentIs
  <2> HIDE DEF s
  <2>2. \A i \in 1 .. s : ByteAt(disk', i) = ByteAt(disk, i)
    BY <1>3, <2>1, OriginalTyped
  <2> QED
    BY <2>1, <2>2
<1>6. CASE HeadersOn(disk') = m_vmgs_data[h]
  <2>1. /\ Size(buf[h]) \in Nat /\ Size(buf[h]) <= MaxSize
        /\ Content(disk') = [i \in 1 .. Size(buf[h]) |-> ByteAt(disk', i)]
    BY <1>1, <1>6, ContentIs
  <2>2. ASSUME NEW i \in 1 .. Size(buf[h])
        PROVE  ByteAt(disk', i) = buf[h].bytes[i]
    BY <1>1, <1>3, <2>1, OriginalTyped DEF Laid
  <2>3. Content(disk') = [i \in 1 .. Size(buf[h]) |-> buf[h].bytes[i]]
    BY <2>1, <2>2
  <2> QED
    BY <1>1, <2>3, NewDataIs
<1> QED
  BY <1>4, <1>5, <1>6

---------------------------------------------------------------------------
(* A write that returned.                                                  *)

\* Only the second header block makes a write return; anything else that keeps
\* an earlier result leaves the device alone.
LEMMA ResultKinds ==
  ASSUME IInv, NEW h \in Handles, OwnInv(h),
         Call(h) \/ Step(h) \/ Crash(h) \/ PowerLoss \/ Idle
  PROVE  \/ ret'[h].status # "written"
         \/ ret'[h] = ret[h] /\ disk' = disk
         \/ /\ pc[h] = "store_write1" /\ Served(h) /\ PutBlock(h)
            /\ ret'[h] = Result("written", buf[h].bytes) /\ buf[h] \in Buffers
<1>1. TypeOK /\ WriteInv(h) /\ RetInv(h)
  BY DEF IInv, OwnInv
<1>2. ASSUME NEW to, NEW result, Finish(h, to, result)
      PROVE  ret'[h] = result
  BY <1>1, <1>2 DEF Finish, TypeOK
<1>3. ASSUME Forget(h) PROVE ret'[h].status # "written"
  BY <1>1, <1>3 DEF Forget, Finish, Nothing, TypeOK
<1>4. CASE Call(h)
  <2>1. ASSUME NEW w, Open(h, w) PROVE ret' = ret /\ disk' = disk
    BY <2>1 DEF Open
  <2>2. ASSUME NEW b \in Buffers, WriteRefused(h, b) \/ BeginWrite(h, b)
        PROVE  ret'[h].status # "written"
    BY <1>1, <1>2, <2>2 DEF WriteRefused, BeginWrite, Result, Nothing, TypeOK
  <2>3. ASSUME BeginRead(h) PROVE ret'[h].status # "written"
    BY <1>1, <1>2, <2>3 DEF BeginRead, Result, Nothing, TypeOK
  <2>4. ASSUME Close(h) PROVE ret' = ret /\ disk' = disk
    BY <2>4 DEF Close
  <2> QED
    BY <1>3, <1>4, <2>1, <2>2, <2>3, <2>4 DEF Call, Gone
<1>5. CASE Step(h)
  <2>1. CASE StoreWrite1(h)
    <3>1. pc[h] = "store_write1" /\ Served(h) /\ PutBlock(h)
          /\ ret'[h] = Result("written", buf[h].bytes)
      BY <1>2, <2>1 DEF StoreWrite1
    <3> QED
      BY <1>1, <3>1 DEF WriteInv, WritePc
  <2>2. CASE LoadFails(h) \/ Load1(h)
    BY <1>2, <1>3, <2>2 DEF LoadFails, Load1, Nothing
  <2>3. CASE IoFails(h)
    BY <1>2, <2>3 DEF IoFails, Result
  <2>4. CASE ret' = ret /\ pc[h] \notin {"ready", "closed"}
    BY <1>1, <2>4 DEF RetInv, Nothing
  <2>5. CASE TailWrite(h)
    <3>1. pc[h] = "tail_write"
      BY <2>5 DEF TailWrite
    <3> QED
      BY <1>2, <2>4, <2>5, <3>1 DEF TailWrite, Result
  <2>6. CASE ReadBlock(h)
    <3>1. pc[h] = "reading"
      BY <2>6 DEF ReadBlock
    <3>2. CASE k[h] + 1 < ReadBlocks(h)
      BY <2>4, <2>6, <3>1, <3>2 DEF ReadBlock
    <3>3. CASE ~ (k[h] + 1 < ReadBlocks(h))
      <4>1. \E data : Finish(h, "ready", Result("read", data))
        BY <2>6, <3>3 DEF ReadBlock
      <4> QED
        BY <1>2, <4>1 DEF Result
    <3> QED
      BY <3>2, <3>3
  <2>7. CASE \/ Load0(h) \/ DirectWrite(h) \/ TailRead(h) \/ StoreWrite0(h)
             \/ StoreRead(h, 0, "store_read0", "store_read1")
             \/ StoreRead(h, 1, "store_read1", "store_write0")
    BY <2>4, <2>7 DEF Load0, DirectWrite, TailRead, StoreWrite0, StoreRead
  <2>8. CASE ReadNothing(h)
    BY <1>2, <2>8 DEF ReadNothing, Result
  <2> QED
    BY <1>5, <2>1, <2>2, <2>3, <2>5, <2>6, <2>7, <2>8 DEF Step, StoreTo
<1>6. CASE Crash(h)
  BY <1>3, <1>6 DEF Crash
<1>7. CASE PowerLoss
  BY <1>7 DEF PowerLoss, Nothing
<1>8. CASE Idle
  BY <1>8 DEF Idle
<1> QED
  BY <1>4, <1>5, <1>6, <1>7, <1>8

LEMMA WrittenNext ==
  ASSUME OneProcess, ByteItems, IInv, CallInv, IInv', ReturnedWriteIsOnDisk, [Next]_vars
  PROVE  ReturnedWriteIsOnDisk'
<1> SUFFICES ASSUME NEW h \in Handles, ret'[h].status = "written"
             PROVE  Content(disk') = ret'[h].data
  BY DEF ReturnedWriteIsOnDisk, Content, Bytes, HeadersOn, Dev
<1>1. OwnInv(h) /\ TypeOK
  BY DEF CallInv, OwnInv, IInv
<1>2. Call(h) \/ Step(h) \/ Crash(h) \/ PowerLoss \/ Idle
  BY OneSteps DEF OneProcess
<1>3. CASE ret'[h] = ret[h] /\ disk' = disk
  BY <1>3 DEF ReturnedWriteIsOnDisk
<1>4. CASE /\ pc[h] = "store_write1" /\ Served(h) /\ PutBlock(h)
           /\ ret'[h] = Result("written", buf[h].bytes) /\ buf[h] \in Buffers
  <2>1. Content(disk') = NewData(h)
    BY <1>1, <1>4, PutCompletes
  <2>2. /\ buf[h].bytes \in Seq(Byte) /\ buf[h].itemsize = 1
    BY <1>4, BytesAssumption DEF ByteItems
  <2>3. ASSUME NEW s \in Seq(Byte)
        PROVE  SubSeq(s, 1, Len(s) \div 1) = s
    <3>1. Len(s) \div 1 = Len(s)
      OBVIOUS
    <3>2. SubSeq(s, 1, Len(s)) = s
      OBVIOUS
    <3> QED
      BY <3>1, <3>2
  <2>4. NewData(h) = buf[h].bytes
    BY <2>2, <2>3 DEF NewData, Size
  <2> QED
    BY <1>4, <2>1, <2>4 DEF Result
<1> QED
  BY <1>1, <1>2, <1>3, <1>4, ResultKinds

\* A write that returned is what any later reader gets, whole, until the next
\* call starts: on any device, also one that fails and loses power, as long as
\* the items of the buffer are bytes and no other process writes.
THEOREM ReturnedIsStored ==
  ASSUME OneProcess, ByteItems
  PROVE  Spec => []ReturnedWriteIsOnDisk
<1>1. Init => ReturnedWriteIsOnDisk
  BY DEF Init, ReturnedWriteIsOnDisk, Nothing
<1>2. /\ IInv /\ CallInv /\ (IInv /\ CallInv)' /\ ReturnedWriteIsOnDisk
      /\ [Next]_vars
      => ReturnedWriteIsOnDisk'
  BY WrittenNext
<1> QED
  BY <1>1, <1>2, CallInvariance, PTL DEF Spec

---------------------------------------------------------------------------
(* The object's copy of the headers.                                       *)

FreshPc == {"ready", "closed", "reading"} \cup (WritePc \ StorePc)

LEMMA FreshAfter ==
  ASSUME NEW h \in Handles, pc'[h] \notin {"load1"} \cup StorePc,
         pc'[h] \in FreshPc => m_vmgs_data'[h] = HeadersOn(disk')
  PROVE  FreshInv(h)'
  BY DEF FreshInv, FreshPc, HeadersOn, Dev

\* No device call of store_to fails on a device without errors: the header
\* blocks exist, and only an object open for writing gets that far.
LEMMA StoreServed ==
  ASSUME IInv, NEW h \in Handles, FreshInv(h), pc[h] \in StorePc
  PROVE  Served(h)
<1>1. k[h] = 0
  BY DEF IInv, TransferInv, StorePc
<1> QED
  BY <1>1, HeaderLbasFacts, KernelAssumption DEF FreshInv, Served, Target, StorePc

LEMMA FreshCall ==
  ASSUME IInv, NEW h \in Handles, FreshInv(h), Call(h)
  PROVE  FreshInv(h)'
<1>1. TypeOK
  BY DEF IInv
<1>2. ASSUME NEW to, NEW result, Finish(h, to, result)
      PROVE  pc'[h] = to
  BY <1>1, <1>2 DEF Finish, TypeOK
<1>3. CASE Gone(h)
  <2>1. pc'[h] = "none"
    BY <1>2, <1>3 DEF Gone, Forget
  <2> QED
    BY <2>1, FreshAfter DEF FreshPc, StorePc, WritePc
<1>4. ASSUME NEW w, Open(h, w) PROVE FreshInv(h)'
  <2>1. pc'[h] = "load0"
    BY <1>1, <1>4 DEF Open, TypeOK
  <2> QED
    BY <2>1, FreshAfter DEF FreshPc, StorePc, WritePc
<1>5. ASSUME NEW b \in Buffers, WriteRefused(h, b) \/ BeginWrite(h, b)
      PROVE  FreshInv(h)'
  <2>1. pc[h] = "ready" /\ UNCHANGED <<disk, m_vmgs_data>>
    BY <1>5 DEF WriteRefused, BeginWrite
  <2>2. m_vmgs_data[h] = HeadersOn(disk)
    BY <2>1 DEF FreshInv
  <2>3. pc'[h] \in FreshPc \ StorePc
    BY <1>1, <1>2, <1>5 DEF WriteRefused, BeginWrite, TypeOK, FreshPc, StorePc,
         WritePc
  <2> QED
    BY <2>1, <2>2, <2>3, FreshAfter DEF FreshPc, StorePc, WritePc
<1>6. CASE BeginRead(h) \/ Close(h)
  <2>1. pc[h] = "ready" /\ UNCHANGED <<disk, m_vmgs_data>>
    BY <1>6 DEF BeginRead, Close
  <2>2. m_vmgs_data[h] = HeadersOn(disk)
    BY <2>1 DEF FreshInv
  <2>3. pc'[h] \in FreshPc \ StorePc
    BY <1>1, <1>2, <1>6 DEF BeginRead, Close, TypeOK, FreshPc, StorePc, WritePc
  <2> QED
    BY <2>1, <2>2, <2>3, FreshAfter DEF FreshPc, StorePc, WritePc
<1> QED
  BY <1>3, <1>4, <1>5, <1>6 DEF Call

LEMMA FreshStep ==
  ASSUME "io" \notin Faults, IInv, IInv', NEW h \in Handles, OwnInv(h),
         FreshInv(h), Step(h)
  PROVE  FreshInv(h)'
<1>1. /\ TypeOK /\ disk \in [Lba -> Block] /\ disk' \in [Lba -> Block]
  BY DEF IInv, TypeOK
<1>2. ASSUME NEW to, NEW result, Finish(h, to, result)
      PROVE  pc'[h] = to
  BY <1>1, <1>2 DEF Finish, TypeOK
<1>3. ASSUME Forget(h) PROVE FreshInv(h)'
  <2>1. pc'[h] = "none"
    BY <1>2, <1>3 DEF Forget
  <2> QED
    BY <2>1, FreshAfter DEF FreshPc, StorePc, WritePc
<1>4. ASSUME pc'[h] \in FreshPc, m_vmgs_data'[h] = m_vmgs_data[h],
             HeadersOn(disk') = HeadersOn(disk), pc[h] \in FreshPc
      PROVE  FreshInv(h)'
  <2>1. m_vmgs_data'[h] = HeadersOn(disk')
    BY <1>4 DEF FreshInv, FreshPc
  <2>2. pc'[h] \notin {"load1"} \cup StorePc
    BY <1>4 DEF FreshPc, StorePc, WritePc
  <2> QED
    BY <2>1, <2>2, FreshAfter
<1>5. ASSUME pc'[h] \in StorePc, writable'[h] PROVE FreshInv(h)'
  BY <1>5 DEF FreshInv, FreshPc, StorePc, WritePc
<1>6. CASE Load0(h)
  <2>1. pc'[h] = "load1" /\ header_block'[h][0] = disk[Dev(0)] /\ disk' = disk
    BY <1>1, <1>6 DEF Load0, TypeOK
  <2> QED
    BY <2>1 DEF FreshInv, StorePc, WritePc, Dev
<1>7. CASE Load1(h)
  <2>1. pc[h] = "load1" /\ disk' = disk
    BY <1>7 DEF Load1
  <2>2. header_block[h][0].head = disk[Dev(0)].head
    BY <2>1 DEF FreshInv
  <2>3. CASE Forget(h)
    BY <1>3, <2>3
  <2>4. CASE ~ Forget(h)
    <3>1. /\ m_vmgs_data' = [m_vmgs_data EXCEPT ![h] =
                LoadPair(header_block[h][0].head, disk[Dev(1)].head)]
          /\ Finish(h, "ready", Nothing)
      BY <1>7, <2>4 DEF Load1
    <3>2. m_vmgs_data'[h] = HeadersOn(disk')
      BY <1>1, <2>1, <2>2, <3>1 DEF HeadersOn, TypeOK
    <3>3. pc'[h] = "ready"
      BY <1>2, <3>1
    <3> QED
      BY <3>2, <3>3, FreshAfter DEF StorePc
  <2> QED
    BY <2>3, <2>4
<1>8. CASE DirectWrite(h)
  <2>1. /\ pc[h] = "direct" /\ pc'[h] \in {"direct", "tail_read"} /\ Served(h)
        /\ PutBlock(h) /\ m_vmgs_data' = m_vmgs_data
    BY <1>1, <1>8 DEF DirectWrite, TypeOK
  <2>2. HeadersOn(disk') = HeadersOn(disk)
    BY <1>1, <2>1, PutTears
  <2> QED
    BY <1>4, <2>1, <2>2 DEF FreshPc, StorePc, WritePc
<1>9. CASE TailRead(h)
  <2>1. /\ pc[h] = "tail_read" /\ pc'[h] = "tail_write"
        /\ UNCHANGED <<disk, m_vmgs_data>>
    BY <1>1, <1>9 DEF TailRead, TypeOK
  <2> QED
    BY <1>4, <2>1 DEF FreshPc, StorePc, WritePc
<1>10. CASE TailWrite(h)
  <2>1. pc[h] = "tail_write" /\ Served(h) /\ PutBlock(h) /\ writable' = writable
    BY <1>10 DEF TailWrite
  <2>2. CASE Fits(m_vmgs_data[h], Size(buf[h]))
    <3>1. pc'[h] = "store_read0" /\ writable[h]
      BY <1>1, <1>10, <2>1, <2>2 DEF TailWrite, TypeOK, Served, OutPc
    <3> QED
      BY <1>5, <2>1, <3>1 DEF StorePc
  <2>3. CASE ~ Fits(m_vmgs_data[h], Size(buf[h]))
    <3>1. pc'[h] = "ready" /\ m_vmgs_data' = m_vmgs_data
      BY <1>2, <1>10, <2>3 DEF TailWrite
    <3>2. HeadersOn(disk') = HeadersOn(disk)
      BY <1>1, <2>1, PutTears
    <3> QED
      BY <1>4, <2>1, <3>1, <3>2 DEF FreshPc, StorePc, WritePc
  <2> QED
    BY <2>2, <2>3
<1>11. CASE StoreRead(h, 0, "store_read0", "store_read1")
             \/ StoreRead(h, 1, "store_read1", "store_write0")
             \/ StoreWrite0(h)
  <2>1. pc[h] \in StorePc /\ pc'[h] \in StorePc /\ writable' = writable
    BY <1>1, <1>11 DEF StoreRead, StoreWrite0, TypeOK, StorePc
  <2> QED
    BY <1>5, <2>1 DEF FreshInv
<1>12. CASE StoreWrite1(h)
  <2>1. /\ pc[h] = "store_write1" /\ Served(h) /\ PutBlock(h) /\ pc'[h] = "ready"
        /\ m_vmgs_data' = m_vmgs_data
    BY <1>2, <1>12 DEF StoreWrite1
  <2>2. HeadersOn(disk') = m_vmgs_data[h]
    BY <2>1, PutCompletes
  <2> QED
    BY <2>1, <2>2, FreshAfter DEF StorePc
<1>13. CASE ReadBlock(h)
  <2>1. pc[h] = "reading" /\ UNCHANGED <<disk, m_vmgs_data>>
    BY <1>13 DEF ReadBlock
  <2>2. CASE k[h] + 1 < ReadBlocks(h)
    <3>1. pc' = pc
      BY <1>13, <2>2 DEF ReadBlock
    <3> QED
      BY <1>4, <2>1, <3>1 DEF FreshPc
  <2>3. CASE ~ (k[h] + 1 < ReadBlocks(h))
    <3>1. \E result : Finish(h, "ready", result)
      BY <1>13, <2>3 DEF ReadBlock
    <3>2. pc'[h] = "ready"
      BY <1>2, <3>1
    <3> QED
      BY <1>4, <2>1, <3>2 DEF FreshPc
  <2> QED
    BY <2>2, <2>3
<1>14. CASE LoadFails(h)
  BY <1>3, <1>14 DEF LoadFails
<1>16. CASE ReadNothing(h)
  <2>1. /\ pc[h] = "reading" /\ pc'[h] = "ready" /\ UNCHANGED <<disk, m_vmgs_data>>
    BY <1>2, <1>16 DEF ReadNothing
  <2> QED
    BY <1>4, <2>1 DEF FreshPc
<1>15. CASE IoFails(h)
  <2>1. /\ pc[h] \in IoPc \ LoadPc /\ Finish(h, "ready", Result("io_error", <<>>))
        /\ m_vmgs_data' = m_vmgs_data /\ pc'[h] = "ready"
    BY <1>2, <1>15 DEF IoFails
  <2>2. pc[h] \notin StorePc
    BY <1>15, StoreServed DEF IoFails, CallFails, StorePc
  <2>3. pc[h] \in FreshPc
    BY <2>1, <2>2 DEF FreshPc, IoPc, LoadPc
  <2>4. CASE UNCHANGED disk
    BY <1>4, <2>1, <2>3, <2>4 DEF FreshPc
  <2>5. CASE pc[h] \in OutPc /\ Served(h) /\ PutBlock(h)
    <3>1. pc[h] \in {"direct", "tail_write"}
      BY <2>2, <2>5 DEF OutPc, StorePc
    <3>2. HeadersOn(disk') = HeadersOn(disk)
      BY <1>1, <2>5, <3>1, PutTears
    <3> QED
      BY <1>4, <2>1, <2>3, <3>2 DEF FreshPc
  <2> QED
    BY <1>15, <2>4, <2>5 DEF IoFails
<1> QED
  BY <1>6, <1>7, <1>8, <1>9, <1>10, <1>11, <1>12, <1>13, <1>14, <1>15, <1>16
     DEF Step, StoreTo

LEMMA FreshNext ==
  ASSUME OneProcess, "io" \notin Faults, IInv, CallInv, IInv',
         \A h \in Handles : FreshInv(h), [Next]_vars
  PROVE  \A h \in Handles : FreshInv(h)'
<1> SUFFICES ASSUME NEW h \in Handles
             PROVE  FreshInv(h)'
  OBVIOUS
<1>1. OwnInv(h) /\ TypeOK /\ FreshInv(h)
  BY DEF CallInv, OwnInv, IInv
<1>2. Call(h) \/ Step(h) \/ Crash(h) \/ PowerLoss \/ Idle
  BY OneSteps DEF OneProcess
<1>3. CASE Crash(h) \/ PowerLoss
  <2>1. pc'[h] = "none"
    BY <1>1, <1>3 DEF Crash, PowerLoss, Forget, Finish, TypeOK
  <2> QED
    BY <2>1, FreshAfter DEF FreshPc, StorePc, WritePc
<1>4. CASE Idle
  BY <1>1, <1>4 DEF Idle, FreshInv, HeadersOn, Dev
<1> QED
  BY <1>1, <1>2, <1>3, <1>4, FreshCall, FreshStep

\* On a device without errors an object's headers are those of the device
\* between calls, also of an object that outlived a refused write, so that its
\* read() is never stale.
THEOREM NeverStale ==
  ASSUME OneProcess, "io" \notin Faults
  PROVE  Spec => []CacheFresh
<1>1. Init => \A h \in Handles : FreshInv(h)
  BY DEF Init, FreshInv, FreshPc, StorePc, WritePc
<1>2. /\ IInv /\ CallInv /\ (IInv /\ CallInv)' /\ (\A h \in Handles : FreshInv(h))
      /\ [Next]_vars
      => (\A h \in Handles : FreshInv(h))'
  BY FreshNext
<1>3. (\A h \in Handles : FreshInv(h)) => CacheFresh
  BY DEF FreshInv, CacheFresh
<1> QED
  BY <1>1, <1>2, <1>3, CallInvariance, PTL DEF Spec

---------------------------------------------------------------------------
(* VmgsIO implements VmgsStore.                                            *)

Written(h) == ret[h].status = "written"
Writing(h) == pc[h] \in WritePc

\* A step of VmgsStore, in the terms of this module.
StoreBegins(h) ==
  /\ ~ Writing(h) /\ Writing(h)' /\ ~ Written(h)'
  /\ \E b \in Buffers : NewData(h)' = SubSeq(b.bytes, 1, Size(b))
  /\ Content(disk') = Content(disk)

Torn(h) ==
  {SubSeq(NewData(h), 1, n) \o SubSeq(Content(disk), n + 1, Len(Content(disk))) :
     n \in {i \in 1 .. Len(Content(disk)) : i <= Len(NewData(h))}}

StoreGoesOn(h) ==
  /\ Writing(h) /\ Writing(h)' /\ NewData(h)' = NewData(h)
  /\ (Written(h)' <=> Written(h))
  /\ Content(disk') \in {Content(disk), NewData(h)} \cup Torn(h)

StoreReturns(h) ==
  /\ Writing(h) /\ ~ Writing(h)' /\ NewData(h)' = <<>> /\ Written(h)'
  /\ Content(disk') = NewData(h)

StoreAborts(h) ==
  /\ Writing(h) /\ ~ Writing(h)' /\ NewData(h)' = <<>> /\ ~ Written(h)'
  /\ Content(disk') \in {Content(disk), NewData(h)} \cup Torn(h)

StoreOther(h) ==
  /\ NewData(h)' = NewData(h) /\ (Writing(h)' <=> Writing(h))
  /\ Written(h)' => Written(h)
  /\ Content(disk') = Content(disk)

StoreSteps(h) ==
  \/ StoreBegins(h) \/ StoreGoesOn(h) \/ StoreReturns(h) \/ StoreAborts(h)
  \/ StoreOther(h)

LEMMA StoreStepIs ==
  ASSUME StoreSteps(Process)
  PROVE  [Store!Next]_(Store!vars)
<1> DEFINE h == Process
<1>1. CASE StoreBegins(h)
  <2>1. PICK b \in Buffers : NewData(h)' = SubSeq(b.bytes, 1, Size(b))
    BY <1>1 DEF StoreBegins
  <2>2. Store!Begin(SubSeq(b.bytes, 1, Size(b)))
    BY <1>1, <2>1 DEF StoreBegins, Store!Begin, Writing, Written, NewData, InWrite,
         Content, Bytes, HeadersOn, Dev
  <2> QED
    BY <2>2 DEF Store!Next
<1>2. CASE StoreGoesOn(h)
  <2>1. CASE Content(disk') = Content(disk)
    BY <1>2, <2>1 DEF StoreGoesOn, Store!vars, Writing, Written, NewData, InWrite,
         Content, Bytes, HeadersOn, Dev
  <2>2. CASE Content(disk') = NewData(h)
    BY <1>2, <2>2 DEF StoreGoesOn, Store!Next, Store!Switch, Writing, Written,
         NewData, InWrite, Content, Bytes, HeadersOn, Dev
  <2>3. CASE Content(disk') \in Torn(h)
    BY <1>2, <2>3 DEF StoreGoesOn, Store!Next, Store!Tear, Store!Torn,
         Store!Prefixes, Torn, Writing, Written, NewData, InWrite, Content, Bytes,
         HeadersOn, Dev
  <2> QED
    BY <1>2, <2>1, <2>2, <2>3 DEF StoreGoesOn
<1>3. CASE StoreReturns(h)
  <2>1. InWrite /\ InWrite' = FALSE
    BY <1>3 DEF StoreReturns, Writing, InWrite
  <2>2. Content(disk)' = SubSeq(buf[h].bytes, 1, Size(buf[h]))
    BY <1>3 DEF StoreReturns, NewData, Content, Bytes, HeadersOn, Dev
  <2>3. SubSeq(buf[h].bytes, 1, Size(buf[h]))' = <<>>
    BY <1>3 DEF StoreReturns, NewData
  <2>4. (ret[h].status = "written")' = TRUE
    BY <1>3 DEF StoreReturns, Written
  <2>5. Store!Return
    BY <2>1, <2>2, <2>3, <2>4 DEF Store!Return
  <2> QED
    BY <2>5 DEF Store!Next
<1>4. CASE StoreAborts(h)
  <2>1. InWrite /\ InWrite' = FALSE
    BY <1>4 DEF StoreAborts, Writing, InWrite
  <2>2. Content(disk)' \in {Content(disk), SubSeq(buf[h].bytes, 1, Size(buf[h]))}
                            \cup {Store!Torn(n) : n \in Store!Prefixes}
    <3>1. Content(disk)' = Content(disk')
      BY DEF Content, Bytes, HeadersOn, Dev
    <3>2. Torn(h) = {Store!Torn(n) : n \in Store!Prefixes}
      BY DEF Torn, Store!Torn, Store!Prefixes, NewData
    <3> QED
      BY <1>4, <3>1, <3>2 DEF StoreAborts, NewData
  <2>3. SubSeq(buf[h].bytes, 1, Size(buf[h]))' = <<>>
    BY <1>4 DEF StoreAborts, NewData
  <2>4. (ret[h].status = "written")' = FALSE
    BY <1>4 DEF StoreAborts, Written
  <2>5. Store!Abort
    BY <2>1, <2>2, <2>3, <2>4 DEF Store!Abort
  <2> QED
    BY <2>5 DEF Store!Next
<1>5. CASE StoreOther(h)
  <2>1. InWrite' = InWrite
    BY <1>5 DEF StoreOther, Writing, InWrite
  <2>2. Content(disk)' = Content(disk)
    BY <1>5 DEF StoreOther, Content, Bytes, HeadersOn, Dev
  <2>3. SubSeq(buf[h].bytes, 1, Size(buf[h]))' = SubSeq(buf[h].bytes, 1, Size(buf[h]))
    BY <1>5 DEF StoreOther, NewData
  <2>4. CASE Written(h)'
    <3>1. (ret[h].status = "written")' = (ret[h].status = "written")
      BY <1>5, <2>4 DEF StoreOther, Written
    <3> QED
      BY <2>1, <2>2, <2>3, <3>1 DEF Store!vars
  <2>5. CASE ~ Written(h)'
    <3>1. (ret[h].status = "written")' = FALSE
      BY <2>5 DEF Written
    <3>2. Store!Other
      BY <2>1, <2>2, <2>3, <3>1 DEF Store!Other
    <3> QED
      BY <3>2 DEF Store!Next
  <2> QED
    BY <2>4, <2>5
<1> QED
  BY <1>1, <1>2, <1>3, <1>4, <1>5 DEF StoreSteps

\* The ways a call goes on or ends, as VmgsStore sees them.
LEMMA QuietStep ==
  ASSUME NEW h \in Handles, disk' = disk, buf'[h] = buf[h],
         (pc'[h] \in WritePc) = (pc[h] \in WritePc),
         ret'[h].status = "written" => ret[h].status = "written"
  PROVE  StoreSteps(h)
<1>1. NewData(h)' = NewData(h)
  BY DEF NewData, Size
<1>2. (Writing(h)' <=> Writing(h)) /\ (Written(h)' => Written(h))
  BY DEF Writing, Written
<1> QED
  BY <1>1, <1>2 DEF StoreSteps, StoreOther

LEMMA FinishEnds ==
  ASSUME TypeOK, NEW h \in Handles, NEW to \in Pc \ WritePc, NEW result,
         Finish(h, to, result)
  PROVE  /\ ~ Writing(h)' /\ NewData(h)' = <<>>
         /\ (Written(h)' <=> result.status = "written")
<1>1. pc'[h] = to /\ buf'[h] = NoBuffer /\ ret'[h] = result
  BY DEF Finish, TypeOK
<1>2. SubSeq(NoBuffer.bytes, 1, Size(NoBuffer)) = <<>>
  BY DEF NoBuffer, Size
<1> QED
  BY <1>1, <1>2 DEF Writing, Written, NewData, Size

LEMMA QuietEnd ==
  ASSUME TypeOK, NEW h \in Handles, OwnInv(h), pc[h] \notin WritePc,
         NEW to \in Pc \ WritePc, NEW result, result.status # "written",
         Finish(h, to, result), disk' = disk
  PROVE  StoreSteps(h)
<1>1. buf[h] = NoBuffer
  BY DEF OwnInv, WriteInv
<1>2. NewData(h) = <<>>
  BY <1>1 DEF NewData, NoBuffer, Size
<1> QED
  BY <1>2, FinishEnds DEF StoreSteps, StoreOther, Writing

LEMMA WriteEnds ==
  ASSUME TypeOK, NEW h \in Handles, pc[h] \in WritePc,
         NEW to \in Pc \ WritePc, NEW result, result.status # "written",
         Finish(h, to, result),
         Content(disk') \in {Content(disk), NewData(h)} \cup Torn(h)
  PROVE  StoreSteps(h)
  BY FinishEnds DEF StoreSteps, StoreAborts, Writing

\* Whatever block of a write goes out, the content is torn, switched or as it
\* was.
LEMMA PutEffect ==
  ASSUME IInv, IInv', NEW h \in Handles, OwnInv(h), pc[h] \in OutPc, Served(h),
         PutBlock(h)
  PROVE  Content(disk') \in {Content(disk), NewData(h)} \cup Torn(h)
<1>1. disk' \in [Lba -> Block]
  BY DEF IInv, TypeOK
<1>2. CASE pc[h] \in {"direct", "tail_write"}
  BY <1>1, <1>2, PutTears DEF Torn
<1>3. CASE pc[h] = "store_write0"
  BY <1>3, PutSwitches
<1>4. CASE pc[h] = "store_write1"
  BY <1>4, PutCompletes
<1> QED
  BY <1>2, <1>3, <1>4 DEF OutPc

LEMMA StoreCall ==
  ASSUME IInv, NEW h \in Handles, OwnInv(h), Call(h)
  PROVE  StoreSteps(h)
<1>1. TypeOK /\ WriteInv(h)
  BY DEF IInv, OwnInv
<1>2. /\ "none" \in Pc \ WritePc /\ "ready" \in Pc \ WritePc
      /\ Nothing.status # "written"
  BY DEF Pc, IoPc, LoadPc, WritePc, Nothing
<1>3. CASE Gone(h)
  BY <1>1, <1>2, <1>3, QuietEnd DEF Gone, Forget, WritePc
<1>4. ASSUME NEW w, Open(h, w) PROVE StoreSteps(h)
  <2>1. /\ pc[h] = "none" /\ pc'[h] = "load0" /\ buf' = buf /\ ret' = ret
        /\ disk' = disk
    BY <1>1, <1>4 DEF Open, TypeOK
  <2> QED
    BY <2>1, QuietStep DEF WritePc
<1>5. ASSUME NEW b \in Buffers, WriteRefused(h, b) PROVE StoreSteps(h)
  BY <1>1, <1>2, <1>5, QuietEnd DEF WriteRefused, Result, WritePc
<1>6. ASSUME NEW b \in Buffers, BeginWrite(h, b) PROVE StoreSteps(h)
  <2>1. /\ pc[h] = "ready" /\ pc'[h] \in WritePc /\ buf'[h] = b
        /\ ret'[h] = Nothing /\ disk' = disk
    BY <1>1, <1>6 DEF BeginWrite, TypeOK, WritePc
  <2>2. NewData(h)' = SubSeq(b.bytes, 1, Size(b))
    BY <2>1 DEF NewData, Size
  <2>3. ~ Writing(h) /\ Writing(h)' /\ ~ Written(h)'
    BY <2>1 DEF Writing, Written, WritePc, Nothing
  <2> QED
    BY <2>1, <2>2, <2>3 DEF StoreSteps, StoreBegins
<1>7. CASE BeginRead(h)
  <2>1. CASE ReadBlocks(h) = 0
    BY <1>1, <1>2, <1>7, <2>1, QuietEnd DEF BeginRead, Result, WritePc
  <2>2. CASE ReadBlocks(h) # 0
    <3>1. /\ pc[h] = "ready" /\ pc'[h] = "reading" /\ buf' = buf
          /\ ret'[h] = Nothing /\ disk' = disk
      BY <1>1, <1>7, <2>2 DEF BeginRead, TypeOK
    <3> QED
      BY <1>2, <3>1, QuietStep DEF WritePc
  <2> QED
    BY <2>1, <2>2
<1>8. CASE Close(h)
  <2>1. /\ pc[h] = "ready" /\ pc'[h] = "closed" /\ buf' = buf /\ ret' = ret
        /\ disk' = disk
    BY <1>1, <1>8 DEF Close, TypeOK
  <2> QED
    BY <2>1, QuietStep DEF WritePc
<1> QED
  BY <1>3, <1>4, <1>5, <1>6, <1>7, <1>8 DEF Call

LEMMA StoreStep ==
  ASSUME IInv, IInv', NEW h \in Handles, OwnInv(h), Step(h)
  PROVE  StoreSteps(h)
<1>1. TypeOK /\ WriteInv(h) /\ disk' \in [Lba -> Block]
  BY DEF IInv, TypeOK, OwnInv
<1>2. /\ "none" \in Pc \ WritePc /\ "ready" \in Pc \ WritePc
      /\ Nothing.status # "written"
  BY DEF Pc, IoPc, LoadPc, WritePc, Nothing
<1>3. ASSUME pc[h] \in WritePc, pc'[h] \in WritePc, buf'[h] = buf[h], ret'[h] = ret[h],
             Content(disk') \in {Content(disk), NewData(h)} \cup Torn(h)
      PROVE  StoreSteps(h)
  <2>1. NewData(h)' = NewData(h)
    BY <1>3 DEF NewData, Size
  <2>2. Writing(h) /\ Writing(h)' /\ (Written(h)' <=> Written(h))
    BY <1>3 DEF Writing, Written
  <2> QED
    BY <1>3, <2>1, <2>2 DEF StoreSteps, StoreGoesOn
<1>4. CASE Load0(h)
  <2>1. /\ pc[h] = "load0" /\ pc'[h] = "load1" /\ buf' = buf /\ ret' = ret
        /\ disk' = disk
    BY <1>1, <1>4 DEF Load0, TypeOK
  <2> QED
    BY <2>1, QuietStep DEF WritePc
<1>5. CASE Load1(h) \/ LoadFails(h)
  <2>1. \E to \in Pc \ WritePc : Finish(h, to, Nothing)
    BY <1>2, <1>5 DEF Load1, LoadFails, Forget
  <2>2. pc[h] \notin WritePc /\ disk' = disk
    BY <1>5 DEF Load1, LoadFails, LoadPc, WritePc
  <2> QED
    BY <1>1, <1>2, <2>1, <2>2, QuietEnd
<1>6. CASE DirectWrite(h)
  <2>1. /\ pc[h] = "direct" /\ pc'[h] \in {"direct", "tail_read"} /\ Served(h)
        /\ PutBlock(h) /\ buf' = buf /\ ret' = ret
    BY <1>1, <1>6 DEF DirectWrite, TypeOK
  <2> QED
    BY <1>3, <2>1, PutEffect DEF WritePc, OutPc
<1>7. CASE \/ TailRead(h)
           \/ StoreRead(h, 0, "store_read0", "store_read1")
           \/ StoreRead(h, 1, "store_read1", "store_write0")
  <2>1. /\ pc[h] \in WritePc /\ pc'[h] \in WritePc /\ buf' = buf /\ ret' = ret
        /\ disk' = disk
    BY <1>1, <1>7 DEF TailRead, StoreRead, TypeOK, WritePc
  <2> QED
    BY <1>3, <2>1
<1>8. CASE TailWrite(h)
  <2>1. pc[h] = "tail_write" /\ Served(h) /\ PutBlock(h)
    BY <1>8 DEF TailWrite
  <2>2. Content(disk') \in {Content(disk), NewData(h)} \cup Torn(h)
    BY <2>1, PutEffect DEF OutPc
  <2>3. CASE Fits(m_vmgs_data[h], Size(buf[h]))
    <3>1. pc'[h] = "store_read0" /\ buf' = buf /\ ret' = ret
      BY <1>1, <1>8, <2>3 DEF TailWrite, TypeOK
    <3> QED
      BY <1>3, <2>1, <2>2, <3>1 DEF WritePc
  <2>4. CASE ~ Fits(m_vmgs_data[h], Size(buf[h]))
    BY <1>1, <1>2, <1>8, <2>1, <2>2, <2>4, WriteEnds DEF TailWrite, Result, WritePc
  <2> QED
    BY <2>3, <2>4
<1>9. CASE StoreWrite0(h)
  <2>1. /\ pc[h] = "store_write0" /\ pc'[h] = "store_write1" /\ Served(h)
        /\ PutBlock(h) /\ buf' = buf /\ ret' = ret
    BY <1>1, <1>9 DEF StoreWrite0, TypeOK
  <2> QED
    BY <1>3, <2>1, PutEffect DEF WritePc, OutPc
<1>10. CASE StoreWrite1(h)
  <2>1. /\ pc[h] = "store_write1" /\ Served(h) /\ PutBlock(h)
        /\ Finish(h, "ready", Result("written", buf[h].bytes))
    BY <1>10 DEF StoreWrite1
  <2>2. ~ Writing(h)' /\ NewData(h)' = <<>> /\ Written(h)'
    BY <1>1, <1>2, <2>1, FinishEnds DEF Result
  <2>3. Content(disk') = NewData(h)
    BY <2>1, PutCompletes
  <2> QED
    BY <2>1, <2>2, <2>3 DEF StoreSteps, StoreReturns, Writing, WritePc
<1>11. CASE ReadBlock(h)
  <2>1. pc[h] = "reading" /\ disk' = disk
    BY <1>11 DEF ReadBlock
  <2>2. CASE k[h] + 1 < ReadBlocks(h)
    <3>1. pc' = pc /\ buf' = buf /\ ret' = ret
      BY <1>11, <2>2 DEF ReadBlock
    <3> QED
      BY <2>1, <3>1, QuietStep
  <2>3. CASE ~ (k[h] + 1 < ReadBlocks(h))
    <3>1. PICK data : Finish(h, "ready", Result("read", data))
      BY <1>11, <2>3 DEF ReadBlock
    <3>2. Result("read", data).status # "written"
      BY DEF Result
    <3> QED
      BY <1>1, <1>2, <2>1, <3>1, <3>2, QuietEnd DEF WritePc
  <2> QED
    BY <2>2, <2>3
<1>12. CASE IoFails(h)
  <2>1. /\ pc[h] \in IoPc \ LoadPc /\ Finish(h, "ready", Result("io_error", <<>>))
        /\ UNCHANGED disk \/ (pc[h] \in OutPc /\ Served(h) /\ PutBlock(h))
    BY <1>12 DEF IoFails
  <2>2. Result("io_error", <<>>).status # "written"
    BY DEF Result
  <2>3. CASE pc[h] \in WritePc
    <3>1. Content(disk') \in {Content(disk), NewData(h)} \cup Torn(h)
      BY <2>1, PutEffect
    <3> QED
      BY <1>1, <1>2, <2>1, <2>2, <2>3, <3>1, WriteEnds
  <2>4. CASE pc[h] \notin WritePc
    <3>1. disk' = disk
      BY <2>1, <2>4 DEF OutPc, WritePc
    <3> QED
      BY <1>1, <1>2, <2>1, <2>2, <2>4, <3>1, QuietEnd
  <2> QED
    BY <2>3, <2>4
<1>13. CASE ReadNothing(h)
  BY <1>1, <1>2, <1>13, QuietEnd DEF ReadNothing, Result, WritePc
<1> QED
  BY <1>4, <1>5, <1>6, <1>7, <1>8, <1>9, <1>10, <1>11, <1>12, <1>13 DEF Step, StoreTo

LEMMA StoreNext ==
  ASSUME OneProcess, "power" \notin Faults, IInv, CallInv, IInv', [Next]_vars
  PROVE  [Store!Next]_(Store!vars)
<1>1. ASSUME NEW h \in Handles PROVE StoreSteps(h)
  <2>1. OwnInv(h) /\ TypeOK
    BY DEF CallInv, OwnInv, IInv
  <2>2. Call(h) \/ Step(h) \/ Crash(h) \/ Idle
    BY OneSteps DEF OneProcess
  <2>3. CASE Crash(h)
    <3>1. Finish(h, "none", Nothing) /\ disk' = disk
      BY <2>3 DEF Crash, Forget
    <3>2. "none" \in Pc \ WritePc /\ Nothing.status # "written"
      BY DEF Pc, WritePc, Nothing
    <3> QED
      BY <2>1, <3>1, <3>2, QuietEnd, WriteEnds
  <2>4. CASE Idle
    BY <2>4, QuietStep DEF Idle
  <2> QED
    BY <2>1, <2>2, <2>3, <2>4, StoreCall, StoreStep
<1>2. Process \in Handles
  BY DEF OneProcess
<1> QED
  BY <1>1, <1>2, StoreStepIs

LEMMA StoreInit ==
  ASSUME OneProcess, Init
  PROVE  Store!Init
<1>1. Process \in Handles
  BY DEF OneProcess
<1>2. Content(disk) = Content(Image)
  BY DEF Init
<1>3. /\ pc[Process] = "none" /\ buf[Process] = NoBuffer /\ ret[Process] = Nothing
  BY <1>1 DEF Init
<1>4. InWrite = FALSE /\ (ret[Process].status = "written") = FALSE
  BY <1>3 DEF InWrite, WritePc, Nothing
<1>5. SubSeq(buf[Process].bytes, 1, Size(buf[Process])) = <<>>
  BY <1>3 DEF NoBuffer, Size
<1> QED
  BY <1>2, <1>4, <1>5 DEF Store!Init

\* VmgsIO does to the content what VmgsStore allows: whatever fails or crashes,
\* the new size is there from the step on that makes the content the new bytes,
\* and no step of a write before that one does more than put a prefix of the
\* new bytes over the old ones.  A loss of power is no step of VmgsStore: no
\* code path flushes the device, so that a write that returned can be undone.
THEOREM ImplementsStoreHolds ==
  ASSUME OneProcess, "power" \notin Faults
  PROVE  Spec => ImplementsStore
<1>1. Init => Store!Init
  BY StoreInit
<1>2. /\ IInv /\ CallInv /\ (IInv /\ CallInv)' /\ [Next]_vars
      => [Store!Next]_(Store!vars)
  BY StoreNext
<1> QED
  BY <1>1, <1>2, CallInvariance, PTL DEF Spec, ImplementsStore, Store!Spec
=============================================================================
