------------------------------- MODULE VmgsIO -------------------------------
(***************************************************************************)
(* VmgsIO objects (src/src/Vmgs.cpp) on one block device: construction,    *)
(* read(), write(), close() and destruction, with every device call of the *)
(* code a step of its own.  Each process of Handles owns at most one       *)
(* object; several processes may have the same device open, and nothing in *)
(* the code keeps them apart.                                              *)
(*                                                                         *)
(* The partition is PartBlocks blocks of the device from block PartFirst:  *)
(* all of it for from_partition, a VhdPartitionRef for from_disk.  A block *)
(* is atomic; a transfer of several blocks is one step per block, and may  *)
(* stop after any of them.  disk is what reads return, media what survives *)
(* a power failure: no code path flushes the device.                       *)
(***************************************************************************)
EXTENDS VmgsFormat, Sequences

CONSTANTS
  Handles,     \* the processes
  Byte,        \* values of a byte
  Zero,        \* std::byte{}
  Buffers,     \* what write() may be given: [bytes, itemsize]
  DiskBlocks,  \* blocks of the device
  PartFirst,   \* first block of the partition
  PartBlocks,  \* blocks of the partition
  Image,       \* the device's blocks before any process starts
  KernelLimit, \* the most blocks that one read(2) or write(2) moves
  Faults       \* which of "io", "crash", "power" can happen

VARIABLES
  disk,          \* block -> [head, body], as the processes see the device
  media,         \* the same after a loss of power
  pc,            \* where each process is
  writable,      \* the device was opened for writing
  m_vmgs_data,   \* the object's VmgsData: its copy of the two headers
  buf,           \* the buffer of the write() in progress
  k,             \* blocks moved so far by the transfer in progress
  single_block,  \* write()'s block for the part below a block boundary
  header_block,  \* the header blocks held by load_from and store_to
  got,           \* what the read() in progress has received
  ret            \* how the last call ended

vars == <<disk, media, pc, writable, m_vmgs_data, buf, k, single_block,
          header_block, got, ret>>

---------------------------------------------------------------------------
Lba == 0 .. DiskBlocks - 1
Body == [1 .. BlockSize -> Byte]

\* A block whose first bytes are `head' (a header layout, or Raw) and whose
\* other bytes are `body'.
BlockOf(head, body) == [head |-> head, body |-> body]
EmptyBlock == BlockOf(Raw, [j \in 1 .. BlockSize |-> Zero])

\* The device block of block `lba' of the partition.
Dev(lba) == PartFirst + lba

HeadersOn(d) == LoadPair(d[Dev(0)].head, d[Dev(1)].head)

\* load_from accepts the headers on d.
Loads(d) == PairLoads(d[Dev(0)].head, d[Dev(1)].head, PartBlocks)

\* Bytes 1 .. n of the active allocation.
Bytes(d, n) ==
  LET lba == ActiveLocator(HeadersOn(d)).allocation_lba IN
  [i \in 1 .. n |->
     d[Dev(lba + (i - 1) \div BlockSize)].body[((i - 1) % BlockSize) + 1]]

\* What a new object's read() returns when the device holds d.
Content(d) == Bytes(d, ActiveLocator(HeadersOn(d)).data_size)

Original == HeadersOn(Image)
MaxSize == Capacity(ActiveLocator(Original))
ActiveLbas == {Dev(lba) : lba \in AllocationLbas(ActiveLocator(Original))}
HeaderLbas == {Dev(0), Dev(1)}

\* buf_info.size: the number of items of the buffer.
Size(b) == Len(b.bytes) \div b.itemsize

ASSUME GeometryAssumption ==
  /\ DiskBlocks \in Nat /\ PartFirst \in Nat /\ PartBlocks \in Nat
  /\ PartBlocks >= 2
  /\ PartFirst + PartBlocks <= DiskBlocks

ASSUME BytesAssumption ==
  /\ Zero \in Byte
  /\ \A b \in Buffers : /\ b.bytes \in Seq(Byte)
                        /\ b.itemsize \in Nat \ {0}

\* The device holds a VMGS whose headers were written by the format's own
\* rules, and whose active allocation lies in the partition, beyond the two
\* header blocks.
ASSUME ImageAssumption ==
  /\ Image \in [Lba -> [head : {Image[b].head : b \in Lba}, body : Body]]
  /\ Loads(Image)
  /\ Original \in Headers
  /\ \A i \in {0, 1} : Image[Dev(i)].head = StoreHeader(Original[i])
  /\ LET l == ActiveLocator(Original) IN
       /\ l.allocation_lba >= 2
       /\ l.allocation_lba + l.allocation_num <= PartBlocks
       /\ l.allocation_num * BlockSize < U64

ASSUME KernelAssumption == KernelLimit \in Nat \ {0}

ASSUME FaultsAssumption == Faults \subseteq {"io", "crash", "power"}

---------------------------------------------------------------------------
(* Program counters: "none" no object, "load*" the constructor, "ready"    *)
(* between calls, "direct" .. "store_write1" in write(), "reading" in      *)
(* read(), "closed" after close().                                         *)

LoadPc == {"load0", "load1"}
WritePc == {"direct", "tail_read", "tail_write", "store_read0",
            "store_read1", "store_write0", "store_write1"}
OutPc == {"direct", "tail_write", "store_write0", "store_write1"}
IoPc == LoadPc \cup WritePc \cup {"reading"}
Pc == IoPc \cup {"none", "ready", "closed"}

NoBuffer == [bytes |-> <<>>, itemsize |-> 1]
Nothing == [status |-> "none", data |-> <<>>]
Result(status, data) == [status |-> status, data |-> data]

\* uint32_t n = buf_info.size / block_size, and the bytes beyond n blocks.
DirectBlocks(h) == Size(buf[h]) \div BlockSize
FaultyTailBytes(h) ==
  SubSeq(buf[h].bytes, 1, Size(buf[h]) - DirectBlocks(h) * BlockSize)

TailBytes(h) == SubSeq(buf[h].bytes, DirectBlocks(h) * BlockSize + 1, Size(buf[h]))

FaultyBlocksOf(size) == size \div BlockSize + 1

\* Blocks that read() asks for, and those a transfer of n blocks moves: the
\* device computes its length n * m_block_size in uint32_t.
BlocksOf(size) == (size + BlockSize - 1) \div BlockSize
ReadBlocks(h) == BlocksOf(ActiveLocator(m_vmgs_data[h]).data_size)
Moved(n) == ((n * BlockSize) % U32) \div BlockSize

\* from_partition opens a UnixBlockDevice, from_disk a VhdDisk.
FromPartition == PartFirst = 0 /\ PartBlocks = DiskBlocks

\* memcpy of `bytes' over the first bytes of block blk.
Overlay(blk, bytes) ==
  BlockOf(IF bytes = <<>> THEN blk.head ELSE Raw,
          [j \in 1 .. BlockSize |->
             IF j <= Len(bytes) THEN bytes[j] ELSE blk.body[j]])

FaultyTarget(h) ==
  CASE pc[h] \in {"load0", "store_read0", "store_write0"} -> 0
    [] pc[h] \in {"load1", "store_read1", "store_write1"} -> 1
    [] pc[h] \in {"direct", "reading"} ->
         ActiveLocator(m_vmgs_data[h]).allocation_lba + k[h]
    [] OTHER ->
         ActiveLocator(m_vmgs_data[h]).allocation_lba + DirectBlocks(h) + 1

FaultyTargetBytes(h) ==
  CASE pc[h] \in {"load0", "store_read0", "store_write0"} -> 0
    [] pc[h] \in {"load1", "store_read1", "store_write1"} -> 1
    [] pc[h] \in {"direct", "reading"} ->
         ActiveLocator(m_vmgs_data[h]).allocation_lba + k[h]
    [] OTHER -> ActiveLocator(m_vmgs_data[h]).allocation_lba
                  + DirectBlocks(h) * BlockSize

\* The block of the partition that the device call at pc[h] addresses.
Target(h) ==
  CASE pc[h] \in {"load0", "store_read0", "store_write0"} -> 0
    [] pc[h] \in {"load1", "store_read1", "store_write1"} -> 1
    [] pc[h] \in {"direct", "reading"} ->
         ActiveLocator(m_vmgs_data[h]).allocation_lba + k[h]
    [] OTHER ->
         ActiveLocator(m_vmgs_data[h]).allocation_lba + DirectBlocks(h)

\* The device can serve that call: the block exists, a write has a descriptor
\* open for writing, and the one system call of a UnixBlockDevice has not come
\* to its limit.
Served(h) ==
  /\ Dev(Target(h)) \in Lba
  /\ pc[h] \in OutPc => writable[h]
  /\ FromPartition => k[h] < KernelLimit

At(h, from) == pc[h] = from /\ Served(h)

FaultyChunk(h) == SubSeq(buf[h].bytes, 1, BlockSize)

\* The block that a device write at pc[h] carries: the next whole block of
\* the buffer, single_block with the tail copied into it, or a header block
\* with the object's header stored into it.
Chunk(h) == SubSeq(buf[h].bytes, k[h] * BlockSize + 1, (k[h] + 1) * BlockSize)

FaultyStoredChecksum(h, i) ==
  BlockOf([StoreHeader(m_vmgs_data[h][i]) EXCEPT
             !.checksum = header_block[h][i].head.checksum],
          header_block[h][i].body)

FaultyStored(h, i) ==
  BlockOf(StoreHeader(m_vmgs_data[h][i]), EmptyBlock.body)

Stored(h, i) ==
  BlockOf(StoreHeader(m_vmgs_data[h][i]), header_block[h][i].body)
Outgoing(h) ==
  CASE pc[h] = "direct" -> Overlay(EmptyBlock, Chunk(h))
    [] pc[h] = "tail_write" -> Overlay(single_block[h], TailBytes(h))
    [] pc[h] = "store_write0" -> Stored(h, 0)
    [] pc[h] = "store_write1" -> Stored(h, 1)
FaultyPutBlock(h) == disk' = [disk EXCEPT ![Target(h)] = Outgoing(h)]

PutBlock(h) == disk' = [disk EXCEPT ![Dev(Target(h))] = Outgoing(h)]
Goto(h, to) == pc' = [pc EXCEPT ![h] = to]

\* End of a call: its locals go out of scope.
Finish(h, to, result) ==
  /\ Goto(h, to)
  /\ buf' = [buf EXCEPT ![h] = NoBuffer]
  /\ k' = [k EXCEPT ![h] = 0]
  /\ single_block' = [single_block EXCEPT ![h] = EmptyBlock]
  /\ header_block' = [header_block EXCEPT ![h] = [i \in {0, 1} |-> EmptyBlock]]
  /\ got' = [got EXCEPT ![h] = <<>>]
  /\ ret' = [ret EXCEPT ![h] = result]

\* The object, or the whole process, is gone.
Forget(h) ==
  /\ Finish(h, "none", Nothing)
  /\ writable' = [writable EXCEPT ![h] = FALSE]
  /\ m_vmgs_data' = [m_vmgs_data EXCEPT ![h] = <<>>]

---------------------------------------------------------------------------
(* The constructor: from_partition or from_disk by the keyword arguments,  *)
(* which open the device, then VmgsData::load_from.                        *)

\* The arguments, each one missing, of the right type or of another one.
Kwargs == [dev : {"missing", "str", "other"}, file : {"missing", "str", "other"},
           writable : {"missing", "true", "false", "other"}]

\* What the constructor does not refuse on the spot: arguments of the right
\* types, dev for a device that is the partition, file for a disk that has it.
Accepts(kw) ==
  /\ "other" \notin {kw.dev, kw.file, kw.writable}
  /\ IF FromPartition
       THEN kw.dev = "str" /\ kw.file = "missing"
       ELSE kw.dev = "missing" /\ kw.file = "str"

\* from_disk attaches the disk for writing, whatever is asked for.
Writable(kw) == kw.file = "str" \/ kw.writable = "true"

Open(h, w) ==
  /\ pc[h] = "none"
  /\ Goto(h, "load0")
  /\ writable' = [writable EXCEPT ![h] = w]
  /\ UNCHANGED <<disk, media, m_vmgs_data, buf, k, single_block, header_block,
                 got, ret>>

Load0(h) ==
  /\ At(h, "load0")
  /\ header_block' = [header_block EXCEPT ![h][0] = disk[Dev(0)]]
  /\ Goto(h, "load1")
  /\ UNCHANGED <<disk, media, writable, m_vmgs_data, buf, k, single_block, got,
                 ret>>

\* The second header is read and both are checked.  The object is made; or
\* load_from throws, and the device is closed again.
Load1(h) ==
  LET y0 == header_block[h][0].head
      y1 == disk[Dev(1)].head IN
  /\ At(h, "load1")
  /\ IF PairLoads(y0, y1, PartBlocks)
       THEN /\ m_vmgs_data' = [m_vmgs_data EXCEPT ![h] = LoadPair(y0, y1)]
            /\ Finish(h, "ready", Nothing)
            /\ UNCHANGED writable
       ELSE Forget(h)
  /\ UNCHANGED <<disk, media>>

---------------------------------------------------------------------------
(* VmgsIO::write.                                                          *)

\* A buffer that is too long is refused before anything is written.
WriteRefused(h, b) ==
  /\ pc[h] = "ready"
  /\ Size(b) >= U32
  /\ Finish(h, "ready", Result("value_error", <<>>))
  /\ UNCHANGED <<disk, media, writable, m_vmgs_data>>

BeginWrite(h, b) ==
  /\ pc[h] = "ready"
  /\ Size(b) < U32
  /\ buf' = [buf EXCEPT ![h] = b]
  /\ ret' = [ret EXCEPT ![h] = Nothing]
  /\ Goto(h, IF Size(b) >= BlockSize THEN "direct" ELSE "tail_read")
  /\ UNCHANGED <<disk, media, writable, m_vmgs_data, k, single_block,
                 header_block, got>>

FaultyDirectWrite(h) ==
  /\ At(h, "direct")
  /\ PutBlock(h)
  /\ Goto(h, IF k[h] + 1 < DirectBlocks(h) THEN "direct" ELSE "tail_read")
  /\ UNCHANGED <<media, writable, m_vmgs_data, buf, k, single_block,
                 header_block, got, ret>>

\* One block of write_blocks(allocation_lba, n, buf_info.ptr).
DirectWrite(h) ==
  /\ At(h, "direct")
  /\ PutBlock(h)
  /\ IF k[h] + 1 < DirectBlocks(h)
       THEN /\ k' = [k EXCEPT ![h] = @ + 1]
            /\ Goto(h, "direct")
       ELSE /\ k' = [k EXCEPT ![h] = 0]
            /\ Goto(h, "tail_read")
  /\ UNCHANGED <<media, writable, m_vmgs_data, buf, single_block, header_block,
                 got, ret>>

FaultyTailRead(h) ==
  /\ At(h, "tail_read")
  /\ Goto(h, "tail_write")
  /\ UNCHANGED <<disk, media, writable, m_vmgs_data, buf, k, single_block,
                 header_block, got, ret>>

\* The block after the last whole one is always read and written back, also
\* when no byte of it changes.
TailRead(h) ==
  /\ At(h, "tail_read")
  /\ single_block' = [single_block EXCEPT ![h] = disk[Dev(Target(h))]]
  /\ Goto(h, "tail_write")
  /\ UNCHANGED <<disk, media, writable, m_vmgs_data, buf, k, header_block, got,
                 ret>>

\* The tail goes out, and only then does update_data_size look at the size.
TailWrite(h) ==
  /\ At(h, "tail_write")
  /\ PutBlock(h)
  /\ IF Fits(m_vmgs_data[h], Size(buf[h]))
       THEN /\ m_vmgs_data' = [m_vmgs_data EXCEPT ![h] =
                                 Resize(@, Size(buf[h]))]
            /\ Goto(h, "store_read0")
            /\ UNCHANGED <<buf, k, single_block, header_block, got, ret>>
       ELSE /\ Finish(h, "ready", Result("size_error", <<>>))
            /\ UNCHANGED m_vmgs_data
  /\ UNCHANGED <<media, writable>>

\* VmgsData::store_to reads both header blocks, ...
StoreRead(h, i, from, to) ==
  /\ At(h, from)
  /\ header_block' = [header_block EXCEPT ![h][i] = disk[Dev(i)]]
  /\ Goto(h, to)
  /\ UNCHANGED <<disk, media, writable, m_vmgs_data, buf, k, single_block, got,
                 ret>>

\* ... puts the object's headers into them, and writes them back in turn.
StoreWrite0(h) ==
  /\ At(h, "store_write0")
  /\ PutBlock(h)
  /\ Goto(h, "store_write1")
  /\ UNCHANGED <<media, writable, m_vmgs_data, buf, k, single_block,
                 header_block, got, ret>>

FaultyStoreWrite1(h) ==
  /\ At(h, "store_write1")
  /\ Finish(h, "ready", Result("written", buf[h].bytes))
  /\ UNCHANGED <<disk, media, writable, m_vmgs_data>>

StoreWrite1(h) ==
  /\ At(h, "store_write1")
  /\ PutBlock(h)
  /\ Finish(h, "ready", Result("written", buf[h].bytes))
  /\ UNCHANGED <<media, writable, m_vmgs_data>>

StoreTo(h) ==
  \/ StoreRead(h, 0, "store_read0", "store_read1")
  \/ StoreRead(h, 1, "store_read1", "store_write0")
  \/ StoreWrite0(h)
  \/ StoreWrite1(h)

---------------------------------------------------------------------------
(* VmgsIO::read.                                                           *)

BeginRead(h) ==
  /\ pc[h] = "ready"
  /\ IF ReadBlocks(h) = 0
       THEN Finish(h, "ready", Result("read", <<>>))
       ELSE /\ Goto(h, "reading")
            /\ ret' = [ret EXCEPT ![h] = Nothing]
            /\ UNCHANGED <<buf, k, single_block, header_block, got>>
  /\ UNCHANGED <<disk, media, writable, m_vmgs_data>>

FaultyReadBlock(h) ==
  LET bytes == disk[Dev(Target(h))].body \o got[h] IN
  /\ At(h, "reading")
  /\ Moved(ReadBlocks(h)) > 0
  /\ IF k[h] + 1 < ReadBlocks(h)
       THEN /\ k' = [k EXCEPT ![h] = @ + 1]
            /\ got' = [got EXCEPT ![h] = bytes]
            /\ UNCHANGED <<pc, buf, single_block, header_block, ret>>
       ELSE Finish(h, "ready",
                   Result("read", SubSeq(bytes, 1,
                            ActiveLocator(m_vmgs_data[h]).data_size)))
  /\ UNCHANGED <<disk, media, writable, m_vmgs_data>>

\* One block of read_blocks(allocation_lba, buf_n, buf), then the cut at
\* data_size.
ReadBlock(h) ==
  LET bytes == got[h] \o disk[Dev(Target(h))].body IN
  /\ At(h, "reading")
  /\ Moved(ReadBlocks(h)) > 0
  /\ IF k[h] + 1 < ReadBlocks(h)
       THEN /\ k' = [k EXCEPT ![h] = @ + 1]
            /\ got' = [got EXCEPT ![h] = bytes]
            /\ UNCHANGED <<pc, buf, single_block, header_block, ret>>
       ELSE Finish(h, "ready",
                   Result("read", SubSeq(bytes, 1,
                            ActiveLocator(m_vmgs_data[h]).data_size)))
  /\ UNCHANGED <<disk, media, writable, m_vmgs_data>>

\* The length of the transfer came out as 0, and a VhdDisk takes that for done:
\* what is cut at data_size is the vector as it was made.
ReadNothing(h) ==
  /\ At(h, "reading")
  /\ ~ FromPartition /\ Moved(ReadBlocks(h)) = 0
  /\ Finish(h, "ready",
            Result("read", [i \in 1 .. ActiveLocator(m_vmgs_data[h]).data_size |-> Zero]))
  /\ UNCHANGED <<disk, media, writable, m_vmgs_data>>

---------------------------------------------------------------------------
(* Failures, close, destruction.                                           *)

\* A device call throws: the next block of its transfer cannot be served, the
\* length of the transfer came out as 0, or the device reports an error.
CallFails(h) ==
  \/ ~ Served(h)
  \/ pc[h] = "reading" /\ Moved(ReadBlocks(h)) = 0
  \/ "io" \in Faults

LoadFails(h) ==
  /\ pc[h] \in LoadPc
  /\ CallFails(h)
  /\ Forget(h)
  /\ UNCHANGED <<disk, media>>

\* The exception leaves read() or write(); nothing done so far is undone, in
\* the device or in the object, and the block of a device write that reports
\* an error may have gone out all the same.
IoFails(h) ==
  /\ pc[h] \in IoPc \ LoadPc
  /\ CallFails(h)
  /\ \/ UNCHANGED disk
     \/ pc[h] \in OutPc /\ Served(h) /\ PutBlock(h)
  /\ Finish(h, "ready", Result("io_error", <<>>))
  /\ UNCHANGED <<media, writable, m_vmgs_data>>

\* close() destroys the device object and keeps the rest.
Close(h) ==
  /\ pc[h] = "ready"
  /\ Goto(h, "closed")
  /\ UNCHANGED <<disk, media, writable, m_vmgs_data, buf, k, single_block,
                 header_block, got, ret>>

\* The object is collected; or the process ends by a call on a closed object,
\* which goes through a null m_partition_dev, or by a close that fails, whose
\* exception cannot leave the destructor.
Gone(h) ==
  /\ pc[h] \in {"ready", "closed"}
  /\ Forget(h)
  /\ UNCHANGED <<disk, media>>

Crash(h) ==
  /\ "crash" \in Faults
  /\ pc[h] \in IoPc
  /\ Forget(h)
  /\ UNCHANGED <<disk, media>>

\* The kernel writes a block back whenever it likes.
Writeback(b) ==
  /\ "power" \in Faults
  /\ media[b] # disk[b]
  /\ media' = [media EXCEPT ![b] = disk[b]]
  /\ UNCHANGED <<disk, pc, writable, m_vmgs_data, buf, k, single_block,
                 header_block, got, ret>>

\* What had not been written back is lost, and every process with it.
PowerLoss ==
  /\ "power" \in Faults
  /\ disk' = media
  /\ pc' = [h \in Handles |-> "none"]
  /\ writable' = [h \in Handles |-> FALSE]
  /\ m_vmgs_data' = [h \in Handles |-> <<>>]
  /\ buf' = [h \in Handles |-> NoBuffer]
  /\ k' = [h \in Handles |-> 0]
  /\ single_block' = [h \in Handles |-> EmptyBlock]
  /\ header_block' = [h \in Handles |-> [i \in {0, 1} |-> EmptyBlock]]
  /\ got' = [h \in Handles |-> <<>>]
  /\ ret' = [h \in Handles |-> Nothing]
  /\ UNCHANGED media

---------------------------------------------------------------------------
Init ==
  /\ disk = Image
  /\ media = Image
  /\ pc = [h \in Handles |-> "none"]
  /\ writable = [h \in Handles |-> FALSE]
  /\ m_vmgs_data = [h \in Handles |-> <<>>]
  /\ buf = [h \in Handles |-> NoBuffer]
  /\ k = [h \in Handles |-> 0]
  /\ single_block = [h \in Handles |-> EmptyBlock]
  /\ header_block = [h \in Handles |-> [i \in {0, 1} |-> EmptyBlock]]
  /\ got = [h \in Handles |-> <<>>]
  /\ ret = [h \in Handles |-> Nothing]

\* A call starts, or the object goes: the script's choice.
Call(h) ==
  \/ \E kw \in Kwargs : Accepts(kw) /\ Open(h, Writable(kw))
  \/ \E b \in Buffers : WriteRefused(h, b) \/ BeginWrite(h, b)
  \/ BeginRead(h)
  \/ Close(h)
  \/ Gone(h)

\* A call goes on, one device call further.
Step(h) ==
  \/ Load0(h) \/ Load1(h)
  \/ DirectWrite(h) \/ TailRead(h) \/ TailWrite(h) \/ StoreTo(h)
  \/ ReadBlock(h) \/ ReadNothing(h)
  \/ LoadFails(h) \/ IoFails(h)

Next ==
  \/ \E h \in Handles : Call(h) \/ Step(h) \/ Crash(h)
  \/ \E b \in Lba : Writeback(b)
  \/ PowerLoss

Spec == Init /\ [][Next]_vars

\* A process that is in a call is scheduled again and again, and its device
\* calls return; nothing makes a script start another call.
FairSpec == Spec /\ \A h \in Handles : WF_vars(Step(h))

---------------------------------------------------------------------------
(* Properties.                                                             *)

\* The header pairs that writes can produce from the image's: nothing but the
\* active locator's data_size differs, and it stays within the allocation.
Versions == {Resize(Original, s) : s \in 0 .. MaxSize}

Block == [head : {Raw} \cup {Image[b].head : b \in Lba}
                  \cup {StoreHeader(v[i]) : v \in Versions, i \in {0, 1}},
          body : Body]

Results == [status : {"none", "read", "written", "size_error", "value_error",
                      "io_error"},
            data : Seq(Byte)]

TypeOK ==
  /\ disk \in [Lba -> Block]
  /\ media \in [Lba -> Block]
  /\ pc \in [Handles -> Pc]
  /\ writable \in [Handles -> BOOLEAN]
  /\ m_vmgs_data \in [Handles -> Versions \cup {<<>>}]
  /\ buf \in [Handles -> Buffers \cup {NoBuffer}]
  /\ k \in [Handles -> Nat]
  /\ single_block \in [Handles -> Block]
  /\ header_block \in [Handles -> [{0, 1} -> Block]]
  /\ got \in [Handles -> Seq(Byte)]
  /\ ret \in [Handles -> Results]

\* The inductive invariant behind TypeOK, ImageLoads and HeadersOnlyResize:
\* where headers are, on the device, in an object or in the hands of load_from
\* and store_to, they are those of a version; and how far a transfer is.
HeaderBlocks(i) == {BlockOf(StoreHeader(v[i]), Image[Dev(i)].body) : v \in Versions}

HeadersInv(h) ==
  /\ pc[h] \in {"ready", "closed", "reading"} \cup WritePc =>
       m_vmgs_data[h] \in Versions
  /\ pc[h] \in {"load1", "store_read1", "store_write0", "store_write1"} =>
       header_block[h][0] \in HeaderBlocks(0)
  /\ pc[h] \in {"store_write0", "store_write1"} =>
       header_block[h][1] \in HeaderBlocks(1)

TransferInv(h) ==
  /\ pc[h] = "direct" => k[h] < DirectBlocks(h)
  /\ pc[h] = "reading" => /\ k[h] < ReadBlocks(h)
                          /\ Len(got[h]) = k[h] * BlockSize
  /\ pc[h] # "reading" => got[h] = <<>>
  /\ pc[h] \notin {"direct", "reading"} => k[h] = 0

IInv ==
  /\ TypeOK
  /\ \A i \in {0, 1} : /\ disk[Dev(i)] \in HeaderBlocks(i)
                       /\ media[Dev(i)] \in HeaderBlocks(i)
  /\ \A h \in Handles : HeadersInv(h) /\ TransferInv(h)

\* Whatever calls, failures and crashes come in whatever order, both headers
\* on the device still load and still have consecutive sequence numbers, so
\* that the file can always be opened again: store_to writes the headers one
\* by one (Vmgs.cpp:180-181) and load_from needs both of them.
ImageLoads == Loads(disk) /\ Loads(media)

\* A write never changes a header field other than the active locator's
\* data_size, never stores a size beyond the allocation, and hands back the
\* rest of the two header blocks as it found it (Vmgs.cpp:156-182).
HeadersOnlyResize ==
  \A d \in {disk, media} :
    /\ HeadersOn(d) \in Versions
    /\ \A b \in HeaderLbas : d[b].body = Image[b].body

\* No write touches a block outside the header blocks and the active
\* allocation: another file of the VMGS, another partition of the disk.
ForeignIntact ==
  \A b \in Lba \ (HeaderLbas \cup ActiveLbas) :
    disk[b] = Image[b] /\ media[b] = Image[b]

\* What ForeignIntact needs beside IInv: when the block after the last whole
\* one lies beyond the allocation, what was read of it is what the image has.
ForeignInv ==
  /\ ForeignIntact
  /\ \A h \in Handles :
       pc[h] = "tail_write" /\ Dev(Target(h)) \notin ActiveLbas =>
         single_block[h] = Image[Dev(Target(h))]

\* Every buffer given to write() fits into the allocation.
BuffersFit == \A b \in Buffers : Size(b) <= MaxSize

\* The values byte i of the allocation may have: the image's, or byte i of a
\* buffer given to write().
Sources(i) ==
  {Bytes(Image, MaxSize)[i]} \cup
  {b.bytes[i] : b \in {c \in Buffers : i <= Size(c)}}

\* What read() returns of a VhdDisk when the length of its request, for so many
\* bytes, comes out as 0: nothing of what is stored (VhdDisk.cpp:32).
Nulled(data) ==
  /\ ~ FromPartition
  /\ Moved(BlocksOf(Len(data))) = 0
  /\ data = [i \in 1 .. Len(data) |-> Zero]

\* No interleaving of writers, and no failure, moves a byte to another place
\* or makes up one, neither on the device nor in what read() returns, but for
\* the zeroes of a request that has lost its length; the stored size is the
\* image's or that of a buffer.
BytesInPlace ==
  /\ \A d \in {disk, media} :
       /\ \A i \in 1 .. MaxSize : Bytes(d, MaxSize)[i] \in Sources(i)
       /\ ActiveLocator(HeadersOn(d)).data_size \in
            {ActiveLocator(Original).data_size} \cup {Size(b) : b \in Buffers}
  /\ \A h \in Handles : ret[h].status = "read" =>
       \/ \A i \in DOMAIN ret[h].data : ret[h].data[i] \in Sources(i)
       \/ Nulled(ret[h].data)

\* One process: a write that returned is what any later reader gets, whole.
ReturnedWriteIsOnDisk ==
  \A h \in Handles : ret[h].status = "written" => Content(disk) = ret[h].data

\* One process: read() returns what the device stores whenever the object's
\* headers are those of the device (a store_to that failed leaves them apart);
\* or, from a VhdDisk and of as many bytes, zeroes, when the length of its
\* request comes out as 0.
ReadReturnsStored ==
  \A h \in Handles :
    ret[h].status = "read" /\ m_vmgs_data[h] = HeadersOn(disk) =>
      \/ ret[h].data = Content(disk)
      \/ Nulled(ret[h].data) /\ Len(ret[h].data) = Len(Content(disk))

\* One process and a device without errors: between calls the object's
\* headers are those of the device, so that read() is never stale.
CacheFresh ==
  \A h \in Handles : pc[h] = "ready" => m_vmgs_data[h] = HeadersOn(disk)

\* On a device without errors, opened for writing, no call ends in a device
\* error (README.md:78): neither for a block that the device does not have, nor
\* because a buffer or a file that was not refused as too long (Vmgs.cpp:261) is
\* longer than a device call can be.
NoSpuriousError ==
  \A h \in Handles : ret[h].status = "io_error" => ~ writable[h]

\* A call that starts comes back, as a result, an exception or a crash.
CallReturns ==
  \A h \in Handles : pc[h] \in IoPc ~> pc[h] \notin IoPc
=============================================================================
