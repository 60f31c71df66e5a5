---------------------------- MODULE BlockDevice ----------------------------
(***************************************************************************)
(* Block devices and their transfers: the range loops of IBlockDevice      *)
(* (src/src/IBlockDevice.cpp) over its three implementations.  A           *)
(* UnixBlockDevice seeks and makes one system call, a VhdDisk sends one    *)
(* SCSI request to the virtual disk's driver, and a Win32BlockDevice never *)
(* gets as far as a transfer.  Gpt and VmgsIO take the effect of these     *)
(* calls from here: blocks go in order, and a call that stops early has    *)
(* moved a prefix.                                                         *)
(*                                                                         *)
(* Contents are counted in whole blocks, lengths in bytes where the code   *)
(* computes them in uint32_t.                                              *)
(***************************************************************************)
EXTENDS Naturals, Sequences

CONSTANTS
  Kinds,         \* the implementations in use, of "unix", "vhd" and "win32"
  BlockSize,     \* BLKSSZGET of the device, or SECTOR_SIZE, in bytes
  U32,           \* 2^32
  DeviceBlocks,  \* the size of the device, in blocks
  KernelLimits,  \* what max_rw_count may be, in blocks
  MaxBlocks,     \* bound on the length of the ranges
  Faults         \* {"io"} when device and system calls may fail, else {}

VARIABLES
  disk,         \* block -> contents
  max_rw_count, \* the most that one read(2) or write(2) moves
  kind,         \* the class of the object, "none" when there is none
  m_fd,         \* "none", or how the descriptor or handle was opened: "ro", "rw"
  m_block_size, \* what get_block_size() returns
  pc,           \* where the object is
  call,         \* the call in progress, or the last one
  current_lba,  \* the range loop's position
  n,            \* blocks of the chunk in progress
  offset,       \* the descriptor's file offset, in blocks
  pos,          \* how far the range loop has advanced its buffer pointer
  buf,          \* what a read has put into its buffer
  outcome,      \* how the last call ended: "fault" when a fault is to blame,
                \* "trap" and "terminate" when the process ended with it
  before        \* disk when the call began

vars == <<disk, max_rw_count, kind, m_fd, m_block_size, pc, call, current_lba, n,
          offset, pos, buf, outcome, before>>

Lba == 0 .. DeviceBlocks - 1

ASSUME SizesAssumption ==
  /\ BlockSize \in Nat \ {0} /\ U32 \in Nat /\ BlockSize < U32
  /\ DeviceBlocks \in Nat /\ KernelLimits \subseteq Nat /\ MaxBlocks \in Nat
  /\ Kinds \subseteq {"unix", "vhd", "win32"}

Least(a, b) == IF a <= b THEN a ELSE b

\* Every block of the device, and of a buffer to write, differs.
Fresh == [b \in Lba |-> <<"old", b>>]
Data(i) == <<"new", i>>

\* A call: its kind, its blocks [min, min + length), and whether it is one of
\* the range loops or one read_blocks(lba, n, buf).
Calls ==
  [op : {"read", "write"}, min : 0 .. DeviceBlocks + 1, length : 0 .. MaxBlocks,
   range : BOOLEAN]
NoCall == [op |-> "none"]
Max(c) == c.min + c.length

---------------------------------------------------------------------------
(* open, close.                                                            *)

Keep == UNCHANGED <<disk, max_rw_count, call, current_lba, n, offset, pos, buf,
                  outcome, before>>

\* open gets a descriptor or a handle, and asks on.
Opened(k, mode, size, to) ==
  /\ pc = "none"
  /\ k \in Kinds
  /\ kind' = k /\ m_fd' = mode /\ m_block_size' = size /\ pc' = to
  /\ Keep

\* One of the calls by which open learns about the device returns.
Asked(from, to, size) ==
  /\ pc = from
  /\ m_block_size' = size /\ pc' = to
  /\ UNCHANGED <<kind, m_fd>> /\ Keep

UnixOpen(mode) == Opened("unix", mode, 0, "sector_size")
GetSectorSize == Asked("sector_size", "device_size", BlockSize)
GetDeviceSize == Asked("device_size", "opened", m_block_size)

\* A virtual disk is opened with all rights, and attached.
VhdOpen == Opened("vhd", "rw", BlockSize, "information")
GetInformation == Asked("information", "attach", m_block_size)
attach == Asked("attach", "opened", m_block_size)

\* Geometry, length and alignment are asked for, into locals of open.
Win32Open(mode) == Opened("win32", mode, 0, "geometry")
GetGeometry == Asked("geometry", "opened", m_block_size)

\* The object is gone, or the process with it.
Reset(result) ==
  /\ kind' = "none" /\ m_fd' = "none" /\ m_block_size' = 0 /\ pc' = "none"
  /\ UNCHANGED <<disk, max_rw_count>>
  /\ call' = NoCall /\ current_lba' = 0 /\ n' = 0 /\ offset' = 0
  /\ pos' = 0 /\ buf' = <<>> /\ outcome' = result /\ before' = disk

\* The first use of an opened device: load_from asks for its LBA range, which
\* divides by m_block_size.
GetLbaRange ==
  /\ pc = "opened"
  /\ IF m_block_size = 0 THEN Reset("trap")
                        ELSE Asked("opened", "idle", m_block_size)

\* What close() ends: a device in use, or the half made object of an open
\* that throws.
Closable ==
  \/ pc = "idle"
  \/ "io" \in Faults /\ pc \in {"sector_size", "device_size", "information",
                                "attach", "geometry"}

close == Closable /\ Reset("none")

\* close() throws, and the destructor that called it lets nothing out.
CloseFails == "io" \in Faults /\ Closable /\ Reset("terminate")

---------------------------------------------------------------------------
(* Transfers.                                                              *)

Goto(to) ==
  pc' = to /\ UNCHANGED <<max_rw_count, kind, m_fd, m_block_size, call, before>>

Return(result) == Goto("idle") /\ outcome' = result

\* The most blocks that VmgsIO asks one call for: read() rounds a uint32_t of
\* bytes up to blocks, write() down.
Widest(op) == (IF op = "read" THEN U32 ELSE U32 - 1) \div BlockSize

\* Bound: one write in a behaviour, on the device as it was.
Begin(c) ==
  /\ pc = "idle"
  /\ c.op = "write" => disk = Fresh
  /\ c.range \/ c.length <= Widest(c.op)
  /\ call' = c /\ current_lba' = c.min /\ n' = c.length
  /\ pos' = 0 /\ buf' = <<>> /\ before' = disk
  /\ pc' = IF c.range THEN "chunk" ELSE "transfer"
  /\ outcome' = "none"
  /\ UNCHANGED <<disk, max_rw_count, kind, m_fd, m_block_size, offset>>

FaultyChunkWraps == Least(Max(call) - current_lba, U32 \div m_block_size)

FaultyChunkFull == (U32 - 1) \div m_block_size

\* The range loop: its next chunk is as long as a uint32_t of bytes allows.
ChunkBlocks == Least(Max(call) - current_lba, (U32 - 1) \div m_block_size)

FaultyNextChunk ==
  /\ pc = "chunk"
  /\ IF current_lba <= Max(call)
       THEN n' = ChunkBlocks /\ Goto("transfer") /\ UNCHANGED outcome
       ELSE Return("ok") /\ UNCHANGED n
  /\ UNCHANGED <<disk, current_lba, offset, pos, buf>>

NextChunk ==
  /\ pc = "chunk"
  /\ IF current_lba < Max(call)
       THEN n' = ChunkBlocks /\ Goto("transfer") /\ UNCHANGED outcome
       ELSE Return("ok") /\ UNCHANGED n
  /\ UNCHANGED <<disk, current_lba, offset, pos, buf>>

\* read_blocks or write_blocks is done with its n blocks.
Done == IF call.range THEN Goto("chunk") /\ UNCHANGED outcome ELSE Return("ok")

\* A call for no blocks does nothing.
MoveNone ==
  /\ pc = "transfer" /\ n = 0
  /\ Done
  /\ UNCHANGED <<disk, current_lba, n, offset, pos, buf>>

\* lseek64: the kernel refuses an offset beyond the end of a block device.
Seek ==
  /\ pc = "transfer" /\ n > 0 /\ kind = "unix"
  /\ IF current_lba > DeviceBlocks
       THEN Return("error") /\ UNCHANGED offset
       ELSE Goto("move") /\ offset' = current_lba /\ UNCHANGED outcome
  /\ UNCHANGED <<disk, current_lba, n, pos, buf>>

FaultyExpectedBlocks == ((n * m_block_size) % (U32 \div 2)) \div m_block_size

\* The blocks of expected_size, and what the kernel moves of them at most.
ExpectedBlocks == ((n * m_block_size) % U32) \div m_block_size
KernelMoves == Least(Least(ExpectedBlocks, max_rw_count), DeviceBlocks - offset)

FaultyMoved(lba, count) ==
  LET here == lba .. lba + count - 1 IN
  IF call.op = "read"
    THEN /\ buf' = [i \in 1 .. count |-> disk[lba + i - 1]]
                     \o SubSeq(buf, count + 1, Len(buf))
         /\ UNCHANGED disk
    ELSE /\ disk' = [b \in Lba |-> IF b \in here THEN Data(b - lba) ELSE disk[b]]
         /\ UNCHANGED buf

\* count blocks go between the device at lba and the buffer at pos.
Moved(lba, count) ==
  LET here == lba .. lba + count - 1 IN
  IF call.op = "read"
    THEN /\ buf' = SubSeq(buf, 1, pos) \o [i \in 1 .. count |-> disk[lba + i - 1]]
         /\ UNCHANGED disk
    ELSE /\ disk' = [b \in Lba |->
              IF b \in here THEN Data(pos + b - lba) ELSE disk[b]]
         /\ UNCHANGED buf

\* The same at the descriptor's offset.
MovedHere(count) == Moved(offset, count) /\ offset' = offset + count

Advance == current_lba' = current_lba + n /\ pos' = pos + n /\ UNCHANGED n

\* The whole chunk was moved; a range loop goes on with the next one.
MoveAll ==
  /\ pc = "move"
  /\ call.op = "write" => m_fd = "rw"
  /\ KernelMoves = ExpectedBlocks
  /\ call.op = "read" => ExpectedBlocks > 0
  /\ MovedHere(ExpectedBlocks)
  /\ Advance /\ Done

\* The system call is refused, comes to the end of the device, or moves less.
MoveFails ==
  /\ pc = "move"
  /\ \/ call.op = "write" /\ m_fd = "ro" /\ MovedHere(0)
     \/ /\ call.op = "write" => m_fd = "rw"
        /\ \/ KernelMoves < ExpectedBlocks
           \/ call.op = "read" /\ KernelMoves = 0
        /\ MovedHere(KernelMoves)
  /\ Return("error")
  /\ UNCHANGED <<current_lba, n, pos>>

\* The device fails: after any of the blocks, reported or as a short count.
MoveFaults ==
  /\ pc = "move" /\ "io" \in Faults
  /\ call.op = "write" => m_fd = "rw"
  /\ \E count \in 0 .. KernelMoves : MovedHere(count)
  /\ Return("fault")
  /\ UNCHANGED <<current_lba, n, pos>>

\* VhdDisk: the request names n blocks in its CDB and their bytes, in uint32_t,
\* as the length of the buffer.  Assumed of the driver: a request beyond the
\* disk is refused whole; GOOD means that the buffer's length was moved, as
\* the asserts say that a release build drops.
Requests == pc = "transfer" /\ n > 0 /\ kind = "vhd"
OnDevice == current_lba + n <= DeviceBlocks

RequestGood ==
  /\ Requests /\ OnDevice
  /\ Moved(current_lba, ExpectedBlocks)
  /\ Advance /\ Done
  /\ UNCHANGED offset

\* The driver may also refuse a request whose two lengths differ.
RequestFails ==
  /\ Requests
  /\ ~ OnDevice \/ ExpectedBlocks # n
  /\ Return("error")
  /\ UNCHANGED <<disk, current_lba, n, offset, pos, buf>>

RequestFaults ==
  /\ Requests /\ OnDevice /\ "io" \in Faults
  /\ \E count \in 0 .. ExpectedBlocks : Moved(current_lba, count)
  /\ Return("fault")
  /\ UNCHANGED <<current_lba, n, offset, pos>>

---------------------------------------------------------------------------
Init ==
  /\ disk = Fresh /\ before = Fresh /\ max_rw_count \in KernelLimits
  /\ kind = "none" /\ m_fd = "none" /\ m_block_size = 0 /\ pc = "none"
  /\ call = NoCall /\ current_lba = 0 /\ n = 0 /\ offset = 0
  /\ pos = 0 /\ buf = <<>> /\ outcome = "none"

Work ==
  \/ NextChunk \/ MoveNone
  \/ Seek \/ MoveAll \/ MoveFails \/ MoveFaults
  \/ RequestGood \/ RequestFails \/ RequestFaults

Next ==
  \/ \E mode \in {"ro", "rw"} : UnixOpen(mode) \/ Win32Open(mode)
  \/ VhdOpen
  \/ GetSectorSize \/ GetDeviceSize \/ GetInformation \/ attach \/ GetGeometry
  \/ GetLbaRange \/ close \/ CloseFails
  \/ \E c \in Calls : Begin(c)
  \/ Work

Spec == Init /\ [][Next]_vars

\* A call runs in its caller's thread, and system calls return.
FairSpec == Spec /\ WF_vars(Work)

---------------------------------------------------------------------------
(* Properties.                                                             *)

TypeOK ==
  /\ DOMAIN disk = Lba
  /\ max_rw_count \in KernelLimits
  /\ kind \in Kinds \cup {"none"}
  /\ m_fd \in {"none", "ro", "rw"} /\ m_block_size \in {0, BlockSize}
  /\ pc \in {"none", "sector_size", "device_size", "information", "attach",
             "geometry", "opened", "idle", "chunk", "transfer", "move"}
  /\ call \in Calls \cup {NoCall}
  /\ current_lba \in Nat /\ n \in Nat /\ offset \in 0 .. DeviceBlocks
  /\ pos \in 0 .. MaxBlocks /\ Len(buf) <= MaxBlocks
  /\ outcome \in {"none", "ok", "error", "fault", "trap", "terminate"}

\* before, with the first m blocks of the write over it.
Overwritten(m) ==
  [b \in Lba |-> IF b \in call.min .. call.min + m - 1 THEN Data(b - call.min)
                                                       ELSE before[b]]

\* A read that returns has filled its buffer with the blocks of its range, in
\* their order, however the loop has cut it into chunks (IBlockDevice.cpp:8-14);
\* except a VhdDisk::read_blocks(lba, n, buf) of 2^32 bytes, whose length is 0
\* for the driver (VhdDisk.cpp:32).
ReadIsWhole ==
  outcome = "ok" /\ call.op = "read" =>
    \/ buf = [i \in 1 .. call.length |-> disk[call.min + i - 1]]
    \/ kind = "vhd" /\ ~ call.range /\ call.length * BlockSize >= U32

\* A write, at any moment, whether it goes on, has returned or has failed, has
\* changed a prefix of its range and nothing else; the whole range when it has
\* returned (IBlockDevice.cpp:17-27, UnixBlockDevice.cpp:34-49,
\* VhdDisk.cpp:51-88).
WriteIsPrefix ==
  call.op = "write" =>
    /\ \E m \in 0 .. call.length : disk = Overwritten(m)
    /\ outcome = "ok" => disk = Overwritten(call.length)

\* When the device is not to blame a call fails only for a reason: its range
\* goes beyond the device, it writes through a read-only descriptor, one system
\* call of a UnixBlockDevice does not move a chunk, or the bytes of a chunk do
\* not fit into uint32_t, which a range loop avoids.
FailsForCause ==
  outcome = "error" =>
    \/ Max(call) > DeviceBlocks
    \/ call.op = "write" /\ m_fd = "ro"
    \/ kind = "unix" /\ n > max_rw_count
    \/ ~ call.range /\ n * BlockSize >= U32

\* A device that was opened can be used: the first question about it does not
\* end the process.
OpenedIsUsable == outcome # "trap"

\* A call comes back: the loop makes progress with every chunk.
CallReturns == pc \in {"chunk", "transfer", "move"} ~> pc = "idle"
=============================================================================
