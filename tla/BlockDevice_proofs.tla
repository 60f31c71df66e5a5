------------------------- MODULE BlockDevice_proofs -------------------------
(***************************************************************************)
(* Proofs about BlockDevice, for every block size, width of a length,      *)
(* device and kernel limit, and ranges of any length: the inductive        *)
(* invariant IInv and the safety properties that follow from it.           *)
(***************************************************************************)
EXTENDS BlockDevice, SequenceTheorems, TLAPS

\* A call is in progress; a device can be used.
Active == {"chunk", "transfer", "move"}
Used == Active \cup {"idle"}

\* A device in use knows its block size, and only such a device has a call.
CallInv ==
  /\ pc \in Used => m_block_size = BlockSize
  /\ pc \in Active => call \in Calls
  /\ pc \notin Used => call = NoCall
  /\ call = NoCall => outcome \in {"none", "trap", "terminate"}

\* count blocks from lba on.
BlocksFrom(lba, count) == [i \in 1 .. count |-> disk[lba + i - 1]]

\* How far a call in progress has come: current_lba and the buffer pointer go
\* together, and what lies before them has been moved, and nothing else.
ProgressInv ==
  pc \in Active =>
    /\ outcome = "none"
    /\ pos <= call.length /\ current_lba = call.min + pos
    /\ call.op = "read" => buf = BlocksFrom(call.min, pos)
    /\ call.op = "write" => disk = Overwritten(pos)

\* The chunk at hand lies within the range, and a range loop's chunk can be
\* counted in uint32_t.
ChunkInv ==
  /\ pc = "chunk" => call.range
  /\ pc \in {"transfer", "move"} =>
       /\ pos + n <= call.length
       /\ ~ call.range => pos = 0 /\ n = call.length /\ n <= Widest(call.op)
       /\ call.range => n * BlockSize < U32
  /\ pc = "move" => n > 0 /\ kind = "unix" /\ offset = current_lba

IInv == /\ TypeOK /\ CallInv /\ ProgressInv /\ ChunkInv
        /\ WriteIsPrefix /\ ReadIsWhole /\ FailsForCause

---------------------------------------------------------------------------
(* Lengths in uint32_t.                                                    *)

\* n * block_size bytes, cut to uint32_t, are the bytes of at most n blocks,
\* and of all n when they fit (UnixBlockDevice.cpp:17, VhdDisk.cpp:32).
LEMMA WholeBlocks ==
  ASSUME NEW m \in Nat, NEW b \in Nat \ {0}, NEW w \in Nat \ {0}
  PROVE  /\ ((m * b) % w) \div b \in Nat
         /\ ((m * b) % w) \div b <= m
         /\ m * b < w => ((m * b) % w) \div b = m
<1> DEFINE x == m * b
           r == x % w
<1>1. x \in Nat
  OBVIOUS
<1> HIDE DEF x
<1>2. r \in Nat /\ r <= x /\ (x < w => r = x)
  BY <1>1
<1> HIDE DEF r
<1>3. r \div b \in Nat /\ (r \div b) * b <= r
  BY <1>2
<1>4. (r \div b) * b <= m * b
  BY <1>2, <1>3 DEF x
<1>5. r \div b <= m
  BY <1>3, <1>4
<1>6. x < w => r \div b = m
  BY <1>2 DEF x
<1> QED
  BY <1>3, <1>5, <1>6 DEF r, x

\* The longest chunk of a range loop can be counted in uint32_t.
LEMMA WidestChunk ==
  ASSUME NEW m \in Nat, NEW b \in Nat \ {0}, NEW w \in Nat \ {0},
         m <= (w - 1) \div b
  PROVE  m * b < w
<1> DEFINE q == (w - 1) \div b
<1>1. q \in Nat /\ q * b <= w - 1
  OBVIOUS
<1> HIDE DEF q
<1>2. m <= q
  BY DEF q
<1>3. m * b <= q * b
  BY <1>1, <1>2
<1> QED
  BY <1>1, <1>3

\* What a system call or a request is asked for in bytes is at most the chunk,
\* and the chunk itself when its bytes fit into uint32_t.
LEMMA ExpectedFacts ==
  ASSUME TypeOK, m_block_size = BlockSize
  PROVE  /\ ExpectedBlocks \in 0 .. n
         /\ n * BlockSize < U32 => ExpectedBlocks = n
<1>1. n \in Nat /\ BlockSize \in Nat \ {0} /\ U32 \in Nat \ {0}
  BY SizesAssumption DEF TypeOK
<1> QED
  BY <1>1, WholeBlocks DEF ExpectedBlocks

---------------------------------------------------------------------------
(* Transfers.                                                              *)

\* A read that goes on where the buffer's contents end makes them longer.
LEMMA ReadGoesOn ==
  ASSUME NEW lba \in Nat, pos \in Nat, NEW count \in Nat,
         buf = BlocksFrom(lba, pos), call.op = "read", Moved(lba + pos, count)
  PROVE  /\ UNCHANGED disk
         /\ buf' = BlocksFrom(lba, pos + count)
         /\ Len(buf') = pos + count
<1> DEFINE S == {disk[b] : b \in Nat}
           t == [i \in 1 .. count |-> disk[lba + pos + i - 1]]
           u == BlocksFrom(lba, pos + count)
<1>1. buf' = SubSeq(buf, 1, pos) \o t /\ UNCHANGED disk
  BY DEF Moved
<1>2. buf \in Seq(S) /\ Len(buf) = pos
  BY DEF BlocksFrom
<1>3. t \in Seq(S) /\ Len(t) = count
  OBVIOUS
<1>4. u \in Seq(S) /\ Len(u) = pos + count
  BY DEF BlocksFrom
<1>5. SubSeq(buf, 1, pos) = buf
  BY <1>2, SubSeqFull
<1>6. buf \o t = u
  <2>1. \A i \in 1 .. pos + count : (buf \o t)[i] = u[i]
    BY <1>2, <1>3, ConcatProperties DEF BlocksFrom
  <2>2. buf \o t \in Seq(S) /\ Len(buf \o t) = pos + count
    BY <1>2, <1>3, ConcatProperties
  <2> QED
    BY <1>4, <2>1, <2>2, SeqEqual
<1> QED
  BY <1>1, <1>4, <1>5, <1>6

\* A write that goes on where the written blocks end makes them more.
LEMMA WriteGoesOn ==
  ASSUME call.min \in Nat, pos \in Nat, NEW count \in Nat, DeviceBlocks \in Nat,
         disk = Overwritten(pos), call.op = "write", Moved(call.min + pos, count)
  PROVE  /\ disk' = Overwritten(pos + count)
         /\ UNCHANGED buf
<1> DEFINE lba == call.min + pos
           Over(b) == IF b \in lba .. lba + count - 1
                        THEN Data(pos + b - lba) ELSE disk[b]
           Both(b) == IF b \in call.min .. call.min + (pos + count) - 1
                        THEN Data(b - call.min) ELSE before[b]
<1>1. disk' = [b \in Lba |-> Over(b)] /\ UNCHANGED buf
  BY DEF Moved
<1>2. ASSUME NEW b \in Lba
      PROVE  Over(b) = Both(b)
  <2>1. b \in Nat
    BY DEF Lba
  <2>2. disk[b] = IF b \in call.min .. lba - 1 THEN Data(b - call.min) ELSE before[b]
    BY DEF Overwritten
  <2>3. CASE b < call.min
    BY <2>1, <2>2, <2>3
  <2>4. CASE call.min <= b /\ b < lba
    BY <2>1, <2>2, <2>4
  <2>5. CASE lba <= b /\ b < lba + count
    <3>1. pos + b - lba = b - call.min
      BY <2>1, <2>5
    <3> QED
      BY <2>1, <2>5, <3>1
  <2>6. CASE lba + count <= b
    BY <2>1, <2>2, <2>6
  <2> QED
    BY <2>1, <2>3, <2>4, <2>5, <2>6
<1>3. [b \in Lba |-> Over(b)] = [b \in Lba |-> Both(b)]
  BY <1>2
<1> QED
  BY <1>1, <1>3 DEF Overwritten

\* A transfer of part of a chunk, wherever it stops, leaves the buffer filled or
\* the device overwritten up to there.
LEMMA TransferGoesOn ==
  ASSUME IInv, pc \in {"transfer", "move"}, NEW count \in 0 .. n,
         Moved(current_lba, count)
  PROVE  /\ DOMAIN disk' = Lba /\ Len(buf') <= MaxBlocks
         /\ call.op = "read" => UNCHANGED disk /\ buf' = BlocksFrom(call.min, pos + count)
         /\ call.op = "write" => disk' = Overwritten(pos + count)
<1>1. /\ call \in Calls /\ pos \in Nat /\ count \in Nat /\ n \in Nat
      /\ call.min \in Nat /\ call.length \in 0 .. MaxBlocks
      /\ call.op \in {"read", "write"}
      /\ MaxBlocks \in Nat /\ DeviceBlocks \in Nat
  BY SizesAssumption DEF IInv, TypeOK, CallInv, Active, Used, Calls
<1>2. pos + n <= call.length /\ current_lba = call.min + pos
  BY DEF IInv, ChunkInv, ProgressInv, Active
<1>3. CASE call.op = "read"
  <2>1. buf = BlocksFrom(call.min, pos)
    BY <1>3 DEF IInv, ProgressInv, Active
  <2>2. UNCHANGED disk /\ buf' = BlocksFrom(call.min, pos + count) /\ Len(buf') = pos + count
    BY <1>1, <1>2, <1>3, <2>1, ReadGoesOn
  <2>3. DOMAIN disk = Lba
    BY DEF IInv, TypeOK
  <2> QED
    BY <1>1, <1>2, <1>3, <2>2, <2>3
<1>4. CASE call.op = "write"
  <2>1. disk = Overwritten(pos)
    BY <1>4 DEF IInv, ProgressInv, Active
  <2>2. disk' = Overwritten(pos + count) /\ UNCHANGED buf
    BY <1>1, <1>2, <1>4, <2>1, WriteGoesOn
  <2>3. Len(buf) <= MaxBlocks
    BY DEF IInv, TypeOK
  <2> QED
    BY <1>4, <2>2, <2>3 DEF Overwritten
<1> QED
  BY <1>1, <1>3, <1>4

\* A transfer that ends early ends the call: what was moved is a prefix, and
\* the call has a cause or the device is to blame.
LEMMA StopKeeps ==
  ASSUME IInv, pc \in {"transfer", "move"}, NEW count \in 0 .. n,
         Moved(current_lba, count), offset' \in 0 .. DeviceBlocks,
         NEW result \in {"error", "fault"}, Return(result),
         UNCHANGED <<current_lba, n, pos>>,
         result = "error" => FailsForCause'
  PROVE  IInv'
<1>1. /\ DOMAIN disk' = Lba /\ Len(buf') <= MaxBlocks
      /\ call.op = "read" => UNCHANGED disk /\ buf' = BlocksFrom(call.min, pos + count)
      /\ call.op = "write" => disk' = Overwritten(pos + count)
  BY TransferGoesOn
<1>2. /\ pc' = "idle" /\ outcome' = result
      /\ UNCHANGED <<max_rw_count, kind, m_fd, m_block_size, call, before>>
  BY DEF Return, Goto
<1>3. call \in Calls /\ m_block_size = BlockSize /\ call # NoCall
  BY DEF IInv, CallInv, Active, Used, Calls, NoCall
<1>4. TypeOK'
  BY <1>1, <1>2 DEF IInv, TypeOK
<1>5. CallInv'
  BY <1>2, <1>3 DEF CallInv, Active, Used
<1>6. ProgressInv' /\ ChunkInv'
  BY <1>2 DEF ProgressInv, ChunkInv, Active
<1>7. WriteIsPrefix'
  <2>1. pos + count \in 0 .. call.length
    BY <1>3, SizesAssumption DEF IInv, TypeOK, ChunkInv, Calls
  <2> QED
    BY <1>1, <1>2, <2>1 DEF WriteIsPrefix, Overwritten
<1>8. ReadIsWhole'
  BY <1>2 DEF ReadIsWhole
<1>9. FailsForCause'
  BY <1>2 DEF FailsForCause
<1> QED
  BY <1>4, <1>5, <1>6, <1>7, <1>8, <1>9 DEF IInv

\* What a call that has come to the end of its chunk has still to show: its
\* buffer or the device up to there, unless it is the read of 2^32 bytes that
\* VhdDisk cuts to none (VhdDisk.cpp:32).
CutToNone == kind = "vhd" /\ ~ call.range /\ call.length * BlockSize >= U32

\* A whole chunk ends a single call, and brings a range loop to its next one
\* (IBlockDevice.cpp:9-14, 22-27).
LEMMA ChunkKeeps ==
  ASSUME IInv, pc \in {"transfer", "move"},
         DOMAIN disk' = Lba, Len(buf') <= MaxBlocks, offset' \in 0 .. DeviceBlocks,
         call.op = "read" =>
           UNCHANGED disk /\ (buf' = BlocksFrom(call.min, pos + n) \/ CutToNone),
         call.op = "write" => disk' = Overwritten(pos + n),
         pos' = pos + n, current_lba' = current_lba + n, UNCHANGED n,
         Done
  PROVE  IInv'
<1>1. /\ call \in Calls /\ m_block_size = BlockSize /\ call # NoCall
      /\ call.range \in BOOLEAN /\ call.length \in 0 .. MaxBlocks
      /\ call.min \in Nat /\ call.op \in {"read", "write"}
  BY SizesAssumption DEF IInv, CallInv, Active, Used, Calls, NoCall
<1>2. /\ n \in Nat /\ pos \in Nat /\ pos + n <= call.length
      /\ current_lba = call.min + pos /\ outcome = "none" /\ MaxBlocks \in Nat
  BY SizesAssumption DEF IInv, TypeOK, ChunkInv, ProgressInv, Active
<1>3. UNCHANGED <<max_rw_count, kind, m_fd, m_block_size, call, before>>
  BY DEF Done, Return, Goto
<1>9. TypeOK'
  <2>1. pc' \in {"chunk", "idle"} /\ outcome' \in {"none", "ok"}
    BY <1>2 DEF Done, Return, Goto
  <2>2. pos' \in 0 .. MaxBlocks /\ current_lba' \in Nat /\ n' \in Nat
    BY <1>1, <1>2
  <2>3. call' \in Calls \cup {NoCall}
    BY <1>1, <1>3
  <2>4. TypeOK
    BY DEF IInv
  <2> QED
    BY <1>3, <2>1, <2>2, <2>3, <2>4 DEF TypeOK
<1>4. CASE call.range
  <2>1. pc' = "chunk" /\ outcome' = "none"
    BY <1>2, <1>4 DEF Done, Goto
  <2>3. CallInv'
    BY <1>1, <1>3, <2>1 DEF CallInv, Active, Used
  <2>4. ProgressInv'
    BY <1>1, <1>2, <1>3, <1>4, <2>1
    DEF ProgressInv, BlocksFrom, Overwritten, CutToNone
  <2>5. ChunkInv'
    BY <1>3, <1>4, <2>1 DEF ChunkInv
  <2>2. pos + n \in 0 .. call.length
    BY <1>1, <1>2
  <2>6. WriteIsPrefix'
    BY <1>1, <1>3, <2>1, <2>2 DEF WriteIsPrefix, Overwritten
  <2>7. ReadIsWhole' /\ FailsForCause'
    BY <2>1 DEF ReadIsWhole, FailsForCause
  <2> QED
    BY <1>9, <2>3, <2>4, <2>5, <2>6, <2>7 DEF IInv
<1>5. CASE ~ call.range
  <2>1. pc' = "idle" /\ outcome' = "ok"
    BY <1>5 DEF Done, Return, Goto
  <2>3. CallInv'
    BY <1>1, <1>3, <2>1 DEF CallInv, Active, Used
  <2>4. ProgressInv' /\ ChunkInv'
    BY <2>1 DEF ProgressInv, ChunkInv, Active
  <2>5. pos + n = call.length
    BY <1>2, <1>5 DEF IInv, ChunkInv
  <2>6. WriteIsPrefix'
    BY <1>1, <1>3, <2>5 DEF WriteIsPrefix, Overwritten
  <2>7. ReadIsWhole'
    BY <1>1, <1>3, <2>5 DEF ReadIsWhole, BlocksFrom, CutToNone
  <2>8. FailsForCause'
    BY <2>1 DEF FailsForCause
  <2> QED
    BY <1>9, <2>3, <2>4, <2>6, <2>7, <2>8 DEF IInv
<1> QED
  BY <1>1, <1>4, <1>5

---------------------------------------------------------------------------
(* One lemma for each kind of step.                                        *)

\* Before the first use; from there on the block size is known.
OpenedPc ==
  \/ pc \in {"sector_size", "device_size", "information", "attach", "geometry", "opened"}
  \/ pc = "idle" /\ m_block_size = BlockSize

\* open, its questions, close and the end of the process find no call in
\* progress and leave none.
LEMMA OpenKeeps ==
  ASSUME IInv,
         \/ \E mode \in {"ro", "rw"} : UnixOpen(mode) \/ Win32Open(mode)
         \/ VhdOpen
         \/ GetSectorSize \/ GetDeviceSize \/ GetInformation \/ attach \/ GetGeometry
         \/ GetLbaRange \/ close \/ CloseFails
  PROVE  IInv'
<1>0. TypeOK /\ CallInv
  BY DEF IInv
<1>1. ASSUME NEW result \in {"none", "trap", "terminate"}, Reset(result)
      PROVE  IInv'
  <2>1. TypeOK'
    <3>1. Len(<<>>) <= MaxBlocks /\ 0 \in 0 .. MaxBlocks /\ 0 \in 0 .. DeviceBlocks
      BY SizesAssumption
    <3> QED
      BY <1>0, <1>1, <3>1 DEF Reset, TypeOK
  <2>2. CallInv' /\ ProgressInv' /\ ChunkInv'
    BY <1>1 DEF Reset, CallInv, ProgressInv, ChunkInv, Active, Used
  <2>3. WriteIsPrefix' /\ ReadIsWhole' /\ FailsForCause'
    BY <1>1 DEF Reset, NoCall, WriteIsPrefix, ReadIsWhole, FailsForCause
  <2> QED
    BY <2>1, <2>2, <2>3 DEF IInv
<1>2. ASSUME pc \notin Used, Keep, m_fd' \in {"none", "ro", "rw"},
             m_block_size' \in {0, BlockSize}, kind' \in Kinds \cup {"none"},
             OpenedPc'
      PROVE  IInv'
  <2>1. call = NoCall /\ outcome \in {"none", "trap", "terminate"}
    BY <1>0, <1>2 DEF CallInv
  <2>2. TypeOK'
    BY <1>0, <1>2 DEF OpenedPc, TypeOK, Keep
  <2>3. CallInv' /\ ProgressInv' /\ ChunkInv'
    BY <1>2, <2>1 DEF OpenedPc, CallInv, ProgressInv, ChunkInv, Active, Used, Keep
  <2>4. WriteIsPrefix' /\ ReadIsWhole' /\ FailsForCause'
    BY <1>2, <2>1 DEF NoCall, WriteIsPrefix, ReadIsWhole, FailsForCause, Keep
  <2> QED
    BY <2>2, <2>3, <2>4 DEF IInv
<1>3. ASSUME NEW mode \in {"ro", "rw"}, UnixOpen(mode) \/ Win32Open(mode)
      PROVE  IInv'
  <2>1. pc \notin Used /\ Keep
    BY <1>3 DEF UnixOpen, Win32Open, Opened, Active, Used
  <2>2. /\ m_fd' \in {"none", "ro", "rw"} /\ m_block_size' \in {0, BlockSize}
        /\ kind' \in Kinds \cup {"none"}
    BY <1>3 DEF UnixOpen, Win32Open, Opened
  <2>3. OpenedPc'
    BY <1>3 DEF OpenedPc, UnixOpen, Win32Open, Opened
  <2> QED
    BY <1>2, <2>1, <2>2, <2>3
<1>4. CASE VhdOpen
  BY <1>2, <1>4 DEF OpenedPc, VhdOpen, Opened, Active, Used
<1>5. CASE GetSectorSize \/ GetDeviceSize \/ GetInformation \/ attach \/ GetGeometry
  <2>1. pc \notin Used /\ Keep
    BY <1>5 DEF GetSectorSize, GetDeviceSize, GetInformation, attach, GetGeometry,
                Asked, Active, Used
  <2>2. /\ m_fd' \in {"none", "ro", "rw"} /\ m_block_size' \in {0, BlockSize}
        /\ kind' \in Kinds \cup {"none"}
    BY <1>0, <1>5 DEF GetSectorSize, GetDeviceSize, GetInformation, attach,
                      GetGeometry, Asked, TypeOK
  <2>3. OpenedPc'
    BY <1>5 DEF OpenedPc, GetSectorSize, GetDeviceSize, GetInformation, attach, GetGeometry,
                Asked
  <2> QED
    BY <1>2, <2>1, <2>2, <2>3
<1>6. CASE GetLbaRange
  <2>1. CASE m_block_size = 0
    BY <1>0, <1>1, <1>6, <2>1 DEF GetLbaRange
  <2>2. CASE m_block_size # 0
    BY <1>0, <1>2, <1>6, <2>2 DEF OpenedPc, GetLbaRange, Asked, Active, Used, TypeOK
  <2> QED
    BY <2>1, <2>2
<1>7. CASE close \/ CloseFails
  BY <1>1, <1>7 DEF close, CloseFails
<1> QED
  BY <1>3, <1>4, <1>5, <1>6, <1>7

\* A call begins: nothing has moved yet.
LEMMA BeginKeeps ==
  ASSUME IInv, NEW c \in Calls, Begin(c)
  PROVE  IInv'
<1>1. /\ c.op \in {"read", "write"} /\ c.min \in Nat /\ c.length \in 0 .. MaxBlocks
      /\ c.range \in BOOLEAN /\ c # NoCall /\ MaxBlocks \in Nat
  BY SizesAssumption DEF Calls, NoCall
<1>2. /\ pc = "idle" /\ m_block_size = BlockSize
      /\ call' = c /\ current_lba' = c.min /\ n' = c.length
      /\ pos' = 0 /\ buf' = <<>> /\ before' = disk /\ outcome' = "none"
      /\ UNCHANGED <<disk, max_rw_count, kind, m_fd, m_block_size, offset>>
      /\ pc' = IF c.range THEN "chunk" ELSE "transfer"
  BY DEF Begin, IInv, CallInv, Used
<1>3. TypeOK'
  BY <1>1, <1>2 DEF IInv, TypeOK
<1>4. CallInv'
  BY <1>1, <1>2 DEF CallInv, Active, Used
<1>5. c.op = "write" => disk' = Overwritten(0)'
  BY <1>1, <1>2 DEF Begin, Fresh, Overwritten
<1>6. buf' = BlocksFrom(c.min, 0)'
  BY <1>2 DEF BlocksFrom
<1>7. ProgressInv'
  BY <1>1, <1>2, <1>5, <1>6 DEF ProgressInv
<1>8. ChunkInv'
  BY <1>1, <1>2 DEF ChunkInv, Begin, Widest
<1>9. WriteIsPrefix' /\ ReadIsWhole' /\ FailsForCause'
  BY <1>1, <1>2, <1>5 DEF WriteIsPrefix, ReadIsWhole, FailsForCause
<1> QED
  BY <1>3, <1>4, <1>7, <1>8, <1>9 DEF IInv

\* The range loop takes its next chunk, or is through.
LEMMA NextChunkKeeps ==
  ASSUME IInv, NextChunk
  PROVE  IInv'
<1>1. /\ pc = "chunk" /\ m_block_size = BlockSize
      /\ call \in Calls /\ call # NoCall /\ call.range
      /\ call.length \in 0 .. MaxBlocks /\ call.min \in Nat
      /\ call.op \in {"read", "write"}
  BY SizesAssumption
  DEF NextChunk, IInv, CallInv, ChunkInv, Active, Used, Calls, NoCall
<1>2. /\ pos \in Nat /\ pos <= call.length /\ current_lba = call.min + pos
      /\ outcome = "none" /\ MaxBlocks \in Nat
  BY <1>1, SizesAssumption DEF IInv, TypeOK, ProgressInv, Active
<1>3. /\ UNCHANGED <<max_rw_count, kind, m_fd, m_block_size, call, before,
                     disk, current_lba, offset, pos, buf>>
  BY DEF NextChunk, Return, Goto
<1>4. CASE current_lba < Max(call)
  <2>1. n' = ChunkBlocks /\ pc' = "transfer" /\ outcome' = "none"
    BY <1>2, <1>4 DEF NextChunk, Goto
  <2>2. /\ ChunkBlocks \in Nat
        /\ pos + ChunkBlocks <= call.length
        /\ ChunkBlocks * BlockSize < U32
    <3> DEFINE rest == Max(call) - current_lba
               q == (U32 - 1) \div BlockSize
    <3>1. /\ rest \in Nat /\ pos + rest = call.length
      BY <1>1, <1>2, <1>4 DEF Max
    <3>2. q \in Nat /\ BlockSize \in Nat \ {0} /\ U32 \in Nat \ {0}
      BY SizesAssumption
    <3>3. ChunkBlocks = Least(rest, q)
      BY <1>1 DEF ChunkBlocks
    <3> HIDE DEF rest, q
    <3>4. ChunkBlocks \in Nat /\ ChunkBlocks <= rest /\ ChunkBlocks <= q
      BY <3>1, <3>2, <3>3 DEF Least
    <3>5. ChunkBlocks * BlockSize < U32
      BY <3>2, <3>4, WidestChunk DEF q
    <3> QED
      BY <1>2, <3>1, <3>4, <3>5
  <2>3. TypeOK'
    BY <1>3, <2>1, <2>2 DEF IInv, TypeOK
  <2>4. CallInv'
    BY <1>1, <1>3, <2>1 DEF CallInv, Active, Used
  <2>5. ProgressInv'
    BY <1>1, <1>3, <2>1 DEF IInv, ProgressInv, Active, BlocksFrom, Overwritten
  <2>6. ChunkInv'
    BY <1>1, <1>3, <2>1, <2>2 DEF ChunkInv
  <2>7. WriteIsPrefix' /\ ReadIsWhole' /\ FailsForCause'
    BY <1>3, <2>1 DEF IInv, WriteIsPrefix, ReadIsWhole, FailsForCause, Overwritten
  <2> QED
    BY <2>3, <2>4, <2>5, <2>6, <2>7 DEF IInv
<1>5. CASE ~ (current_lba < Max(call))
  <2>1. pc' = "idle" /\ outcome' = "ok" /\ UNCHANGED n
    BY <1>5 DEF NextChunk, Return, Goto
  <2>2. pos = call.length
    BY <1>1, <1>2, <1>5 DEF Max
  <2>3. TypeOK'
    BY <1>3, <2>1 DEF IInv, TypeOK
  <2>4. CallInv'
    BY <1>1, <1>3, <2>1 DEF CallInv, Active, Used
  <2>5. ProgressInv' /\ ChunkInv'
    BY <2>1 DEF ProgressInv, ChunkInv, Active
  <2>6. /\ call.op = "read" => buf = BlocksFrom(call.min, pos)
        /\ call.op = "write" => disk = Overwritten(pos)
    BY <1>1 DEF IInv, ProgressInv, Active
  <2>7. WriteIsPrefix'
    BY <1>1, <1>3, <2>2, <2>6 DEF WriteIsPrefix, Overwritten
  <2>8. ReadIsWhole'
    BY <1>3, <2>2, <2>6 DEF ReadIsWhole, BlocksFrom
  <2>9. FailsForCause'
    BY <2>1 DEF FailsForCause
  <2> QED
    BY <2>3, <2>4, <2>5, <2>7, <2>8, <2>9 DEF IInv
<1> QED
  BY <1>4, <1>5

\* A chunk of no blocks is done without a transfer.
LEMMA MoveNoneKeeps ==
  ASSUME IInv, MoveNone
  PROVE  IInv'
<1>1. pc = "transfer" /\ n = 0 /\ Done
      /\ UNCHANGED <<disk, current_lba, n, offset, pos, buf>>
  BY DEF MoveNone
<1>2. TypeOK /\ pos \in Nat /\ current_lba \in Nat
  BY DEF IInv, TypeOK
<1>3. pos + n = pos /\ current_lba + n = current_lba
  BY <1>1, <1>2
<1>4. /\ call.op = "read" => buf = BlocksFrom(call.min, pos)
      /\ call.op = "write" => disk = Overwritten(pos)
  BY <1>1 DEF IInv, ProgressInv, Active
<1>5. /\ DOMAIN disk' = Lba /\ Len(buf') <= MaxBlocks /\ offset' \in 0 .. DeviceBlocks
      /\ pos' = pos + n /\ current_lba' = current_lba + n
  BY <1>1, <1>2, <1>3 DEF TypeOK
<1>6. /\ call.op = "read" => UNCHANGED disk /\ buf' = BlocksFrom(call.min, pos + n)
      /\ call.op = "write" => disk' = Overwritten(pos + n)
  BY <1>1, <1>3, <1>4
<1> QED
  BY <1>1, <1>5, <1>6, ChunkKeeps

\* What the proofs of the transfers use of the call in progress: it stays within
\* the range (IBlockDevice.cpp:9-12), and what is expected of it within its chunk.
LEMMA TransferFacts ==
  ASSUME IInv, pc \in {"transfer", "move"}
  PROVE  /\ m_block_size = BlockSize /\ call \in Calls /\ call # NoCall
         /\ current_lba \in Nat /\ n \in Nat /\ pos \in Nat
         /\ current_lba + n <= Max(call)
         /\ ExpectedBlocks \in 0 .. n
         /\ call.range => n * BlockSize < U32
         /\ n * BlockSize < U32 => ExpectedBlocks = n
         /\ ~ call.range /\ call.op = "write" => ExpectedBlocks = n
         /\ ~ call.range => n = call.length
<1>1. TypeOK /\ m_block_size = BlockSize /\ call \in Calls /\ call # NoCall
  BY DEF IInv, CallInv, Active, Used, Calls, NoCall
<1>2. current_lba \in Nat /\ n \in Nat /\ pos \in Nat
  BY <1>1 DEF TypeOK
<1>3. call.min \in Nat /\ call.length \in Nat
  BY <1>1, SizesAssumption DEF Calls
<1>4. current_lba + n <= Max(call)
  BY <1>2, <1>3 DEF IInv, ProgressInv, ChunkInv, Active, Max
<1>5. ExpectedBlocks \in 0 .. n /\ (n * BlockSize < U32 => ExpectedBlocks = n)
  BY <1>1, ExpectedFacts
<1>6. /\ call.range => n * BlockSize < U32
      /\ ~ call.range => n = call.length /\ n <= Widest(call.op)
  BY DEF IInv, ChunkInv
<1>7. ASSUME ~ call.range, call.op = "write"
      PROVE  n * BlockSize < U32
  <2>1. n <= (U32 - 1) \div BlockSize
    BY <1>6, <1>7 DEF Widest
  <2>2. BlockSize \in Nat \ {0} /\ U32 \in Nat \ {0}
    BY SizesAssumption
  <2> QED
    BY <1>2, <2>1, <2>2, WidestChunk
<1> QED
  BY <1>1, <1>2, <1>4, <1>5, <1>6, <1>7

\* The kernel moves at most what it is asked for, and stays on the device.
LEMMA KernelFacts ==
  ASSUME IInv, pc = "move"
  PROVE  /\ KernelMoves \in 0 .. n /\ KernelMoves <= ExpectedBlocks
         /\ offset \in 0 .. DeviceBlocks /\ offset = current_lba
         /\ \A count \in 0 .. KernelMoves : offset + count \in 0 .. DeviceBlocks
         /\ KernelMoves < ExpectedBlocks \/ KernelMoves = 0 =>
              \/ ExpectedBlocks = 0
              \/ max_rw_count < n
              \/ Max(call) > DeviceBlocks
<1>1. /\ ExpectedBlocks \in 0 .. n /\ n \in Nat /\ current_lba + n <= Max(call)
      /\ current_lba \in Nat
  BY TransferFacts
<1>2. offset \in 0 .. DeviceBlocks /\ max_rw_count \in Nat /\ DeviceBlocks \in Nat
  BY SizesAssumption DEF IInv, TypeOK
<1>3. n > 0 /\ offset = current_lba
  BY DEF IInv, ChunkInv
<1>4. Max(call) \in Nat
  BY TransferFacts, SizesAssumption DEF Max, Calls
<1>5. KernelMoves = Least(Least(ExpectedBlocks, max_rw_count), DeviceBlocks - offset)
  BY DEF KernelMoves
<1> QED
  BY <1>1, <1>2, <1>3, <1>4, <1>5 DEF Least

\* lseek64 refuses only an offset beyond the device.
LEMMA SeekKeeps ==
  ASSUME IInv, Seek
  PROVE  IInv'
<1>1. /\ pc = "transfer" /\ n > 0 /\ kind = "unix"
      /\ UNCHANGED <<disk, current_lba, n, pos, buf>>
  BY DEF Seek
<1>2. /\ m_block_size = BlockSize /\ call \in Calls /\ call # NoCall
      /\ current_lba \in Nat /\ n \in Nat /\ current_lba + n <= Max(call)
      /\ DeviceBlocks \in Nat
  BY <1>1, TransferFacts, SizesAssumption
<1>3. Max(call) \in Nat
  BY <1>2, SizesAssumption DEF Max, Calls
<1>4. CASE current_lba > DeviceBlocks
  <2>1. /\ UNCHANGED offset /\ pc' = "idle" /\ outcome' = "error"
        /\ UNCHANGED <<max_rw_count, kind, m_fd, m_block_size, call, before>>
    BY <1>4 DEF Seek, Return, Goto
  <2>2. TypeOK'
    BY <1>1, <2>1 DEF IInv, TypeOK
  <2>3. CallInv'
    BY <1>2, <2>1 DEF CallInv, Active, Used
  <2>4. ProgressInv' /\ ChunkInv' /\ ReadIsWhole'
    BY <2>1 DEF ProgressInv, ChunkInv, ReadIsWhole, Active
  <2>5. WriteIsPrefix'
    BY <1>1, <2>1 DEF IInv, WriteIsPrefix, Overwritten
  <2>6. Max(call) > DeviceBlocks
    BY <1>2, <1>3, <1>4
  <2>7. FailsForCause'
    BY <2>1, <2>6 DEF FailsForCause, Max
  <2> QED
    BY <2>2, <2>3, <2>4, <2>5, <2>7 DEF IInv
<1>5. CASE ~ (current_lba > DeviceBlocks)
  <2>1. /\ offset' = current_lba /\ pc' = "move" /\ UNCHANGED outcome
        /\ UNCHANGED <<max_rw_count, kind, m_fd, m_block_size, call, before>>
    BY <1>5 DEF Seek, Goto
  <2>2. TypeOK'
    BY <1>1, <1>2, <1>5, <2>1 DEF IInv, TypeOK
  <2>3. CallInv'
    BY <1>2, <2>1 DEF CallInv, Active, Used
  <2>4. ProgressInv'
    BY <1>1, <2>1 DEF IInv, ProgressInv, Active, BlocksFrom, Overwritten
  <2>5. ChunkInv'
    BY <1>1, <2>1 DEF IInv, ChunkInv, Widest
  <2>6. WriteIsPrefix' /\ ReadIsWhole'
    BY <1>1, <2>1 DEF IInv, WriteIsPrefix, ReadIsWhole, Overwritten
  <2>7. FailsForCause'
    BY <1>1, <2>1 DEF IInv, FailsForCause, Max
  <2> QED
    BY <2>2, <2>3, <2>4, <2>5, <2>6, <2>7 DEF IInv
<1> QED
  BY <1>4, <1>5

\* A system call that moves its whole chunk.
LEMMA MoveAllKeeps ==
  ASSUME IInv, MoveAll
  PROVE  IInv'
<1> DEFINE E == ExpectedBlocks
<1>1. /\ pc = "move" /\ KernelMoves = E
      /\ call.op = "read" => E > 0
      /\ Moved(offset, E) /\ offset' = offset + E
      /\ current_lba' = current_lba + n /\ pos' = pos + n /\ UNCHANGED n /\ Done
  BY DEF MoveAll, MovedHere, Advance
<1>2. /\ E \in 0 .. n /\ offset = current_lba /\ offset' \in 0 .. DeviceBlocks
  BY <1>1, KernelFacts, TransferFacts
<1>3. E = n
  <2>1. CASE call.range \/ call.op = "write"
    BY <1>1, <2>1, TransferFacts
  <2>2. CASE ~ call.range /\ call.op = "read"
    <3>1. n \in Nat /\ n <= U32 \div BlockSize /\ n > 0
      BY <1>1, <2>2, TransferFacts DEF IInv, ChunkInv, Widest
    <3>2. BlockSize \in Nat \ {0} /\ U32 \in Nat \ {0} /\ m_block_size = BlockSize
      BY <1>1, SizesAssumption, TransferFacts
    <3>3. n * BlockSize <= U32
      <4> DEFINE q == U32 \div BlockSize
      <4>1. q \in Nat /\ q * BlockSize <= U32
        BY <3>2
      <4> HIDE DEF q
      <4>2. n <= q
        BY <3>1 DEF q
      <4>3. n * BlockSize <= q * BlockSize
        BY <3>1, <3>2, <4>1, <4>2
      <4> QED
        BY <3>1, <3>2, <4>1, <4>3
    <3>4. n * BlockSize # U32
      <4>1. ASSUME n * BlockSize = U32
            PROVE  FALSE
        <5>1. E = (U32 % U32) \div BlockSize
          BY <3>2, <4>1 DEF ExpectedBlocks
        <5>2. E = 0
          BY <3>2, <5>1
        <5> QED
          BY <1>1, <2>2, <5>2
      <4> QED
        BY <4>1
    <3>5. n * BlockSize < U32
      BY <3>1, <3>2, <3>3, <3>4
    <3> QED
      BY <1>1, <3>5, TransferFacts
  <2>3. call.op \in {"read", "write"}
    BY <1>1, TransferFacts DEF Calls
  <2> QED
    BY <2>1, <2>2, <2>3
<1>4. Moved(current_lba, E)
  BY <1>1, <1>2
<1>5. /\ DOMAIN disk' = Lba /\ Len(buf') <= MaxBlocks
      /\ call.op = "read" => UNCHANGED disk /\ buf' = BlocksFrom(call.min, pos + E)
      /\ call.op = "write" => disk' = Overwritten(pos + E)
  BY <1>1, <1>2, <1>4, TransferGoesOn
<1> QED
  BY <1>1, <1>2, <1>3, <1>5, ChunkKeeps

\* A system call that moves less than its chunk, or is refused.
LEMMA MoveFailsKeeps ==
  ASSUME IInv, MoveFails
  PROVE  IInv'
<1>1. /\ pc = "move" /\ Return("error") /\ UNCHANGED <<current_lba, n, pos>>
      /\ outcome' = "error"
      /\ UNCHANGED <<max_rw_count, kind, m_fd, m_block_size, call, before>>
  BY DEF MoveFails, Return, Goto
<1>2. kind = "unix"
  BY <1>1 DEF IInv, ChunkInv
<1>3. /\ ExpectedBlocks \in 0 .. n /\ n \in Nat /\ n > 0
      /\ n * BlockSize < U32 => ExpectedBlocks = n
      /\ call.range => n * BlockSize < U32
      /\ call.range \in BOOLEAN
  BY <1>1, TransferFacts DEF Calls, IInv, ChunkInv
<1>4. /\ offset \in 0 .. DeviceBlocks /\ offset = current_lba
      /\ 0 \in 0 .. KernelMoves /\ KernelMoves \in 0 .. n
      /\ \A count \in 0 .. KernelMoves : offset + count \in 0 .. DeviceBlocks
  BY <1>1, KernelFacts
<1>5. CASE call.op = "write" /\ m_fd = "ro" /\ MovedHere(0)
  <2>1. Moved(current_lba, 0) /\ offset' \in 0 .. DeviceBlocks /\ 0 \in 0 .. n
    BY <1>3, <1>4, <1>5 DEF MovedHere
  <2>2. FailsForCause'
    BY <1>1, <1>5 DEF FailsForCause
  <2> QED
    BY <1>1, <2>1, <2>2, StopKeeps
<1>6. CASE /\ KernelMoves < ExpectedBlocks \/ (call.op = "read" /\ KernelMoves = 0)
           /\ MovedHere(KernelMoves)
  <2>1. Moved(current_lba, KernelMoves) /\ offset' \in 0 .. DeviceBlocks
    BY <1>4, <1>6 DEF MovedHere
  <2>2. ExpectedBlocks = 0 \/ max_rw_count < n \/ Max(call) > DeviceBlocks
    BY <1>1, <1>6, KernelFacts
  <2>3. \/ Max(call) > DeviceBlocks
        \/ n > max_rw_count
        \/ ~ call.range /\ n * BlockSize >= U32
    <3>1. CASE ExpectedBlocks = 0
      <4>1. n * BlockSize \in Nat /\ U32 \in Nat
        BY <1>3, SizesAssumption
      <4>2. ~ (n * BlockSize < U32)
        BY <1>3, <3>1
      <4> QED
        BY <1>3, <4>1, <4>2
    <3>2. CASE max_rw_count < n
      <4>1. max_rw_count \in Nat
        BY SizesAssumption DEF IInv, TypeOK
      <4> QED
        BY <1>3, <3>2, <4>1
    <3> QED
      BY <2>2, <3>1, <3>2
  <2>4. FailsForCause'
    BY <1>1, <1>2, <2>3 DEF FailsForCause, Max
  <2> QED
    BY <1>1, <1>4, <2>1, <2>4, StopKeeps
<1> QED
  BY <1>5, <1>6 DEF MoveFails

\* A fault of the device in a system call.
LEMMA MoveFaultsKeeps ==
  ASSUME IInv, MoveFaults
  PROVE  IInv'
<1>1. pc = "move" /\ Return("fault") /\ UNCHANGED <<current_lba, n, pos>>
  BY DEF MoveFaults
<1>2. PICK count \in 0 .. KernelMoves : MovedHere(count)
  BY DEF MoveFaults
<1>3. offset = current_lba /\ KernelMoves \in 0 .. n /\ offset + count \in 0 .. DeviceBlocks
  BY <1>1, KernelFacts
<1>4. n \in Nat
  BY <1>1, TransferFacts
<1>5. count \in 0 .. n
  BY <1>3, <1>4
<1>6. Moved(current_lba, count) /\ offset' \in 0 .. DeviceBlocks
  BY <1>2, <1>3 DEF MovedHere
<1> QED
  BY <1>1, <1>5, <1>6, StopKeeps

\* A SCSI request that succeeds.
LEMMA RequestGoodKeeps ==
  ASSUME IInv, RequestGood
  PROVE  IInv'
<1> DEFINE E == ExpectedBlocks
<1>1. /\ pc = "transfer" /\ kind = "vhd" /\ UNCHANGED offset
      /\ Moved(current_lba, E) /\ Done
      /\ current_lba' = current_lba + n /\ pos' = pos + n /\ UNCHANGED n
  BY DEF RequestGood, Requests, Advance
<1>2. /\ E \in 0 .. n /\ n \in Nat /\ call \in Calls
      /\ n * BlockSize < U32 => E = n
      /\ call.range => n * BlockSize < U32
      /\ ~ call.range /\ call.op = "write" => E = n
      /\ ~ call.range => n = call.length
  BY <1>1, TransferFacts
<1>3. offset' \in 0 .. DeviceBlocks
  BY <1>1 DEF IInv, TypeOK
<1>4. /\ DOMAIN disk' = Lba /\ Len(buf') <= MaxBlocks
      /\ call.op = "read" => UNCHANGED disk /\ buf' = BlocksFrom(call.min, pos + E)
      /\ call.op = "write" => disk' = Overwritten(pos + E)
  BY <1>1, <1>2, TransferGoesOn
<1>5. E = n \/ (call.op = "read" /\ CutToNone)
  <2>1. n * BlockSize \in Nat /\ U32 \in Nat
    BY <1>2, SizesAssumption
  <2>2. n * BlockSize < U32 \/ n * BlockSize >= U32
    BY <2>1
  <2>3. call.op \in {"read", "write"} /\ call.range \in BOOLEAN
    BY <1>2 DEF Calls
  <2> QED
    BY <1>1, <1>2, <2>2, <2>3 DEF CutToNone
<1>6. /\ call.op = "read" =>
           UNCHANGED disk /\ (buf' = BlocksFrom(call.min, pos + n) \/ CutToNone)
      /\ call.op = "write" => disk' = Overwritten(pos + n)
  BY <1>4, <1>5
<1> QED
  BY <1>1, <1>3, <1>4, <1>6, ChunkKeeps

\* A SCSI request that the driver refuses.
LEMMA RequestFailsKeeps ==
  ASSUME IInv, RequestFails
  PROVE  IInv'
<1>1. /\ pc = "transfer" /\ pc' = "idle" /\ outcome' = "error"
      /\ UNCHANGED <<disk, current_lba, n, offset, pos, buf>>
      /\ UNCHANGED <<max_rw_count, kind, m_fd, m_block_size, call, before>>
  BY DEF RequestFails, Requests, Return, Goto
<1>2. /\ m_block_size = BlockSize /\ call \in Calls /\ call # NoCall
      /\ current_lba \in Nat /\ n \in Nat /\ current_lba + n <= Max(call)
      /\ n * BlockSize < U32 => ExpectedBlocks = n
      /\ call.range => n * BlockSize < U32
      /\ DeviceBlocks \in Nat
  BY <1>1, TransferFacts, SizesAssumption
<1>3. Max(call) > DeviceBlocks \/ (~ call.range /\ n * BlockSize >= U32)
  <2>1. Max(call) \in Nat /\ n * BlockSize \in Nat /\ U32 \in Nat
    BY <1>2, SizesAssumption DEF Max, Calls
  <2>2. CASE ~ OnDevice
    BY <1>2, <2>1, <2>2 DEF OnDevice
  <2>3. CASE ExpectedBlocks # n
    <3>1. ~ (n * BlockSize < U32) /\ ~ call.range
      BY <1>2, <2>3
    <3> QED
      BY <2>1, <3>1
  <2> QED
    BY <2>2, <2>3 DEF RequestFails
<1>4. TypeOK'
  BY <1>1 DEF IInv, TypeOK
<1>5. CallInv'
  BY <1>1, <1>2 DEF CallInv, Active, Used
<1>6. ProgressInv' /\ ChunkInv' /\ ReadIsWhole'
  BY <1>1 DEF ProgressInv, ChunkInv, ReadIsWhole, Active
<1>7. WriteIsPrefix'
  BY <1>1 DEF IInv, WriteIsPrefix, Overwritten
<1>8. FailsForCause'
  BY <1>1, <1>3 DEF FailsForCause, Max
<1> QED
  BY <1>4, <1>5, <1>6, <1>7, <1>8 DEF IInv

\* A fault of the device in a SCSI request.
LEMMA RequestFaultsKeeps ==
  ASSUME IInv, RequestFaults
  PROVE  IInv'
<1>1. /\ pc = "transfer" /\ Return("fault") /\ UNCHANGED offset
      /\ UNCHANGED <<current_lba, n, pos>>
  BY DEF RequestFaults, Requests
<1>2. PICK count \in 0 .. ExpectedBlocks : Moved(current_lba, count)
  BY DEF RequestFaults
<1>3. ExpectedBlocks \in 0 .. n /\ n \in Nat
  BY <1>1, TransferFacts
<1>4. count \in 0 .. n
  BY <1>3
<1>5. offset' \in 0 .. DeviceBlocks
  BY <1>1 DEF IInv, TypeOK
<1> QED
  BY <1>1, <1>2, <1>4, <1>5, StopKeeps

---------------------------------------------------------------------------
(* The invariant and the properties.                                       *)

\* No device, nothing moved.
LEMMA InitHolds == Init => IInv
<1> SUFFICES ASSUME Init PROVE IInv
  OBVIOUS
<1>1. TypeOK
  BY SizesAssumption DEF Init, TypeOK, Fresh
<1>2. CallInv /\ ProgressInv /\ ChunkInv
  BY DEF Init, CallInv, ProgressInv, ChunkInv, Active, Used
<1>3. WriteIsPrefix /\ ReadIsWhole /\ FailsForCause
  BY DEF Init, NoCall, WriteIsPrefix, ReadIsWhole, FailsForCause
<1> QED
  BY <1>1, <1>2, <1>3 DEF IInv

\* Every step of a device and of the calls on it keeps the invariant.
LEMMA StepKeeps == IInv /\ [Next]_vars => IInv'
<1> SUFFICES ASSUME IInv, [Next]_vars PROVE IInv'
  OBVIOUS
<1>1. CASE \/ \E mode \in {"ro", "rw"} : UnixOpen(mode) \/ Win32Open(mode)
           \/ VhdOpen
           \/ GetSectorSize \/ GetDeviceSize \/ GetInformation \/ attach \/ GetGeometry
           \/ GetLbaRange \/ close \/ CloseFails
  BY <1>1, OpenKeeps
<1>2. CASE \E c \in Calls : Begin(c)
  BY <1>2, BeginKeeps
<1>3. CASE Work
  BY <1>3, NextChunkKeeps, MoveNoneKeeps, SeekKeeps, MoveAllKeeps, MoveFailsKeeps,
     MoveFaultsKeeps, RequestGoodKeeps, RequestFailsKeeps, RequestFaultsKeeps DEF Work
<1>4. CASE UNCHANGED vars
  <2>1. TypeOK' /\ CallInv' /\ ProgressInv' /\ ChunkInv'
    BY <1>4 DEF IInv, vars, TypeOK, CallInv, ProgressInv, ChunkInv, Active, Used,
                BlocksFrom, Overwritten, Widest
  <2>2. WriteIsPrefix' /\ ReadIsWhole' /\ FailsForCause'
    BY <1>4 DEF IInv, vars, WriteIsPrefix, ReadIsWhole, FailsForCause, Overwritten, Max
  <2> QED
    BY <2>1, <2>2 DEF IInv
<1> QED
  BY <1>1, <1>2, <1>3, <1>4 DEF Next

\* The invariant holds at every moment of every device's life.
THEOREM Invariance == Spec => []IInv
<1>1. Init => IInv
  BY InitHolds
<1>2. IInv /\ [Next]_vars => IInv'
  BY StepKeeps
<1> QED
  BY <1>1, <1>2, PTL DEF Spec

\* Descriptors, block sizes, positions and buffers of the devices stay what the
\* class declarations say, and a buffer is never filled beyond its range.
THEOREM TypeCorrect == Spec => []TypeOK
<1>1. IInv => TypeOK
  BY DEF IInv
<1> QED
  BY <1>1, Invariance, PTL

\* However a read is cut into chunks and system calls, its buffer holds the blocks
\* of its range, in order, when it returns (IBlockDevice.cpp:8-14).
THEOREM ReadsAreWhole == Spec => []ReadIsWhole
<1>1. IInv => ReadIsWhole
  BY DEF IInv
<1> QED
  BY <1>1, Invariance, PTL

\* A write that goes on, has returned, has failed or was hit by a fault has changed
\* a prefix of its range only (IBlockDevice.cpp:17-27).
THEOREM WritesArePrefixes == Spec => []WriteIsPrefix
<1>1. IInv => WriteIsPrefix
  BY DEF IInv
<1> QED
  BY <1>1, Invariance, PTL

\* A call fails, when no fault is to blame, only for one of the causes that
\* FailsForCause names.
THEOREM FailuresHaveCause == Spec => []FailsForCause
<1>1. IInv => FailsForCause
  BY DEF IInv
<1> QED
  BY <1>1, Invariance, PTL
=============================================================================
