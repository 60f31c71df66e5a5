# vmgs-utils, verified

TLA+ models of vmgs-utils (C++ under `src/src`, a Python module under
`src/vmgs`): reading and rewriting the file that Hyper-V keeps in a VMGS
partition. The modules are checked by TLC on small instances, and the theorems
of the eight `*_proofs` modules by TLAPS for every value of the constants: all
the safety properties of the runs that hold, and the refinement.

`PROJECT.json` lists components, runs, mutants, hazards, findings and
theorems, and names the source lines that each definition translates.

## 1. Inventory

A script calls `vmgs.VmgsIO(dev=..., writable=...)` (or `file=...` on Windows),
then `read()`, `write(buf)`, `close()`. All of it runs in the caller's thread,
with the interpreter lock held. Concurrency comes from other processes: nothing
locks the device, and on Windows it is opened for shared reading and writing.

| Component | State | Operations | What makes it correct |
|---|---|---|---|
| VMGS format, `VmgsData` (`Vmgs.hpp`, `Vmgs.cpp:14-211`) | two headers: sequence number, active index, two locators | `load_from`, `update_data_size`, `store_to`, `active_header` | only what was stored loads; and only what was there together; what loads is in range; the newer header is the active one; what is stored loads again |
| `VmgsIO` (`Vmgs.cpp:226-407`) | two owned devices, cached `VmgsData` | constructor, `read`, `write`, `close`, destructor | a returned write is stored whole; a stop in the middle loses no more than the part of the data in flight; other blocks are left alone; the file can always be opened again |
| GPT (`Gpt.cpp`, `Vmgs.cpp:292-310`) | none kept: header and entries are locals of `from_disk` | `Gpt::load_from`, choice of the partition | the partition opened is one that was written, on the disk; the backup header helps |
| `IBlockDevice` ranges (`IBlockDevice.cpp`) | position in the range and in the buffer | range `read_blocks`, `write_blocks` | every block of the range, once and in order; ends |
| `UnixBlockDevice` | descriptor and its offset, block size, device size | `open`, `read_blocks`, `write_blocks`, `close` | moves what was asked or throws |
| `VhdPartitionRef` | reference to the disk, its range | offset and forward | stays in the partition (checks nothing: its callers must) |
| `VhdDisk` | handle, sizes | `open`, `attach`, `read_blocks`, `write_blocks`, `close` | as `UnixBlockDevice` |
| `Win32BlockDevice` | handle, block size, device size, alignment | the same, without `attach` | what was opened can be used |
| byte order (`endian_storage.hpp`) | none | `endian_load`, `endian_store` | a stored number has one form on every machine, and loads again |
| intervals, CRC, binding glue, Python codec | none | pure | |

Calls go down: `VmgsIO` -> `VmgsData` -> `IBlockDevice` -> system call. The
partition is either the whole device (`from_partition`) or a `VhdPartitionRef`
into a `VhdDisk` that `VmgsIO` also owns (`from_disk`, where `Gpt` finds it).

What is hard here: `write()` is up to a dozen device calls, overwrites the
active allocation in place, and stores two headers one after the other, while
`load_from` needs both; no call flushes; failures leave the object ahead of the
device; another process may do the same between any two calls; lengths are
32 bit in places; asserts vanish in the release build (`setup.py:46`). The full
list with lines is under "hazards" in `PROJECT.json`.

## 2. Modules

| Module | What it models |
|---|---|
| `VmgsFormat` | The operators of the header format: layouts, `store`, `load`'s tests, active header and locator, resize. No state. |
| `VmgsData` | A header pair on a device: other tools and their updates, damage, the two reads of `load_from`, `update_data_size`, the two writes of `store_to`. |
| `VmgsIO` | Any number of processes with a `VmgsIO` each, one device call per step. Extends `VmgsFormat`. |
| `VmgsNeighbour` | `VmgsIO` composed with another program that owns the blocks around the headers and the allocation. |
| `VmgsStore` | The promise to one process: one string of bytes, torn at most by a prefix of the new data, then switched to exactly the new data. |
| `VmgsIORefinement` | `VmgsIO` with one process implements `VmgsStore`. |
| `BlockDevice` | The range loops over a `UnixBlockDevice`, a `VhdDisk` or a `Win32BlockDevice`, a system call or a SCSI request per step. |
| `Gpt` | `from_disk` up to the partition it picks, on a disk that other tools write and that decays. |
| `Interval` | The half open interval of block addresses. |
| `EndianStorage` | `endian_load` and `endian_store`. No state. |
| `MCVmgsIO`, `MCVmgsNeighbour`, `MCVmgsData`, `MCGpt` | Values of the constants for TLC. |
| `VmgsFormat_proofs`, `VmgsIO_proofs`, `VmgsNeighbour_proofs`, `VmgsIORefinement_proofs`, `VmgsData_proofs`, `BlockDevice_proofs`, `Gpt_proofs`, `EndianStorage_proofs` | Theorems about the module they are named after (section 4). |

### VmgsIO and the code

* A process is at `pc[h]`: `load0`, `load1` are the two reads of `load_from`
  (`Vmgs.cpp:193-194`), the tests belong to the second (`Load1`).
  `direct` is `write_blocks(lba, n, ptr)` (267), `tail_read` and `tail_write`
  the block after it (270, 273), `store_read0` .. `store_write1` the four calls
  of `store_to` (171-181), `reading` the call of `read()` (248).
* Code between two device calls goes with the one before it, or with the start
  of the call. So `TailWrite` includes the size test of `update_data_size`,
  which comes after the data has gone out, and changes `m_vmgs_data` before
  `store_to` begins.
* A block is `[head, body]`: the header layout that its first 0x60 bytes hold,
  or `Raw`, and its other bytes. Data that is put over a block makes its head
  `Raw`; storing a header leaves the body.
* A transfer of several blocks is one step per block. A block is atomic. Every
  step may end in an exception when the call cannot be served, or when
  `"io" \in Faults`; a write that reports an error may have gone out or not.
* `Call` chooses the constructor's arguments (`Kwargs`). `Accepts` is what is
  not refused on the spot: `dev` for a device that is the partition, `file` for
  a disk that has one; from it follow the rights (`Writable`). An argument of
  the wrong type, here or for `write()`, throws before anything changes.
* `disk` is what processes see, `media` what survives a loss of power: blocks
  move from one to the other at any time and in any order (`Writeback`).
* `Gone` is the object's end by the collector, by a call on a closed object
  (null `m_partition_dev`) or by an exception in the destructor.
* A transfer of `VmgsIO` is one `write_blocks` or `read_blocks`, so that on a
  `UnixBlockDevice` (`FromPartition`) it is one `write(2)` or `read(2)`, which
  moves `KernelLimit` blocks at most: `Served` is false of the next one, and the
  call throws for its short count after those have been moved.
* `Moved(n)` and `ReadBlocks` keep the 32 bit length of both devices: for a
  `data_size` close to 2^32 it comes out as 0. A `UnixBlockDevice` then throws
  ("Read end of device."). A `VhdDisk` sends a request with two lengths that
  disagree: it is refused (`IoFails`), or moves nothing and succeeds, and
  `read()` returns the zeroes its vector was made with (`ReadNothing`).

### VmgsData and Gpt and the code

`VmgsData` takes the same operators and asks what a VMGS of another tool, or a
damaged one, may lead to. `Decay` sets a field of a stored layout to another
value; a CRC without collisions tells (`Crc32` is the identity in the runs).
`load_from` is its two reads, `LoadFirst` (193) and `LoadSecond` (194-211, with
all tests), and `store_to` its two writes, `StoreFirst` and `StoreSecond`.
Between them the call may fail, the process may be killed (a `LoadFirst` is also
that of the next one), or another tool may write. Such a tool lays the headers
out anew (`OtherTool`) or replaces the older one by the successor of the newer
one, as the sequence numbers are for (`Update`); `updates` counts those that the
object has not seen, from its first read on. `header0` is the block that was
read; `origin`, the header that was stored there, and `meanwhile`, the pairs
stored since, are history, for `LoadedWasStored`: what loads is that first
header and the second one now on the device, undamaged, and the two were there
together.

### VmgsNeighbour and the code

`write()` reads the block after the last whole block of its buffer and writes it
back (269-273), even when no byte of the buffer goes there. After a buffer that
fills the allocation that block belongs to someone else. `owned[b]` is what the
owner of a block put there, in order; `OwnerKeepsBlocks` says what of it may get
lost: a change of the one block behind the allocation, undone by an older
content of the same owner, and nothing else.

In `Gpt` the steps are the reads of `load_from`: the MBR (`ReadMbr`), the header
at LBA 1 (`ReadHeader`), the backup (`ReadBackup`), the entries (`ReadEntries`),
then the loop of `from_disk` (`Pick`). `Plausible` is what the header's `load`
tests before the checksum: its failure is not a `GptChecksumValidationError`,
so there is no fallback. Header fields with a single legal value are one field.
`RecoverableOpens` speaks of the step at which `from_disk` throws: a table that
is `Sound`, one that loads undamaged and whose two copies of the entries lie
apart, has at that moment lost more than one copy and the way to the other. (Of
the states after it this would be wrong: later damage may make a header
plausible that was not when it was read.)

### BlockDevice and the code

`Begin` starts a range call, or a `read_blocks(lba, n)` of a length `VmgsIO`
asks for; `NextChunk` is an iteration of the loop, `Seek` the `lseek64`, `MoveAll`,
`MoveFails` and `MoveFaults` the `read` or `write` and the tests on its result;
`RequestGood`, `RequestFails` and `RequestFaults` are the one SCSI request of a
`VhdDisk`. `open` is the system calls it consists of, one step each, and
`GetLbaRange` the first question asked about an open device, by `load_from`: a
division by `m_block_size`, which traps when that is 0. `close` and `CloseFails`
are the end of an object in use or of one half made; a close that fails throws
out of a destructor and ends the process.

The request of a `VhdDisk` has its length twice: in blocks, and as
`n * SECTOR_SIZE` in 32 bits. The model assumes of the driver that it refuses a
request beyond the disk, that it moves the bytes or refuses when the two
disagree, and that `SCSISTAT_GOOD` means that the length in bytes was moved; the
assert on this (`VhdDisk.cpp:43`) is not in a release build.

`max_rw_count` is the kernel's limit on one system call: Linux moves less than
2 GiB, so that a full chunk (4 GiB) is always cut short. `VmgsIO` relies on
`WriteIsPrefix` and `ReadIsWhole`: its transfers go block by block in order, and
one that fails has moved a prefix; its `KernelLimit` is the same limit in blocks.

## 3. Runs

| Run | Question | Properties |
|---|---|---|
| `single` | One process on a `VhdDisk`; device errors and kills at every step; sizes 0, 1, 3, 4, 7, 8 with blocks of 2 bytes and 2^32 scaled to 8. | `TypeOK`, `ReturnedWriteIsOnDisk`, `ReadReturnsStored`, `ImplementsStore` |
| `pair` | Two processes on a `UnixBlockDevice` without errors interleave and may be killed, beside a program that writes the two blocks behind the allocation. | `IInv`, `OwnerKeepsBlocks`, `BytesInPlace`, `NoSpuriousError` |
| `partition` | A partition inside a disk without errors, the other header active, sequence numbers 0 and 2^32 - 1, loss of power. | `ForeignIntact`, `ImageLoads`, `HeadersOnlyResize`, `BytesInPlace`, `NoSpuriousError`, `CacheFresh`, `CallReturns` |
| `headers` | Other tools and their updates between any two device calls, one damaged field, resizes, loads and stores that stop half way. | `TypeOK`, `LoadedInRange`, `ActiveIsNewer`, `StoredReloads`, `StaleStoreLoads`, `LoadedWasStored` |
| `gpt` | Careful and sloppy partition tables, two damaged places, read errors. | `TypeOK`, `OpenedWasWritten`, `OpenedOnDisk`, `RecoverableOpens` |
| `transfer` | The three devices; chunks of 3 blocks, calls that fail or stop short; 4 or 2 blocks at most per system call. | `TypeOK`, `ReadIsWhole`, `WriteIsPrefix`, `FailsForCause`, `CallReturns` |

What they show, in short: as long as buffers fit, have items of one byte, do not
end with the device and are no longer than a device call can be, no order of calls, failures, kills and power losses
makes a VMGS unloadable, touches another block or moves a byte. What is lost is
bounded: during a write the content may be torn into a prefix of the new data
and a rest of the old one at the old length; the length changes in one step.
After a loss of power, or with two writers, any mix of the bytes is possible,
each still at its own place.

Other programs are another matter. A load that meets updates by the format's
rules gives out two headers that were on the device together, if perhaps not the
latest ones: it is the test for a gap that refuses every other mix of an old first
header and a newer second one (`LoadedWasStored`). What `store_to` writes is the object's
headers, not those on the device with a new size: an update of another tool in
between is undone without notice. `StaleStoreLoads` says that at least the file
loads wherever the store stops, if there was one such update; after two, the old
first header and the new second one may have a gap between them, and the file is
refused until the store is repeated. Of a neighbour's blocks the one behind the
allocation may lose a change.

Six runs show where the code does not do what it says ("findings"):

* `oversize`: `write()` overwrites the blocks behind the allocation, then says
  "New data size exceeds allocation range.".
* `exact_fit`: `write()` of a buffer that fills an allocation at the end of the
  device fails in the read of the next block, after the data was written and
  before the size was.
* `wide_items`: with a `memoryview` of 2-byte items `write()` stores half of it;
  the assert against this is not in a release build.
* `locator_wrap`: a locator with `lba + num >= 2^64` is accepted.
* `sequence_wrap`: 2^32 - 1 and 0 are accepted as consecutive, and the older
  header is taken.
* `win32_geometry`: `Win32BlockDevice::open` never stores the geometry it asks
  for, and the first question about the device divides by 0: `VmgsIO(dev=...)`
  ends the process on Windows.

### Bounds and why they are enough

* Blocks of 2 bytes have one inner boundary: a buffer ends at it or not. An
  allocation of 2 blocks has a last block with a block of another file behind
  it; `single` has 4 blocks, so that 2^32 (8) can be hit by `data_size` 7, whose
  `read()` length wraps.
* `KernelLimit` 2: in `pair` the allocation, a buffer that fills it and the
  `read()` of it are just as long as what one system call moves, so that a
  transfer of one block more would fail.
* Every byte of the image differs from every other, and buffers of one size
  differ by a label: a byte out of its place is seen.
* 2^64 is scaled to 64; sums up to 66 wrap.
* Two processes: the code has no state shared by three. `pair` takes a buffer
  that fills the allocation and one that ends inside a block. `IInv`, proved for
  any number, covers the rest. The neighbour writes once, to the block behind the
  allocation or to the one after it: a second write would race with the same two
  device calls.
* `headers`: a partition of 4 blocks, allocations of 1 or 2 blocks at 2 or 3, so
  that one ends beyond the partition, and sizes that fit and do not. `MaxUpdates`
  2: one update is what `StaleStoreLoads` allows, two is what it excludes, and
  two between the reads of a load are what makes a gap.
* `MaxDamage` 1 in `headers`: one changed field, in either header, is the
  hardest case for a checksum over all of them. 2 in `gpt`: both headers, or a
  header and the entries it leads to.
* `MaxBlocks` 5 in `BlockDevice`: a full chunk of 3, then a partial one; ranges
  that start, end or lie beyond the 7 blocks of the device. One write per
  behaviour: a second would find different old contents and nothing else.
* Deadlock is checked in every run: a script can always make another call.

### Fairness

`FairSpec` of `VmgsIO` has `WF_vars(Step(h))`: a process in a call is scheduled
and device calls return. No call is ever started by fairness. `FairSpec` of
`BlockDevice` has `WF_vars(Work)`, the same for one call. The code has no waits,
retries or timeouts, so this is all its termination rests on.

## 4. Proofs

A theorem's hypotheses are written into it; the table says what they are for.
Beyond them the proofs use the modules' `ASSUME`s, which TLC evaluates in the
runs: types and signs of the constants, and `ImageAssumption`: the image's
headers were written by the format's rules and load, and the active allocation
lies in the partition beyond the headers.

| Theorem | Property | Holds when |
|---|---|---|
| `VmgsIO_proofs!Invariance` | `[]IInv` | always |
| `VmgsIO_proofs!TypeCorrect`, `AlwaysLoads`, `OnlyResizes` | `TypeOK`, `ImageLoads`, `HeadersOnlyResize` | always |
| `VmgsIO_proofs!ForeignBlocksIntact` | `ForeignIntact` | `BuffersFit` |
| `VmgsIO_proofs!ErrorsHaveCause` | `NoSpuriousError` | no device errors, `TailBlocksExist`, `LengthsFit` |
| `VmgsIORefinement_proofs!ImplementsStoreHolds` | `ImplementsStore` | `OneProcess`, the power stays on |
| `VmgsIORefinement_proofs!ReturnedIsStored` | `ReturnedWriteIsOnDisk` | `OneProcess`, `ByteItems` |
| `VmgsIORefinement_proofs!ReadsWhatIsStored` | `ReadReturnsStored` | `OneProcess` |
| `VmgsIORefinement_proofs!NeverStale` | `CacheFresh` | `OneProcess`, no device errors |
| `VmgsNeighbour_proofs!BytesStayInPlace`, `SharedBytesStayInPlace` | `BytesInPlace` | always, alone and beside the neighbour |
| `VmgsNeighbour_proofs!SharedInvariance` | `[]IInv` beside the neighbour | always |
| `VmgsNeighbour_proofs!OwnerKeeps` | `OwnerKeepsBlocks` | `BuffersFit`, the power stays on |
| `VmgsData_proofs!TypeCorrect`, `StoresReload`, `StaleStoresLoad` | `TypeOK`, `StoredReloads`, `StaleStoreLoads` | `DetectsDamage` |
| `VmgsData_proofs!LocatorsInRange` | `LoadedInRange` | `DetectsDamage`, `AllocationsFit` |
| `VmgsData_proofs!ActiveIsSuccessor`, `LoadsOnlyStored` | `ActiveIsNewer`, `LoadedWasStored` | `DetectsDamage`, `NumbersFromOne` |
| `BlockDevice_proofs!TypeCorrect`, `ReadsAreWhole`, `WritesArePrefixes`, `FailuresHaveCause` | `TypeOK`, `ReadIsWhole`, `WriteIsPrefix`, `FailsForCause` | always |
| `Gpt_proofs!TypeCorrect`, `OpensOnDisk` | `TypeOK`, `OpenedOnDisk` | always |
| `Gpt_proofs!OpensWhatWasWritten`, `RecoverableTablesOpen` | `OpenedWasWritten`, `RecoverableOpens` | `DetectsDamage` |
| `VmgsFormat_proofs!StoreThenLoad`, `EndianStorage_proofs!StoreIsPortable`, `StoreThenLoadNumber` | stated there | always |

### The hypotheses

* `BuffersFit`, `TailBlocksExist`, `ByteItems`, `AllocationsFit`,
  `NumbersFromOne`: without them the properties are false. The runs `oversize`,
  `exact_fit`, `wide_items`, `locator_wrap` and `sequence_wrap` are
  counterexamples. The hypotheses are sufficient; that each is the weakest is not
  claimed. (`NumbersFromOne` keeps 0 from being taken for the successor of
  2^32 - 1.)
* `LengthsFit`: no transfer is longer than a device call can be. On a
  `UnixBlockDevice` the allocation and the whole blocks of every buffer that
  `write()` takes are no more than one system call moves, 2^31 - 4096 bytes:
  `write()` refuses only what is longer than 2^32 - 1 (`Vmgs.cpp:261`), and of a
  buffer between the two it overwrites that much, then throws for the short count
  (`UnixBlockDevice.cpp:46`), always: `Served` leaves no other step. On either
  device the allocation is shorter than 4 GiB: to a `VhdDisk` `write()` can store
  2^32 - 511 .. 2^32 - 1 bytes, and `read()` of them, whose length comes out as 0,
  throws or returns zeroes. Both are defects of the code under any reading of
  `README.md:78`; they are known from the model and have no run of their own.
* `OneProcess`: `VmgsStore` promises something to one process. With several,
  `BytesInPlace` and `ImageLoads` are what is left, and they are proved for any
  number.
* No device errors (`"io" \notin Faults`): after a failed store the object is
  ahead of the device, and every error has a cause then. The power staying on
  (`"power" \notin Faults`): nothing is flushed, so a loss of power may take back
  what was promised, to the process or to the neighbour.
* `DetectsDamage`, in `VmgsData_proofs` and in `Gpt_proofs`: the damage that
  happens is damage that changes the checksum. 32 bits do not tell all contents
  apart, so that this is an assumption about the damage and not about the code;
  of one changed field of up to 32 bits it is a fact about CRC-32. The checksum
  function is arbitrary otherwise, and the identity of the runs satisfies it.

### The arguments

`VmgsIO_proofs`. `TypeOK` and `ImageLoads` are not inductive: a store in progress
holds header blocks it read before, and writes them out later. `IInv` adds that
headers, *wherever they are* (device, medium, object, `header_block`), are those
of a *version*: the original pair with another size, within the allocation
(`Versions`, `HeaderBlocks`), and how far a transfer is (`TransferInv`). A disk
with header 0 of one version and header 1 of another is again that of a version
(`MixedHeadersLoad`): the resize only touches the active header. This is why two
separate header writes are safe. `ForeignInv` adds that the block behind the
allocation that `write()` holds is what the image has; `ErrorInv`, that a write
in progress has a buffer it did not refuse, and that only objects without write
access have seen a device error.

`VmgsIORefinement_proofs`. `CallInv` says what a call in progress has done:
`WriteInv`, that the first `LaidBytes` bytes of the allocation are those of the
buffer, that the tail block it holds is the one on the device, and which size
the object has; `ReadInv`, that what was read so far is what is stored (or the zeroes of
`ReadNothing`); `RetInv`,
that results belong to calls that are over. It is inductive for one process on
any device, since a block that was laid is not touched again before the call
ends. The refinement maps a device call to a tear of the content, to the switch
(the write of the active header, after which the content is the new bytes) or to
a stutter; the proof has a lemma per device call. `FreshInv` does the same for
the headers: the object's are the device's, except while `store_to` writes them.

`VmgsNeighbour_proofs`. `PlacesInv` is `BytesInPlace` of everything a write could
come from: the device, the medium, the blocks held in `single_block`, the bytes
of a read. `OwnerInv` adds that a block held from behind the allocation is one
its owner wrote.

`VmgsData_proofs`. The invariant has to know more than the object's headers: the
layouts on the device are those of the headers last stored, but for damage to a
field (`HeadsInv`); an object's headers passed the tests of `load_from` and still
do (`MemoryInv`); and after at most one update by another tool the device has the
object's newer header, and beside it the object's older one or the update
(`StaleInv`), so that an outdated store that stops half way leaves a pair of
consecutive numbers. `LoadingInv` is for the moment between the two reads: the
block held is that of `origin`; after one update the second header is origin's
successor, so that what loads is one update behind at most; and as numbers only
grow, a second header within one of origin's number was on the device when
origin was (`HeldTogether`), which is why the test for a gap is enough. That it
compares modulo 2^32 is why this needs `NumbersFromOne`.

`BlockDevice_proofs`. `ProgressInv`: position in the range, position in the buffer
and address go together, what lies before them has been moved, nothing else has.
`ChunkInv`: a chunk lies in the range and, in a range loop, its bytes fit into
32 bits (`WholeBlocks`), which is why the loops are right where a bare
`read_blocks` is not.

`Gpt_proofs`. `BlockInv` says of each block that it is raw, the MBR, entries, or
the tool's header with damaged fields (`Decayed`), and as it was if nobody
damaged it. `LoadInv` is what the loader's tests give, with which the partition
lies on the disk. With `DetectsDamage`, an accepted header makes the same object
as the tool's (`AcceptedHeader`), so that the entries are those written
(`WrittenInv`) and the partition the first of its type (`FirstIs`, by
well-foundedness of `<`). `BackupInv` says that the backup is only read after
damage to LBA 1, at the last block unless `backup_lba` is what was damaged;
`SoundEntries` and `EntriesFrom`, that either copy reads as the table;
`RecoverableStep` goes through the steps that throw.

`VmgsFormat_proofs` has lemmas on the resize and on store and load:
`StoreThenLoad` (load accepts a stored layout exactly when its locators are in
range, whatever the checksum function is, since the two ways to compute it cover
the same fields, and returns the header that store was given) and
`ResizedPairLoads`. `EndianStorage_proofs`
goes through the widths 2, 4 and 8: a number's bytes are those of its two halves,
so that the argument goes from 2 bytes to 4 to 8 by the division lemmas `Digits`
and `Cuts`, without recursion.

### Model-checked only

`CallReturns` of `VmgsIO` and of `BlockDevice`: liveness under fairness is out of
the prover's reach. The six findings are counterexamples, which TLC shows.

## 5. What is not modelled

* The transfers of `Win32BlockDevice`: with a block size of 0 no call gets there.
  (Their loop over an aligned buffer copies into that buffer before `ReadFile`
  and nothing out of it afterwards, `Win32BlockDevice.cpp:39-47`, so that a read
  would leave an unaligned buffer as it was; and the buffer's size is compared
  in blocks. Both wait behind the missing geometry.)
* `VhdDisk::detach`, which has no caller; the attachment ends with the handle.
* The composition of `Gpt` with `VmgsIO`: `from_disk` holds the partition it
  picked by value and never looks at the table again, so that `Gpt` ends where
  `VmgsIO` with `PartFirst > 0` (run `partition`) begins.
* `__enter__`, which returns the object; the type errors, which change nothing.
* The CRC as a function: collisions, and that computing it field by field gives
  the value of the whole. `crc32.cpp` keeps no state.
* The locators' reserved field, which `store` clears; GUIDs, names and attributes
  of partitions, which nothing reads.
* The JSON codec of `vmgs/__init__.py`, two lines of library calls, and the
  registration of the class at import (`init.cpp`, `py.hpp`), by one thread.
* Deliberately wrong variants (`Faulty*` definitions) belong to no
  specification: every property fails under one of them.

## 6. Plan

Done: every component that has state, except what section 5 leaves out; every
safety property of the passing runs, and the refinement, as a theorem.

What is left:

1. The theorems about `VmgsIO` say that hypotheses are needed by way of runs. For
   `oversize` and `exact_fit` the weaker promise that remains without them is
   worth a theorem: which foreign blocks at most a buffer that is too large
   reaches, and that a write that throws there has stored the old size.
2. What several processes are promised of one another's sizes and of `read()`
   beyond `BytesInPlace`.
3. The termination measure behind `CallReturns`: that every step of `Work` and of
   `Step(h)` decreases it is a safety property, the rest is fairness.
