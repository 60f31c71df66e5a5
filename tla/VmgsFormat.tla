---------------------------- MODULE VmgsFormat ----------------------------
(***************************************************************************)
(* The on-disk format of a VMGS partition (src/src/Vmgs.hpp, Vmgs.cpp):    *)
(* the two header blocks at LBA 0 and 1, each with two data locators, how  *)
(* a header is loaded from and stored to the first bytes of its block, and *)
(* which header and which locator of it are the active ones.               *)
(*                                                                         *)
(* A locator is [allocation_lba, allocation_num, data_size]; a header in   *)
(* memory is [sequence_number, active_index, locators]; a layout is what   *)
(* the first 0x60 bytes of a header block hold.  Byte order is left out.   *)
(*                                                                         *)
(* Faulty* definitions, here and in the other modules, are deliberately    *)
(* wrong variants of what follows them, to try the properties on; no       *)
(* specification uses them.                                                *)
(***************************************************************************)
EXTENDS Naturals

CONSTANTS
  BlockSize,   \* get_block_size() of the device, in bytes
  U32,         \* 2^32, the modulus of uint32_t arithmetic
  U64,         \* 2^64, the modulus of uint64_t and size_t arithmetic
  Crc32(_)     \* crc32_iso3309 of a layout's fields (crc32.cpp)

ASSUME BlockSizeAssumption == BlockSize \in Nat \ {0}
ASSUME WidthAssumption == U32 \in Nat \ {0} /\ U64 \in Nat \ {0}

SIGNATURE == "GUESTRTS"
VERSION == 65536
HEADER_SIZE == 96
LOCATOR_SIZE == 32

---------------------------------------------------------------------------
(* The objects VmgsDataLocator, VmgsDataHeader and VmgsData (two headers). *)

Locator == [allocation_lba : Nat, allocation_num : Nat, data_size : Nat]
Header == [sequence_number : Nat, active_index : {0, 1},
           locators : [{0, 1} -> Locator]]
Headers == [{0, 1} -> Header]

FaultyActiveIndex(hs) ==
  IF hs[0].sequence_number < hs[1].sequence_number THEN 0 ELSE 1

\* The index of VmgsData::active_header(): the larger sequence number.
ActiveIndex(hs) ==
  IF hs[0].sequence_number > hs[1].sequence_number THEN 0 ELSE 1

ActiveHeader(hs) == hs[ActiveIndex(hs)]

ActiveLocator(hs) == ActiveHeader(hs).locators[ActiveHeader(hs).active_index]

\* The blocks of an allocation.
AllocationLbas(l) == {l.allocation_lba + i : i \in 0 .. l.allocation_num - 1}

\* Bytes in an allocation, as the code multiplies them.
Capacity(l) == (l.allocation_num * BlockSize) % U64

FaultyResizeBump(hs, size) ==
  LET a == ActiveIndex(hs) IN
  [hs EXCEPT ![a].locators[hs[a].active_index].data_size = size,
             ![a].sequence_number = @ + 1]

\* VmgsDataLocator::update_data_size on the active locator: the test and the
\* assignment.
Fits(hs, size) == size <= Capacity(ActiveLocator(hs))
Resize(hs, size) ==
  LET a == ActiveIndex(hs) IN
  [hs EXCEPT ![a].locators[hs[a].active_index].data_size = size]

---------------------------------------------------------------------------
(* VmgsDataHeaderLayout and VmgsDataLocatorLayout.                         *)

\* What load computes the checksum of: the fields one by one, with zero bytes
\* in the checksum's place.
Covered(y) ==
  <<y.signature, y.version, 0, y.sequence_number, y.header_size, y.locator_size,
    y.active_index, y.locators>>

\* What store computes it of: the whole structure, in the order of its fields.
Whole(y) ==
  <<y.signature, y.version, y.checksum, y.sequence_number, y.header_size,
    y.locator_size, y.active_index, y.locators>>

Layout(sequence_number, active_index, locators) ==
  [signature |-> SIGNATURE, version |-> VERSION, checksum |-> 0,
   sequence_number |-> sequence_number,
   header_size |-> HEADER_SIZE, locator_size |-> LOCATOR_SIZE,
   active_index |-> active_index, locators |-> locators]

\* The first bytes of a block that holds no header.
Raw == [signature |-> "raw"]

\* VmgsDataHeaderLayout::store.
StoreHeader(h) ==
  LET y == Layout(h.sequence_number, h.active_index, h.locators) IN
  [y EXCEPT !.checksum = Crc32(Whole(y))]

FaultyLocatorLoads(l, blocks) ==
  /\ l.allocation_lba < blocks
  /\ l.data_size <= Capacity(l)

\* The tests of VmgsDataLocatorLayout::load on a partition of `blocks' blocks.
LocatorLoads(l, blocks) ==
  /\ (l.allocation_lba + l.allocation_num) % U64 <= blocks
  /\ l.data_size <= Capacity(l)

\* The tests of VmgsDataHeaderLayout::load; each one that fails throws.
FieldsLoad(y, blocks) ==
  /\ y.signature = SIGNATURE
  /\ y.version = VERSION
  /\ y.header_size = HEADER_SIZE
  /\ y.locator_size = LOCATOR_SIZE
  /\ y.active_index \in {0, 1}
  /\ \A i \in {0, 1} : LocatorLoads(y.locators[i], blocks)
HeaderLoads(y, blocks) ==
  /\ FieldsLoad(y, blocks)
  /\ y.checksum = Crc32(Covered(y))

FaultyLoadHeader(y) ==
  [sequence_number |-> y.active_index, active_index |-> y.sequence_number,
   locators |-> y.locators]

\* The header VmgsDataHeaderLayout::load returns.
LoadHeader(y) ==
  [sequence_number |-> y.sequence_number, active_index |-> y.active_index,
   locators |-> y.locators]

\* VmgsData::load_from: both headers load and their sequence numbers are
\* one apart, in uint32_t arithmetic.
Consecutive(s0, s1) == s0 = (s1 + 1) % U32 \/ s1 = (s0 + 1) % U32

FaultyPairLoads(y0, y1, blocks) ==
  HeaderLoads(y0, blocks) /\ HeaderLoads(y1, blocks)

PairLoads(y0, y1, blocks) ==
  /\ HeaderLoads(y0, blocks)
  /\ HeaderLoads(y1, blocks)
  /\ Consecutive(y0.sequence_number, y1.sequence_number)

LoadPair(y0, y1) ==
  [i \in {0, 1} |-> IF i = 0 THEN LoadHeader(y0) ELSE LoadHeader(y1)]
===========================================================================
