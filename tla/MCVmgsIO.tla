------------------------------ MODULE MCVmgsIO ------------------------------
(***************************************************************************)
(* Small instances of VmgsIO: blocks of a few bytes, an active allocation  *)
(* of a few blocks, every byte of the device and of the buffers different. *)
(***************************************************************************)
EXTENDS VmgsIORefinement, TLC

CONSTANTS
  Labels,      \* buffers of one size differ by their label
  Sizes,       \* the items in a buffer
  ItemSizes,   \* the bytes in an item
  AllocNum,    \* blocks of the active allocation
  ImageSize,   \* data_size in the image
  Sequence     \* header block -> sequence number

SequenceA == <<3, 2>>
SequenceWrap == <<0, 7>>

MCCrc(x) == x

MCZero == <<"zero", 0>>
MCByte == {MCZero} \cup ((Labels \cup {"image"}) \X (1 .. DiskBlocks * BlockSize * 2))

MCBuffers ==
  {[bytes |-> [i \in 1 .. n * w |-> <<l, i>>], itemsize |-> w] :
     l \in Labels, n \in Sizes, w \in ItemSizes}

\* One buffer of a size is enough: of all of them, or of those of one byte.
PairBuffers == {b \in MCBuffers : b.bytes[1][1] = IF Len(b.bytes) = 4 THEN "x" ELSE "y"}
MixedBuffers == {b \in MCBuffers : Len(b.bytes) = 1 => b.bytes[1][1] = "y"}

\* The active header's active locator is locators[1] at block 2; the other
\* slot and the other header hold what an earlier resize left behind.
MCLocators == [j \in {0, 1} |->
  [allocation_lba |-> IF j = 1 THEN 2 ELSE 2 + AllocNum,
   allocation_num |-> IF j = 1 THEN AllocNum ELSE 0,
   data_size |-> IF j = 1 THEN ImageSize ELSE 0]]

MCHeader(i) ==
  [sequence_number |-> Sequence[i + 1], active_index |-> 1,
   locators |-> [MCLocators EXCEPT ![1].data_size =
     IF \A j \in 0 .. 1 : Sequence[i + 1] >= Sequence[j + 1] THEN @ ELSE 0]]

MCImage == [b \in 0 .. DiskBlocks - 1 |->
  BlockOf(IF b - PartFirst \in {0, 1} THEN StoreHeader(MCHeader(b - PartFirst)) ELSE Raw,
          [j \in 1 .. BlockSize |-> <<"image", b * BlockSize + j>>])]

SymmetricHandles == Permutations(Handles)
=============================================================================
