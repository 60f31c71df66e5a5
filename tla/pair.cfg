\* Two processes have the same partition open, either may be killed, and another
\* program writes the blocks behind the allocation.  A UnixBlockDevice without
\* errors; the allocation is as long as what one system call moves.
SPECIFICATION SharedSpec
CONSTANTS
  BlockSize = 2
  U32 = 8
  U64 = 64
  Crc32 <- MCCrc
  Handles = {p, q}
  Byte <- MCByte
  Zero <- MCZero
  Buffers <- PairBuffers
  DiskBlocks = 6
  PartFirst = 0
  PartBlocks = 6
  Image <- MCImage
  KernelLimit = 2
  Faults = {"crash"}
  Labels = {"x", "y"}
  Sizes = {3, 4}
  ItemSizes = {1}
  AllocNum = 2
  ImageSize = 3
  Sequence <- SequenceA
  NeighbourWrites <- MCNeighbourWrites
INVARIANTS
  IInv
  OwnerKeepsBlocks
  BytesInPlace
  NoSpuriousError
SYMMETRY SymmetricHandles
