\* A buffer larger than the allocation.
SPECIFICATION Spec
CONSTANTS
  BlockSize = 2
  U32 = 8
  U64 = 64
  Crc32 <- MCCrc
  Handles = {p}
  Byte <- MCByte
  Zero <- MCZero
  Buffers <- MCBuffers
  DiskBlocks = 5
  PartFirst = 0
  PartBlocks = 5
  Image <- MCImage
  KernelLimit = 2
  Faults = {}
  Labels = {"x"}
  Sizes = {3, 5}
  ItemSizes = {1}
  AllocNum = 2
  ImageSize = 3
  Sequence <- SequenceA
INVARIANTS
  ForeignIntact
