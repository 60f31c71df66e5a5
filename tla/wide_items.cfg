\* A memoryview with items of two bytes.
SPECIFICATION Spec
CONSTANTS
  BlockSize = 2
  U32 = 8
  U64 = 64
  Crc32 <- MCCrc
  Handles = {p}
  Byte <- MCByte
  Zero <- MCZero
  Buffers <- MCBuffers
  DiskBlocks = 6
  PartFirst = 0
  PartBlocks = 6
  Image <- MCImage
  KernelLimit = 2
  Faults = {}
  Labels = {"x"}
  Sizes = {1, 2}
  ItemSizes = {1, 2}
  AllocNum = 2
  ImageSize = 3
  Sequence <- SequenceA
INVARIANTS
  ReturnedWriteIsOnDisk
