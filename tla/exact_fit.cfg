\* The allocation ends with the device, and a write fills it.
SPECIFICATION Spec
CONSTANTS
  BlockSize = 2
  U32 = 8
  U64 = 64
  Crc32 <- MCCrc
  Handles = {p}
  Byte <- MCByte
  Zero <- MCZero
  Buffers <- MCBuffers
  DiskBlocks = 4
  PartFirst = 0
  PartBlocks = 4
  Image <- MCImage
  KernelLimit = 2
  Faults = {}
  Labels = {"x"}
  Sizes = {3, 4}
  ItemSizes = {1}
  AllocNum = 2
  ImageSize = 3
  Sequence <- SequenceA
INVARIANTS
  NoSpuriousError
