\* A partition with other blocks of the disk on both sides; no device
\* errors, but the power may fail with any set of blocks written back.
SPECIFICATION FairSpec
CONSTANTS
  BlockSize = 2
  U32 = 8
  U64 = 64
  Crc32 <- MCCrc
  Handles = {p}
  Byte <- MCByte
  Zero <- MCZero
  Buffers <- MixedBuffers
  DiskBlocks = 7
  PartFirst = 1
  PartBlocks = 5
  Image <- MCImage
  KernelLimit = 2
  Faults = {"power"}
  Labels = {"x", "y"}
  Sizes = {1, 3, 4}
  ItemSizes = {1}
  AllocNum = 2
  ImageSize = 3
  Sequence <- SequenceWrap
INVARIANTS
  ForeignIntact
  ImageLoads
  HeadersOnlyResize
  BytesInPlace
  NoSpuriousError
  CacheFresh
PROPERTIES
  CallReturns
