\* One process on a VhdDisk, device errors and crashes at every step.  Writes end
\* inside a block (1, 3), at its end (0, 4), where the length of their read()
\* comes out as 0 (7) and beyond uint32_t (8).
SPECIFICATION Spec
CONSTANTS
  BlockSize = 2
  U32 = 8
  U64 = 64
  Crc32 <- MCCrc
  Handles = {p}
  Byte <- MCByte
  Zero <- MCZero
  Buffers <- MCBuffers
  DiskBlocks = 8
  PartFirst = 1
  PartBlocks = 7
  Image <- MCImage
  KernelLimit = 2
  Faults = {"io", "crash"}
  Labels = {"x", "y"}
  Sizes = {0, 1, 3, 4, 7, 8}
  ItemSizes = {1}
  AllocNum = 4
  ImageSize = 3
  Sequence <- SequenceA
INVARIANTS
  TypeOK
  ReturnedWriteIsOnDisk
  ReadReturnsStored
PROPERTIES
  ImplementsStore
