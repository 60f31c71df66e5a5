\* The sequence number wraps around 2^32.
SPECIFICATION Spec
CONSTANTS
  BlockSize = 2
  U32 = 8
  U64 = 64
  Crc32 <- MCCrc
  PartBlocks = 5
  Written <- MCWritten
  Sizes = {0, 3, 4, 5}
  Damage <- MCDamage
  MaxDamage = 1
  MaxUpdates = 2
  Lbas = {2, 4}
  Nums = {1, 2}
  DataSizes = {2, 3}
  Pairs <- Wrapped
INVARIANTS
  ActiveIsNewer
