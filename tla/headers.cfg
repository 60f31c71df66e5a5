\* Headers of other tools, damage of one field at a time, resizes and stores.
\* Allocations end inside, at and beyond the end of the partition.
SPECIFICATION Spec
CONSTANTS
  BlockSize = 2
  U32 = 8
  U64 = 64
  Crc32 <- MCCrc
  PartBlocks = 4
  Written <- MCWritten
  Sizes = {4, 5}
  Damage <- MCDamage
  MaxDamage = 1
  MaxUpdates = 2
  Lbas = {2, 3}
  Nums = {1, 2}
  DataSizes = {3}
  Pairs <- Adjacent
INVARIANTS
  TypeOK
  LoadedInRange
  ActiveIsNewer
  StoredReloads
  StaleStoreLoads
PROPERTIES
  LoadedWasStored
