\* Tables of careful and of sloppy tools, damage in up to two places.
SPECIFICATION Spec
CONSTANTS
  DiskBlocks = 9
  PerBlock = 2
  Free = Free
  Data = Data
  Vmgs1 = Vmgs1
  Types = {Free, Data, Vmgs1}
  VmgsType = Vmgs1
  Crc32 <- MCCrc
  Tables <- MCTables
  Damage <- MCDamage
  DamagedEntries <- MCDamagedEntries
  MaxDamage = 2
  Faults = {"io"}
INVARIANTS
  TypeOK
  OpenedWasWritten
  OpenedOnDisk
PROPERTIES
  RecoverableOpens
