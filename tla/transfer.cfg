\* Chunks of three blocks, system calls that may fail or stop short, and that
\* may move a whole chunk or less.
SPECIFICATION FairSpec
CONSTANTS
  Kinds = {"unix", "vhd", "win32"}
  BlockSize = 2
  U32 = 8
  DeviceBlocks = 7
  KernelLimits = {2, 4}
  MaxBlocks = 5
  Faults = {"io"}
INVARIANTS
  TypeOK
  ReadIsWhole
  WriteIsPrefix
  FailsForCause
PROPERTIES
  CallReturns
