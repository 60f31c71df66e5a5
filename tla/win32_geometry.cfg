\* A device opened on Windows, and the first question about it.
SPECIFICATION Spec
CONSTANTS
  Kinds = {"win32"}
  BlockSize = 2
  U32 = 8
  DeviceBlocks = 7
  KernelLimits = {4}
  MaxBlocks = 5
  Faults = {}
INVARIANTS
  OpenedIsUsable
