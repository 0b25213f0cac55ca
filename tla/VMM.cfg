SPECIFICATION Spec
CONSTANTS
  PTE_COUNT = 5
  KERNEL_PDE_BASE = 3
  LOW_FRAMES = 10
  FRAMES = 12
  TEXT_FRAMES = 1
  RODATA_FRAMES = 1
  KERNEL_FRAMES = 2
  Space = {v1, v2}
  HEAP = 2
  BootFrames <- MCBootFrames
  Ranges <- MCRanges
  PHYS = 20
  Flags <- MCFlags
  CachedPages <- MCCached
SYMMETRY Symmetry
INVARIANTS
  SpacesFollowVmas
  KernelHalfShared
  TablesOwnedOnce
  TlbCoherent
CHECK_DEADLOCK FALSE
