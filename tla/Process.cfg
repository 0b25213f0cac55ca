SPECIFICATION Spec
CONSTANTS
  PTE_COUNT = 8
  KERNEL_PDE_BASE = 5
  LOW_FRAMES = 16
  FRAMES = 17
  TEXT_FRAMES = 1
  RODATA_FRAMES = 1
  KERNEL_FRAMES = 2
  KERNEL_STACK_MAX = 3
  KERNEL_STACK_PAGES = 2
  PID_MAX = 3
  HEAP = 6
  BootFrames <- MCBootFrames
  Images <- MCImages
  USER_STACK_TOP = 39
  USER_STACK_PAGES = 2
  PAGE_UNITS = 2
  IWBF32_HDR_SIZE = 1
  IWBF32_SEGMENT_HDR_SIZE = 1
  UINT16 = 4
  Vectors = {0, 2, 14, 17, 32, 128}
  MAX_NESTED = 2
  TSS_BASE <- MCTss
INVARIANTS
  SegmentsAsInFile
  EverythingOwnedOnce
  RunningHasStacks
PROPERTIES
  InterruptsTransparent
  FailedCreateUndone
CHECK_DEADLOCK FALSE
