SPECIFICATION MCSpec
CONSTANTS
  FRAME_SIZE = 4
  total = 6
  FirstMiB = 8
  KernelStart = 4
  KernelEnd = 12
  MaxFrames = 12
  Maps <- MCMaps
  Requests <- MCRequests
  FreeAddrs <- MCFreeAddrs
  FreePages = {0, 1, 2, 3}
INVARIANTS
  FramesAccountedFor
  OnlySpareMemoryHandedOut
  AllocatesAsAsked
PROPERTIES
  ImplementsFrameAllocator
  Terminates
