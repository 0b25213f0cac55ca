SPECIFICATION Spec
CONSTANTS
  HEAP_SIZE = 112
  SIZE_MAX = 1024
  Sizes = {0, 3, 4, 9, 30, 200}
INVARIANTS
  BlocksSound
  FreeListIsFreeBlocks
  PayloadUntouched
PROPERTY ImplementsHeap
