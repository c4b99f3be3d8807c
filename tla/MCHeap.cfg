SPECIFICATION Spec
CONSTANTS
  MemorySize = 14
  HeaderSize = 2
  BlockSize = 1
  WordRange = 32
  Requests <- MCRequests
  Items <- MCItems
  NULL = NULL
INVARIANTS
  BlocksTile
  FreedHeapIsWhole
PROPERTY ImplementsAllocator
