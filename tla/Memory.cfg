SPECIFICATION Spec
CONSTANTS
  LOGMAX = 4
  szAtom = 2
  AllocLimit = 12
  IntLimit = 64
  Ids = {1, 2, 3, 4}
  Sizes = {1, 3, 5, 20, 64, 131}
  HeapSizes <- MCHeapSizes
  Garbage <- MCGarbage
  BootInfos <- MCBootInfos
  KernelBase = 16
  heap_start = 20
  StateSize = 1
  UdataSize = 1
INVARIANTS
  HeapTypeOK
  DataIntact
  PoolAccounted
  Coalesced
  AsLargeAsAsked
  BootInfoRead
  HeapInMemory
  ShrinkNeverFails
