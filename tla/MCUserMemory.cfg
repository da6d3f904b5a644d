SPECIFICATION Spec
CONSTANTS
  Levels = 3
  Fanout = 4
  Frames = {1,2,3,4,5,6,7,8,9,10,11,12,13,14,15,16,17}
  KernelRoot = 30
  KernelTable = 31
  PageSize = 2
  StackTop = 18
  StackPages = 2
  Sources = 2
  Programs <- MCPrograms
  Cap = 4
  UserLimit = 62
INVARIANTS Exclusive HeapMapped TlbCoherent PathIsTheCallers
PROPERTIES PagesKept
