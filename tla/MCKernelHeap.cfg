SPECIFICATION Spec
CONSTANTS
  Frames = {1, 2, 3, 5, 6}
  PageUnits = 4
  InitPages = 1
  Sizes = {1, 2, 3, 6}
INVARIANT HeapSound
PROPERTIES Answered ImplementsAllocator Returns
