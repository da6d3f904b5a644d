SPECIFICATION Spec
CONSTANTS
  PageUnits = 4
  Word = 64
  Limit = 16
  MaxFrames = 3
  Sizes = {1, 2, 3, 5, 51}
INVARIANT HeapSound
PROPERTIES Answered ReallocKeeps ImplementsAllocator Returns
