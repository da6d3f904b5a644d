SPECIFICATION Spec
CONSTANTS
  LbaLimit = 16
  MaxCount = 3
  SuperLba = 2
  BlockLbas <- MCBlockLbas
  BlockSectors = 2
  MaxReads = 2
  MaxFrames = 10
  HeapFrames = 1
  SpaceFrames = 2
  ReadFrames = 2
  LoadFrames = 2
INVARIANTS InitIsProcess FirstGoodSource ReadsWhatWasAsked
PROPERTIES BootEnds
