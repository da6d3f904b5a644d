SPECIFICATION Spec
CONSTANTS
  Word = 12
  PageBytes = 2
  UserLimit = 8
  LoadBase = 4
  EhdrSize = 2
  PhdrSize = 1
  MaxPhdrs = 2
  MaxFile = 4
  MemSize = 5
  MaxByte = 2
  TmpSize = 6
  MaxInt = 2147483647
  MaxOut = 7
  MaxPieces = 3
  Words <- MCWords
  Numbers <- MCNumbers
  Ruin <- MCRuin
INVARIANTS LoadsInBounds StringsRight PrintsWhatFits
CHECK_DEADLOCK FALSE
