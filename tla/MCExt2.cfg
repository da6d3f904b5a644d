SPECIFICATION Spec
CONSTANTS
  Images <- MCImages
  Paths <- MCPaths
  BlockSize = 4
  Direct = 2
  InodesPerGroup = 4
  InodeSize = 2
  FirstDataBlock = 1
INVARIANTS NothingLeaks ReadsTheFile
PROPERTIES FindsTheFile Ends
