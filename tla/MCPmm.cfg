SPECIFICATION PmmSpec
CONSTANTS
  MemMaps <- MCMemMaps
  BitsPerPage = 3
  MaxPages = 8
INVARIANTS CountExact Conserved
PROPERTIES ImplementsPool
