SPECIFICATION Spec
CONSTANTS
  MAX_PROCS = 3
  Statuses <- MCStatuses
  MaxSpaces = 5
  MaxPid = 5
INVARIANT RunFindsSlot
