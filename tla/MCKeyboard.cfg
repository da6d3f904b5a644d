SPECIFICATION KeyboardSpec
CONSTANTS
  Keys <- MCKeys
  Plain <- MCPlain
  Shifted <- MCShifted
  Printed <- MCPrinted
  NoChar = "none"
  FifoSize = 3
PROPERTIES TypesWhatIsMeant Delivers
