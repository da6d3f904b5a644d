SPECIFICATION Spec
CONSTANTS
  Margin = 4
  FontWidth = 2
  FontHeight = 3
  Spacing = 1
  Width = 37
  Height = 15
  LineSize = 9
  Inputs <- MCInputs
  Outputs <- MCOutputs
INVARIANTS SeesTheLine TypesOnScreen GetsItsArgument
