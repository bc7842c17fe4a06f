CONSTANTS
  Travel = 2
  MmPerInch = 2
  MaxTool = 255
  Configs <- MCConfigs
  Lines <- JogLines
  BlockSlots = 2
  MaxEvents = 2
SPECIFICATION Spec
INVARIANT JogMovesNamedAxes
CHECK_DEADLOCK FALSE
