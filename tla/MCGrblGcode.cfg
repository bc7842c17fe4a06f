CONSTANTS
  Travel = 2
  MmPerInch = 2
  MaxTool = 255
  Configs <- MCConfigs
  Lines <- MCLines
  BlockSlots = 2
  MaxEvents = 4
SPECIFICATION Spec
CONSTRAINT NoLaserJog
INVARIANT PositionsAgree
INVARIANT StoredSystem
INVARIANT WorkZero
PROPERTY AlarmLocks
PROPERTY CheckNeverMoves
PROPERTY TravelKept
CHECK_DEADLOCK FALSE
