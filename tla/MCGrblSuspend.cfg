CONSTANTS
  BlockSlots = 1
  SegmentSlots = 1
  LaserModes = {TRUE, FALSE}
  Rpms = {1}
  RpmMin = 0
  RpmMax = 2
  MinOverride = 2
  MaxOverride = 6
  Default = 4
  Coarse = 2
  Fine = 1
  ByteRange = 16
  Requests <- AllRequests
  MaxRequests = 3
  MaxLines = 3
SPECIFICATION FairSpec
INVARIANT TypeOK
INVARIANT DoorStopsSpindle
INVARIANT SpindleAsProgrammed
INVARIANT IdleSpindle
PROPERTY StopNeedsUser
PROPERTY DoorRetracts
CHECK_DEADLOCK FALSE
