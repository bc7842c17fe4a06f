SPECIFICATION Spec
CONSTANTS
  BlockBufferSize = 4
  Lines <- MCLines
  RapidRate = 2
  Full = 1
  Overrides <- MCOverrides
INVARIANT TypeOK
INVARIANT PlanBest
INVARIANT ExitSpeedKnown
INVARIANT PlanWithinQueue
PROPERTY NoJump
