CONSTANTS
  SplitThreads <- AllSplit
  BlockSlots = 1
  SegmentSlots = 2
  LineKinds <- AllKinds
  MaxInputs = 3
SPECIFICATION FairSpec

INVARIANT StoppedMeansOff
PROPERTY HoldNeedsUser
PROPERTY HaltHolds
PROPERTY ResumeEndsSuspend
PROPERTY PlannerEmpties
