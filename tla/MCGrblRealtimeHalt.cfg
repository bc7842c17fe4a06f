CONSTANTS
  SplitThreads <- MainSplit
  BlockSlots = 2
  SegmentSlots = 2
  LineKinds <- Motion
  MaxInputs = 2
SPECIFICATION FairSpec
PROPERTY HaltObeyed
