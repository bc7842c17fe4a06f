CONSTANTS
  SegmentBufferSize = 4
  BlockBufferSize = 3
  MaxBlocks = 4
  MaxSteps = 2
SPECIFICATION FairSpec
INVARIANT TypeOK
INVARIANT SlotIntact
INVARIANT NoEmptySegment
INVARIANT StoppedWhenReported
INVARIANT IInv
PROPERTY StepsInOrder
PROPERTY HoldCompletes
