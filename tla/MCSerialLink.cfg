CONSTANTS
  RxSize = 5
  TxSize = 4
  LineSize = 4
  Lines <- Whole
  Reports <- OneOrTwo
  MaxLines = 3
SPECIFICATION FairSpec
INVARIANT RingsIntact
INVARIANT QuietBetweenLines
INVARIANT LineFiltered
PROPERTY AnswerComes
CHECK_DEADLOCK FALSE
