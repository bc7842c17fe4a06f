CONSTANTS
  Programs <- Good
  Configs <- Configured
  AutoStarts = {FALSE}
  AutoEnable = FALSE
  Faults = {}
  PlcCalls = {"execute", "stop", "resume", "resetError"}
  BlockSlots = 1
  Polls = 2
  MaxInputs = 3
SPECIFICATION FairSpec
PROPERTY LineAnswered
PROPERTY ParserFrees
