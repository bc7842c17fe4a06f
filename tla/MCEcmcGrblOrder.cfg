CONSTANTS
  Programs <- Two
  Configs <- Configured
  AutoStarts = {FALSE}
  AutoEnable = FALSE
  Faults = {}
  PlcCalls = {"retrigger"}
  BlockSlots = 2
  Polls = 0
  MaxInputs = 3
SPECIFICATION Spec
PROPERTY ExecutedOnce
