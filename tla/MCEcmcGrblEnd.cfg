CONSTANTS
  Programs <- Ended
  Configs <- Configured
  AutoStarts = {FALSE}
  AutoEnable = FALSE
  Faults = {}
  PlcCalls = {"execute"}
  BlockSlots = 2
  Polls = 2
  MaxInputs = 1
SPECIFICATION Spec
INVARIANT CommandErrorMeansRefused
