CONSTANTS
  Programs <- Failing
  Configs <- AnyConfig
  AutoStarts = {TRUE, FALSE}
  AutoEnable = TRUE
  Faults = {"error","limit","disable"}
  PlcCalls = {"execute", "retrigger", "stop", "halt", "resume", "resetError"}
  BlockSlots = 1
  Polls = 1
  MaxInputs = 3
SPECIFICATION Spec
INVARIANT OneOutstanding
INVARIANT StopsSending
INVARIANT NothingUnconfigured
INVARIANT CommandErrorMeansRefused
 
CHECK_DEADLOCK FALSE
