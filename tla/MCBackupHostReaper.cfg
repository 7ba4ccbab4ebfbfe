SPECIFICATION Spec
CONSTANTS
  Runs = {r1, r2}
  Quicks = {q1}
  None = None
  MaxTunnels = 2
  MaxAttempts = 2
  FaultModels = {{"reenroll"}}
PROPERTY ReaperSparesAlways
CHECK_DEADLOCK FALSE
