SPECIFICATION LiveSpec
CONSTANTS
  Runs = {r1, r2}
  Quicks = {q1}
  None = None
  MaxTunnels = 2
  MaxAttempts = 2
  FaultModels = {{"crash"}, {"crash", "create", "probe"}, {"reenroll", "probe", "docker"}}
INVARIANTS TypeOK OneRunAtATime RemovedAtEnd
PROPERTIES ReaperSparesLive QueueSpec LeftoversGo RunsEnd
CHECK_DEADLOCK FALSE
