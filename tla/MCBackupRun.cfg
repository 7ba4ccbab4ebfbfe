SPECIFICATION LiveSpec
CONSTANTS
  v1 = v1
  v2 = v2
  c1 = c1
  c2 = c2
  Volumes = {v1, v2}
  Containers = {c1, c2}
  Mounts <- MCMounts
  Request <- MCRequest
  Policies <- MCPolicies
  FaultModels = {{"expire"}, {"crash", "user", "expire", "stopLate"}}
  MaxRuns = 2
INVARIANTS TypeOK QuiescedCopy StartedAgain BackBeforeRetention GoodSurvives SuccessIsTrue
PROPERTY ContainersComeBack
CHECK_DEADLOCK FALSE
