SPECIFICATION Spec
CONSTANTS
  v1 = v1
  v2 = v2
  c1 = c1
  c2 = c2
  Volumes = {v1, v2}
  Containers = {c1, c2}
  Mounts <- MCMounts
  Request <- MCRequest
  Policies <- MCPolicies
  FaultModels = {{"stopLate"}}
  MaxRuns = 1
INVARIANT StartedWhatever
CHECK_DEADLOCK FALSE
