SPECIFICATION LiveSpec
CONSTANTS
  c1 = c1
  v1 = v1
  Containers = {c1}
  Images = {}
  Volumes = {v1}
  Networks = {}
  Mounts <- MCMounts
  Commands = {m1}
  Buffer = 1
  None = None
  FaultModels = {{"drop", "command"}, {"events", "docker"}, {"docker", "command"}}
INVARIANTS TypeOK NoDangling CurrentWhenQuiet
PROPERTIES Converges CommandAnswered
