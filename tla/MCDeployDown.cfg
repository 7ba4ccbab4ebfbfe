SPECIFICATION Spec
CONSTANTS
  d1 = d1
  d2 = d2
  d3 = d3
  web = web
  db = db
  k1 = k1
  k2 = k2
  None = None
  Deployments = {d1, d2, d3}
  Services = {web, db}
  Keys = {k1, k2}
  SourceTypes = {"git"}
  Svcs <- MCSvcs
  Env <- MCEnv
  FileKeys <- MCFileKeys
INVARIANT DownTearsDown
