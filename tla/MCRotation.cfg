SPECIFICATION LiveSpec
CONSTANTS
  Pairs = {p1, p2, p3, p4}
  Absent = Absent
  Torn = Torn
  FaultModels = {{"forget", "write"}, {"rename", "write"}}
INVARIANTS TypeOK NoCrashLocksOut RestartAccepted RunningCertAccepted
PROPERTIES AckBeforeInstall CredentialSpec RotationCompletes
