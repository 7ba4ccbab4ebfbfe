SPECIFICATION LiveSpec
CONSTANTS
  Fresh = 4
  Resync = 3
  Grace = 10
  Hang = 3
  Settle = 5
  FaultModels = {{"outage", "crash", "disk"}, {"docker", "deploy", "forget"}, {"errors", "reject"}, {"outage", "crash", "reject"}}
INVARIANTS TypeOK HealthyWhenWorking UnhealthyWhenStuck
PROPERTIES TurnsForAReason Reenrolls
