SPECIFICATION Spec
CONSTANTS
  Pairs = {p1, p2, p3, p4}
  Absent = Absent
  Torn = Torn
  FaultModels = {{}}
INVARIANT StartsAlways
