SPECIFICATION Spec
CONSTANTS
  a = a
  b = b
  c = c
  sa = sa
  sb = sb
  sx = sx
  Names = {a, b, c}
  Kept = {a, b}
  Snapshots = {sa, sb, sx}
  VolumeOf <- MCVolumeOf
  Ours = {sa, sb}
  Parts = {"p1", "p2"}
  None = None
  FaultModels = {{"user"}, {"inspect", "expire"}, {"expire", "crash"}, {"remove", "forget"}, {"create", "forget"}}
INVARIANTS TypeOK SuccessIsWhole NothingHalfRestored
PROPERTIES OnlyNewVolumes
