SPECIFICATION Spec
CONSTANTS
  Runs = {r1, r2}
  Images = {i1, i2}
  Files = {v1}
  WorkFiles = {v1}
  Template = {v1}
  Plain = Plain
  NoRun = NoRun
  FaultBound = 0
SYMMETRY SnapshotSymmetry
INVARIANT SnapshotsAddNothing
CHECK_DEADLOCK FALSE
