SPECIFICATION Spec
CONSTANTS
  Runs = {r1, r2}
  Images = {i1, i2}
  Files = {v1}
  WorkFiles = {v1}
  Template = {v1}
  Plain = Plain
  NoRun = NoRun
  FaultBound = 1
SYMMETRY SnapshotSymmetry
INVARIANT TypeOK
INVARIANT SnapshotsCarryTheWorkspace
INVARIANT NothingTemporaryIsLeft
PROPERTY RestoresAreExact
CHECK_DEADLOCK FALSE
