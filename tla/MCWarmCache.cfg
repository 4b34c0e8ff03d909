SPECIFICATION Spec
CONSTANTS
  Boots = {b1}
  Committers = {c1, c2}
  Removers = {}
  Gens = {g1, g2, g3}
  Parts = {p1, p2}
  NoGen = NoGen
  CrashBound = 1
SYMMETRY CacheSymmetry
INVARIANT TypeOK
INVARIANT MarksAreOwned
INVARIANT WarmBootsAreComplete
INVARIANT PublishedIsWhole
CHECK_DEADLOCK FALSE
