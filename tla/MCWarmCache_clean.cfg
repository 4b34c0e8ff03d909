SPECIFICATION Spec
CONSTANTS
  Boots = {}
  Committers = {c1, c2}
  Removers = {}
  Gens = {g1, g2}
  Parts = {p1, p2}
  NoGen = NoGen
  CrashBound = 0
SYMMETRY CacheSymmetry
INVARIANT PublishedSurvives
CHECK_DEADLOCK FALSE
