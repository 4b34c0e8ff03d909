SPECIFICATION FairSpec
CONSTANTS
  Boots = {b1}
  Committers = {c1}
  Removers = {x1}
  Gens = {g1, g2}
  Parts = {p1, p2}
  NoGen = NoGen
  CrashBound = 0
INVARIANT ColdBootsAreEmpty
PROPERTY BootsEnd
CHECK_DEADLOCK FALSE
