SPECIFICATION FairSpec
CONSTANTS
  Runs = {r1, r2}
  Committers = {c1}
  MaxTTL = 1
  TimeBound = 1
  FaultBound = 1
  CrashBound = 0
PROPERTY DeadlinesAreHonoured
CHECK_DEADLOCK FALSE
