SPECIFICATION Spec
CONSTANTS
  Runs = {r1, r2}
  Committers = {c1}
  MaxTTL = 1
  TimeBound = 1
  FaultBound = 1
  CrashBound = 2
SYMMETRY LifecycleSymmetry
INVARIANT OneKeeper
INVARIANT LifeInv
INVARIANT ForgottenRunsHoldNothing
INVARIANT TrackedRunsKeepTheirProxy
INVARIANT ContainersAreKnown
CHECK_DEADLOCK FALSE
