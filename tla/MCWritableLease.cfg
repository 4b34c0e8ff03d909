SPECIFICATION Spec
CONSTANTS
  Runs = {r1}
  Owners = {o1, o2}
  Sessions = {s1, s2}
  NoOwner = NoOwner
  NoLease = NoLease
  NoSession = NoSession
  MaxTTL = 2
  TimeBound = 3
  GenBound = 2
  ExecBound = 2
  OrphanBound = 1
SYMMETRY LeaseSymmetry
INVARIANT LeaseInv
INVARIANT CountCoversInFlight
INVARIANT FencedSessions
PROPERTY DeadCredentialsStayDead
PROPERTY TakeoverBetweenExecs
PROPERTY ImplementsExclusiveWriter
CHECK_DEADLOCK FALSE
