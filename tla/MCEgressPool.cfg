SPECIFICATION FairSpec
CONSTANTS
  Runs = {r1}
  Conns = {c1}
  Listeners = {l0, l1, l2}
  Shared = l0
  Procs = {p1, p2}
  None = None
INVARIANT TypeOK
INVARIANT ListenersAreRegistered
INVARIANT CountsAreExact
PROPERTY CloseTunnelsWaits
PROPERTY NoTunnelThroughClosedDoor
PROPERTY DeadRunsLetGo
PROPERTY ClosesEnd
CHECK_DEADLOCK FALSE
