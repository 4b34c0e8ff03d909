SPECIFICATION Spec
CONSTANTS
  Labels = {"a", "x", "com"}
  OddLabels = {"*"}
  V6 = {"::1"}
  Entries <- MCEntries
  Targets <- MCTargets
  Base <- MCBase
  Unit = 3
  HalfRange = 16
  TTLs <- MCTTLs
  DefaultSecs = 2
  MaxSecs = 4
INVARIANT TypeOK
INVARIANT OnlyWhatIsListed
INVARIANT AcceptedEntriesWork
INVARIANT RemediesWork
INVARIANT LifetimesAreAsAsked
CHECK_DEADLOCK FALSE
