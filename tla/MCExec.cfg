SPECIFICATION FairSpec
CONSTANTS
  Unit = 3
  HalfRange = 16
  Asks = {0, 5, 6, 11}
  DefaultSecs = 2
  KillSecs = 1
  GraceSecs = 1
  Statuses = {0, 137}
  ChunkBound = 2
  TimeBound = 3
INVARIANT TypeOK
INVARIANT FramesAreWhole
INVARIANT ExitFramesCloseTheStream
INVARIANT AnswersAreTrue
INVARIANT TimeoutsAreLate
PROPERTY ExecsReturn
CHECK_DEADLOCK FALSE
