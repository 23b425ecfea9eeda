SPECIFICATION FairSpec
CONSTANTS
  Readers = {r1, r2}
  Spawner = r1
  HasProc = TRUE
  SegMax = 4
  AckWindow = 1
  AckResume = 0
  Sizes = {1}
  MaxFrames = 8
  MaxControl = 1
  StaleReads = TRUE
  QuietTakeover = TRUE
INVARIANTS
  SegmentsKept
  PauseMatchesWindow
PROPERTIES
  ImplementsChannel
  PauseEnds
  CaughtUp
CHECK_DEADLOCK FALSE
