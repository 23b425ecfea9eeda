SPECIFICATION Spec
CONSTANTS
  Readers = {r1, r2}
  Spawner = r1
  HasProc = TRUE
  SegMax = 2
  AckWindow = 1
  AckResume = 0
  Sizes = {1}
  MaxFrames = 5
  MaxControl = 1
  StaleReads = TRUE
  QuietTakeover = FALSE
INVARIANTS
  HonestAccounts
  NeverTwice
CHECK_DEADLOCK FALSE
