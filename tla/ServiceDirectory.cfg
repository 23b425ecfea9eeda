SPECIFICATION FairSpec
CONSTANTS
  Contents = {"a", "b"}
  MaxChanges = 2
  MaxStarts = 3
INVARIANTS
  BellIsHonest
  PageIsCurrent
PROPERTIES
  PageCatchesUp
CHECK_DEADLOCK FALSE
