SPECIFICATION Spec
CONSTANTS
  Daemons = {d1, d2}
  MaxCrashes = 1
  MayStop = FALSE
  OneAtATime = FALSE
INVARIANTS
  OneServes
CHECK_DEADLOCK FALSE
