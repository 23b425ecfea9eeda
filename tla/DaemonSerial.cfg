SPECIFICATION FairSpec
CONSTANTS
  Daemons = {d1, d2, d3}
  MaxCrashes = 2
  MayStop = TRUE
  OneAtATime = TRUE
INVARIANTS
  OneServes
PROPERTIES
  HubIsServed
