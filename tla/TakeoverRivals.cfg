SPECIFICATION FairSpec
CONSTANTS
  Clients = {c0, c1, c2}
  Spawner = c0
  Outcomes = {"ok", "landed"}
  MaxTries = 1
  PolicyInOrder = FALSE
  MaxChunks = 1
  MaxRestarts = 0
  MayExit = TRUE
  MayClose = FALSE
INVARIANTS
  FencedByAnother
PROPERTIES
  SupersededIsFenced
  LastWriterServed
  AttachSettles
CHECK_DEADLOCK FALSE
