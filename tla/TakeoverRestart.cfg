SPECIFICATION Spec
CONSTANTS
  Clients = {c0, c1, c2}
  Spawner = c0
  Outcomes = {"ok"}
  MaxTries = 1
  PolicyInOrder = FALSE
  MaxChunks = 2
  MaxRestarts = 1
  MayExit = FALSE
  MayClose = TRUE
INVARIANTS
  LanesAreOwned
  EpochIsDurable
  NoStaleInput
CHECK_DEADLOCK FALSE
