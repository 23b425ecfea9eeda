SPECIFICATION Spec
CONSTANTS
  Names = {n1}
  Paths = {p1, p2}
  Activates = {TRUE}
  MaxCommands = 3
  MaxBatch = 2
  MaxReloads = 1
INVARIANTS
  OneTabPerReference
  FramesFollowTabs
  CopiesKeepBytes
  StorageSettles
SYMMETRY Symmetry
CHECK_DEADLOCK FALSE
