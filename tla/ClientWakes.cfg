SPECIFICATION Spec
CONSTANTS
  Hows = {"spawn", "attach"}
  Modes = {"adaptive"}
  SafetyPoll = FALSE
  MaxRequests = 0
  MaxNoise = 3
INVARIANTS
  NobodyAsleep
  ClosedIsQuiet
  ShownInOrder
CHECK_DEADLOCK FALSE
