SPECIFICATION FairSpec
CONSTANTS
  Hows = {"spawn", "attach"}
  Modes = {"poll"}
  SafetyPoll = FALSE
  MaxRequests = 1
  MaxNoise = 1
INVARIANTS
  OwnAnswers
CHECK_DEADLOCK FALSE
PROPERTIES
  RequestsSettle
