SPECIFICATION FairSpec
CONSTANTS
  Mode = "auto"
  MaxAttempts = 3
  Outcomes = {"ok", "landed", "failed"}
  MaxSends = 2
  MaxFaults = 2
  FaultKinds = {"restart", "unlink"}
INVARIANTS
  NoGap
  ClosedMeansFlushed
PROPERTIES
  ImplementsChannel
  SentIsDelivered
CHECK_DEADLOCK FALSE
