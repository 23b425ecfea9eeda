\* Every kind of session, one crash or stop of the host.
SPECIFICATION FairSpec
CONSTANTS
  Kinds = {"pty", "pipe", "kind", "echo"}
  MaxSends = 3
  MaxRestarts = 1
INVARIANTS
  NeverWritesRemoved
  NothingOutlives
  MarkerIsTrue
  ShellInputQueues
PROPERTIES
  ExitedIsFinal
  VanishedIsMarked
  ExitedIsSwept
  SpawnIsAnswered
CHECK_DEADLOCK FALSE
