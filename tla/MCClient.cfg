SPECIFICATION FairSpec
CONSTANTS
  Half = 8
  MaxCalls = 3
  Lifetimes = {1, 3}
  Polls = 2
  Patience = 2
  MaxFaults = 2
INVARIANTS
  PaysOnce
  DrawsAgree
  DrawsUniform
PROPERTY
  WaitTerminates
CHECK_DEADLOCK FALSE
