SPECIFICATION FairSpec
CONSTANTS
  MaxId = 3
  MaxSends = 2
  MaxTracked = 3
  MaxAttempts = 3
  MaxSetbacks = 2
  MaxScan = 1
  PageLimit = 2
  Retention = 2
  StartupLookback = 2
  ResyncLookback = 1
  MaxPollFailures = 2
  None = None
INVARIANTS
  TypeOK
  SendCap
PROPERTY
  EveryRequestServed
