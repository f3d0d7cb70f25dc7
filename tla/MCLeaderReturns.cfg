SPECIFICATION FairSpec
CONSTANTS
  a = a
  b = b
  Nodes = {a, b}
  TTL = 4
  Safety = 1
  Cooldown = 1
  Drift = 1
  MaxWait = 2
  MaxBoots = 2
  MaxFaults = 0
  ListenersFail = FALSE
  Signals = TRUE
  None = None
INVARIANT
  LeaseHeld
PROPERTY
  LeaderReturns
