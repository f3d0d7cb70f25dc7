SPECIFICATION Spec
CONSTANTS
  a = a
  b = b
  Nodes = {a, b}
  TTL = 4
  Safety = 1
  Cooldown = 2
  Drift = 1
  MaxWait = 4
  MaxBoots = 2
  MaxFaults = 0
  ListenersFail = FALSE
  Signals = TRUE
  None = None
INVARIANT
  LeaderHoldsLease
