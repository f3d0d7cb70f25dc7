SPECIFICATION FairHASpec
CONSTANTS
  a = a
  b = b
  Nodes = {a, b}
  Broken = {a}
  MaxRestarts = 1
  MaxTransient = 1
  TTL = 4
  Safety = 1
  Cooldown = 4
  Drift = 1
  MaxWait = 1
  MaxBoots = 1
  MaxFaults = 1
  ListenersFail = TRUE
  Signals = FALSE
  None = None
INVARIANTS
  HATypeOK
  LeaderSupervised
PROPERTY
  ServiceReturns
