SPECIFICATION Spec
CONSTANTS
  a = a
  b = b
  Nodes = {a, b}
  TTL = 4
  Safety = 1
  Cooldown = 2
  Drift = 1
  MaxWait = 4
  MaxBoots = 1
  MaxFaults = 0
  ListenersFail = TRUE
  Signals = FALSE
  None = None
PROPERTY
  StaysOutOfElection
