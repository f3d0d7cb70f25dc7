SPECIFICATION Spec
CONSTANTS
  a = a
  b = b
  Nodes = {a, b}
  TTL = 3
  Safety = 1
  Cooldown = 2
  Drift = 1
  MaxWait = 3
  MaxBoots = 1
  MaxFaults = 1
  ListenersFail = TRUE
  Signals = FALSE
  None = None
SYMMETRY
  Symmetric
INVARIANTS
  TypeOK
  LeaseHeld
  SoleLeader
  OneElectionCommand
