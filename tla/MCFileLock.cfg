SPECIFICATION FairSpec
CONSTANTS
  a = a
  b = b
  Procs = {a, b}
  Stale = 2
  Timeout = 1
  Hold = 1
  TTL = 4
  Safety = 1
  MaxCrashes = 1
  Torn = Torn
  None = None
INVARIANTS
  TypeOK
  ExclusionUntilKill
  LeaderNamedInLock
PROPERTY
  ElectionsAreWon
