SPECIFICATION MutexSpec
CONSTANTS
  a = a
  b = b
  c = c
  Procs = {a, b, c}
  Stale = 2
  Timeout = 1
  Hold = 1
  MaxCrashes = 1
  None = None
INVARIANTS
  MutualExclusion
