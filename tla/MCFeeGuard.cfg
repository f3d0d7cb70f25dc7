SPECIFICATION Spec
CONSTANTS
  s1 = s1
  s2 = s2
  Sends = {s1, s2}
  MaxFees = {1, 2}
  OnChainFee = 1
  Cost = 1
  UnpaidBudget = 1
  PaidBudget = 1
  Floor = 1
  InitialBalance = 4
  Window = 3
  Validity = 1
  MaxTime = 4
  None = None
SYMMETRY
  Symmetric
INVARIANTS
  TypeOK
  BudgetsKept
  ChargesRecorded
  FloorKept
  LossBounded
  NothingLeaks
CHECK_DEADLOCK FALSE
