SPECIFICATION Spec
CONSTANTS
  Nodes = {n1}
  Escrows = {e1}
  Features = {"escrow", "vesting", "unstaking"}
  Amounts = {1, 3}
  Terms <- MCTerms
  DayLength = 2
  MaxBalance = 4
  MaxLocks = 3
  MaxTime = 6
CHECK_DEADLOCK FALSE
INVARIANTS TypeOK SpendableNonNegative LocksWellFormed ReleasedOnSchedule
PROPERTY ReleasesFitStakes
