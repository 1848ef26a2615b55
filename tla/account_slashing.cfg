SPECIFICATION Spec
CONSTANTS
  Nodes = {n1}
  Escrows = {e1}
  Features = {"escrow", "vesting", "slashing"}
  Amounts = {1, 3}
  Terms <- MCOneTerm
  DayLength = 1
  MaxBalance = 4
  MaxLocks = 3
  MaxTime = 3
CHECK_DEADLOCK FALSE
INVARIANT StakeableNonNegative
PROPERTIES SlashedVestingFits SlashingFreesNothing
