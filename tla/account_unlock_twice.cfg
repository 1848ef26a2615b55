SPECIFICATION Spec
CONSTANTS
  Nodes = {n1}
  Escrows = {}
  Features = {"unstaking"}
  Amounts = {1, 2, 3}
  Terms <- MCOneTerm
  DayLength = 1
  MaxBalance = 4
  MaxLocks = 2
  MaxTime = 2
CHECK_DEADLOCK FALSE
INVARIANTS UnlocksIdempotent
