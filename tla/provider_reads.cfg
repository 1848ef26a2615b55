SPECIFICATION FairSpec
CONSTANTS
  Callers = {r1, r2}
  Chains = {c1}
  MaxHeight = 3
PROPERTIES
  NodeReads
  ReadsForwardInTurn
  NeverForgotten
  CallsEnd
