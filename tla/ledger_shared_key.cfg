SPECIFICATION Spec
CONSTANTS
  Names = {"a", "b"}
  Accounts = {"w"}
  Schemes = {"s", "t"}
  Appenders = {p1}
  Contents <- MCFewContents
  MaxBlocks = 2
CHECK_DEADLOCK FALSE
INVARIANT SharedKeyFound
