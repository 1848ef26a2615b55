SPECIFICATION Spec
CONSTANTS
  Names = {"a", "b"}
  Accounts = {"w"}
  Schemes = {"s", "t"}
  Appenders = {p1}
  Contents <- MCContents
  MaxBlocks = 4
CHECK_DEADLOCK FALSE
INVARIANTS
  LedgerIsReplay
  HeightsLeadToSections
  NamesAndCreators
PROPERTY NothingTakenBack
