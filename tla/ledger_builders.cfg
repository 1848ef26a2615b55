SPECIFICATION Spec
CONSTANTS
  Names = {"a", "b"}
  Accounts = {}
  Schemes = {"s"}
  Scheme = "s"
  Builders = {b1, b2}
  Identities = {x, y}
  PublicChannels = {"b"}
  Requests <- MCRequests
  MaxBlocks = 2
  MaxCalls = 2
SYMMETRY BuilderSymmetry
CHECK_DEADLOCK FALSE
INVARIANTS
  BuiltIsAccepted
  InvitationsUnique
  MembersHoldKeys
