SPECIFICATION Spec
CONSTANTS
  InitialOffer = 3
  NullHash = NullHash
  NotFound = NotFound
  Clients = {c1, c2}
  Openings <- MCOpenings
  Extensions <- MCExtensions
  MaxMicroblocks = 4
SYMMETRY Symmetric
INVARIANTS
  ReadersFindLatest
  ImportedOnce
  ToldIsAnchored
  FreshIsAccepted
PROPERTY OwnerFixed
