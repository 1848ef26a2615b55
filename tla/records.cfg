SPECIFICATION Spec
CONSTANTS
  SaltsPerBatch = 4
  p1 = p1
  p2 = p2
  Proofs = {p1, p2}
  Objects <- MCObjects
  Patterns <- MCPatterns
  ChannelIds = {0}
  Masks <- MCMasks
  RegexMasks <- MCRegexMasks
  MaxSettings = 2
  MaxHidden = 2
INVARIANTS
  RecordReadBack
  ProofsVerify
  ShowsWhatIsLeft
CHECK_DEADLOCK FALSE
SYMMETRY Symmetry
