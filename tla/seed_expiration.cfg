SPECIFICATION Spec
CONSTANTS
  InitialOffer = 3
  NullHash = NullHash
  NotFound = NotFound
  ServerUrlLength = 3
  BlockchainKinds = 6
  ByteValues = 16
  SingleFloats = {65536, 65600}
  DigestLength = 2
  DigitValues = 8
  SecondsPerDay = 100
  SeedTypes = {0, 1, 2, 3, 4, 5}
  MaxSections = 1
  MaxUnusual = 0
  MaxBytes = 4
  Samples = {0, 1, 7, 8, 15}
  MaxNumber = 2
  References = {0, 150, 32000, 32700}
  MaxMicroblocks = 34
  MaxLeaves = 5
  MaxFields = 0
  KeyDigits = {0, 1}
  KeyLength = 3
  Days = {1, 7, 300}
  Hashes = {m1, m2, m3}
  MaxAsked = 3
INVARIANT ExpirationReadsBack
CHECK_DEADLOCK FALSE
