SPECIFICATION Spec
CONSTANTS
  Day = 2
  GasAtomsPerGas = 10
  RetentionPolicy <- MCPolicy
  AdditionalCosts <- MCCosts
  Owners = {"owner"}
  Partners = {"partner"}
  Tags = {"tag"}
  Contents = {"content"}
  Accounts = {"payer"}
  NoAccount = "none"
  Seed = "seed"
  Previous = "previous"
  Expiration = 3
  GasPrices = {1}
  Gases = {0, 1}
  MaxCalls = 4
  MaxClock = 1
CHECK_DEADLOCK FALSE
INVARIANTS
  VerifiedIsSigned
  HashesAreRenewed
  GasAgreed
PROPERTY AuxiliarySurvives
