SPECIFICATION SetupSpec
CONSTANTS
  NumWallets = 1
  WordSize = 2
  Spenders = {}
  Operators = {agent, feeModule}
  FeeModule = feeModule
  MaxBalanceModule = maxBalanceModule
  SupplyLimitModule = supplyLimitModule
  Collector = 1
  Fees = {0, 1}
  FullRate = 1
  i1 = i1
  i2 = i2
  Identities = {i1, i2}
  NoIdentity = noIdentity
INVARIANTS
  ComplianceTypeOK
  BookIsWhatIdentitiesHold
CONSTRAINT
  Tracked
SYMMETRY
  EitherIdentity
