SPECIFICATION Spec
CONSTANTS
  NumWallets = 2
  WordSize = 3
  Spenders = {}
  Operators = {agent}
  FeeModule = feeModule
  Collector = 1
  Fees = {0}
INVARIANTS
  TypeOK
  SupplyIsSumOfBalances
  SupplyIsSumModuloWord
  FrozenWithinBalance
PROPERTIES
  WithoutAgentNothingIsForced
  RecoveryCarriesFreeze
