SPECIFICATION LaunchedSpec
CONSTANTS
  NumWallets = 3
  WordSize = 4
  Spenders = {spender}
  Operators = {agent, feeModule}
  FeeModule = feeModule
  Collector = 1
  Fees = {0, 1}
  MaxGranted = 3
INVARIANTS
  
  SupplyIsSumOfBalances
  FrozenWithinBalance
  AllowanceWithinGrant
PROPERTIES
  RecoveryCarriesFreeze
  GrantsAreKept
CONSTRAINT
  Promising
