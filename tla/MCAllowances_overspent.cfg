SPECIFICATION ApprovingSpec
CONSTANTS
  NumWallets = 2
  WordSize = 4
  Spenders = {spender}
  Operators = {agent}
  FeeModule = feeModule
  Collector = 1
  Fees = {0}
  MaxGranted = 4
INVARIANT
  GrantNeverOverspent
