SPECIFICATION OpenSpec
CONSTANTS
  NumWallets = 2
  WordSize = 2
  Spenders = {}
  Operators = {agent}
  FeeModule = feeModule
  Collector = 1
  Fees = {0}
  MaxListed = 3
INVARIANTS
  InvestorsTypeOK
  HoldersReadSupply
  KnownInvestorsAreListed
PROPERTIES
  GainsAreReadable
