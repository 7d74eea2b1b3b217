SPECIFICATION ReadySpec
CONSTANTS
  NumWallets = 3
  WordSize = 4
  Spenders = {spender}
  Operators = {agent, feeModule}
  FeeModule = feeModule
  MaxBalanceModule = maxBalanceModule
  SupplyLimitModule = supplyLimitModule
  Collector = 1
  Fees = {0, 1, 2, 3}
  FullRate = 2
  i1 = i1
  i2 = i2
  Identities = {i1, i2}
  NoIdentity = noIdentity
INVARIANTS
  BookIsWhatIdentitiesHold
PROPERTIES
  MaxBalanceIsEnforced
  ReceiverNeverPaysForNothing
  SupplyLimitIsEnforced
CONSTRAINT
  Tracked
