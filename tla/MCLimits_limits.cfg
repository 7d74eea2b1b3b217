SPECIFICATION FewerSpec
CONSTANTS
  investor = investor
  exchange = exchange
  WordSize = 4
  Wallets = {1, 2, 3}
  Identities = {investor, exchange}
  IdentityOf <- TwoOfOne
  AgentWallets = {2}
  Exchanges = {exchange}
  Times = {1, 2}
  Month = 2
  MaxLimits = 2
  Bindings <- OneModule
  MaxApprovals = 1
INVARIANTS
  LimitsTypeOK
  TimeLimitsHold
PROPERTIES
  CooldownsEnd
