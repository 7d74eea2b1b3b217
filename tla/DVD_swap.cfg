SPECIFICATION Spec
CONSTANTS
  WordSize = 3
  NumWallets = 2
  Alice = 1
  Bob = 2
  Manager = manager
  Owner = owner
  Agent = agent
  MaxDeliveries = 2
  MaxOthers = 2
  Traded = {1}
INVARIANTS
  DVDTypeOK
PROPERTIES
  DeliversAsAgreed
  ScriptSwaps
CHECK_DEADLOCK FALSE
