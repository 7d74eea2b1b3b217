SPECIFICATION Spec
CONSTANTS
  Signer9 = signer9
  GatewayDeployer = gateway
  GatewayOwner = gateway
  Relayer = relayer
  MaxLaunches = 2
  MaxFaults = 1
INVARIANTS
  TypeOK
  LaunchedIsWired
  TestsRunAgainstDeployed
  EveryAccountGetsItsCoin
PROPERTIES
  LaunchEnds
  SoundLaunchSucceeds
