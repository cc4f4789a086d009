CONSTANTS
  StaleThreshold = 3
  CheckInterval = 2
  Cooldown = 6
  RemovalTimeout = 1
  MaxFaults = 2
  Configs <- MCConfigs
SPECIFICATION Spec
INVARIANT LifecycleTypeOK
INVARIANT OneSubscription
INVARIANT DeadIsReplaced
INVARIANT InitRaceIsHarmless
INVARIANT OneWallet
INVARIANT ShutDownIsQuiet
CHECK_DEADLOCK FALSE
