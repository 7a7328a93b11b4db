SPECIFICATION FairSpec
CONSTANTS
  Databases <- MCDatabases
  MaxHandle = 24
  MaxPeers = 1
  MaxSvcs = 3
  MaxChrs = 5
  MaxDscs = 3
INVARIANTS
  TypeOK
  PoolsAccounted
  NeverForgotten
  SubscribesToSpeedometer
PROPERTIES
  ImplementsDiscovery
  DiscoveryEnds
