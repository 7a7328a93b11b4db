SPECIFICATION FairSpec
CONSTANTS
  Databases <- MCCharless
  MaxHandle = 24
  MaxPeers = 1
  MaxSvcs = 3
  MaxChrs = 5
  MaxDscs = 3
PROPERTY
  DiscoveryEnds
