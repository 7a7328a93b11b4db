\* Three losses or resets, one call that fails.
SPECIFICATION FairSpec
CONSTANTS
  Handles <- MCHandles
  Reports <- MCReports
  MaxFaults = 3
  MaxCallFaults = 1
INVARIANTS
  TypeOK
  StaleOnce
  ScansOnlyAlone
  NeverStranded
PROPERTIES
  Stranding
  LinkComesBack
CHECK_DEADLOCK FALSE
