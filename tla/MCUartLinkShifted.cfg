\* One failure in the middle of a frame.
SPECIFICATION FairSpec
CONSTANTS
  Versions <- TwoVersions
  BUFFLEN <- FRAME_BYTES
  Capacity <- Shifted
  InFlight = 1
  MaxFaults = 1
  MaxNoise = 0
  CutsFrames = TRUE
PROPERTY
  DashboardFollows
CHECK_DEADLOCK FALSE
