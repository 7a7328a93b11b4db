\* One failure between frames, one disturbance of the frames by a message or a cut.
SPECIFICATION FairSpec
CONSTANTS
  Versions <- TwoVersions
  BUFFLEN <- FRAME_BYTES
  Capacity <- OneMessage
  InFlight = 1
  MaxFaults = 1
  MaxNoise = 1
  CutsFrames = FALSE
INVARIANTS
  TypeOK
PROPERTIES
  ImplementsMirror
  DashboardFollows
  SilenceNoticed
  ProgramsStop
CHECK_DEADLOCK FALSE
