\* One client, two network failures, full interleaving.
SPECIFICATION FairSpec
CONSTANTS
  c1 = c1
  c2 = c2
  Clients   = {c1}
  Versions  <- ThreeVersions
  BUFFLEN   <- FRAME_BYTES
  Capacity  <- TwoFrames
  MaxConn   = 3
  MaxBreaks = 2
  Segmented = FALSE
  SigPipeKills = TRUE
PROPERTIES
  ImplementsMirror
  DisconnectNoticed
  DashboardFollows
  ProgramsStop
INVARIANTS
  TypeOK
  NoSocketLeak
CHECK_DEADLOCK FALSE
