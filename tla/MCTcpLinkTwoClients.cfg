\* Two clients compete for the one connection the server serves.
SPECIFICATION FairSpec
CONSTANTS
  c1 = c1
  c2 = c2
  Clients   = {c1, c2}
  Versions  <- TwoVersions
  BUFFLEN   <- FRAME_BYTES
  Capacity  <- OneFrame
  MaxConn   = 2
  MaxBreaks = 0
  Segmented = FALSE
  SigPipeKills = FALSE
PROPERTIES
  WaitingClientServed
CHECK_DEADLOCK FALSE
