\* TCP delivers part of a frame before the rest of it.
SPECIFICATION Spec
CONSTANTS
  c1 = c1
  c2 = c2
  Clients   = {c1}
  Versions  <- TwoVersions
  BUFFLEN   <- FRAME_BYTES
  Capacity  <- TwoFrames
  MaxConn   = 2
  MaxBreaks = 0
  Segmented = TRUE
  SigPipeKills = TRUE
INVARIANTS
  FrameIntegrity
CHECK_DEADLOCK FALSE
