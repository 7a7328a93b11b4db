\* Every getter against arriving frames, and every value of every signal.
SPECIFICATION FairSpec
CONSTANTS
  Signal    <- SignalNames
  BitOffset <- SignalOffset
  BitSize   <- SignalSize
  BUFFLEN   <- FRAME_BYTES
  Signed    <- MCSigned
  Frames    <- MCBoundaryFrames
INVARIANTS
  TypeOK
  RoundTrip
PROPERTIES
  MutexServesBoth
  ImplementsDisplay
