\* One thread in each role, every signal at both ends of its range.
SPECIFICATION FairSpec
CONSTANTS
  Signal    <- SignalNames
  BitOffset <- SignalOffset
  BitSize   <- SignalSize
  BUFFLEN   <- FRAME_BYTES
  Inputs    <- MCInputs
INVARIANTS
  TypeOK
  NoOverrun
PROPERTIES
  ImplementsRegister
  MutexServesBoth
