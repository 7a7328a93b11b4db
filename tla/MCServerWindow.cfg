\* Every widget, every interleaving of handlers and copies.
SPECIFICATION FairSpec
CONSTANTS
  Signal    <- SignalNames
  BitOffset <- SignalOffset
  BitSize   <- SignalSize
  BUFFLEN   <- FRAME_BYTES
  Moves     <- MCMoves
INVARIANTS
  TurnBoxesInterlocked
  BufferAgrees
PROPERTIES
  FramesFollow
  NoGlitch
  UsesRegister
