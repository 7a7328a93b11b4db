\* Every interleaving of one painting with arriving frames and two timers.
SPECIFICATION FairSpec
CONSTANTS
  Frames         <- MCFrames
  DRAW_INTERVAL  = 2
  BLINK_INTERVAL = 3
  Coarse         = 1
  Nothing        = Nothing
INVARIANTS
  PictureCurrent
  ClickFollows
PROPERTIES
  ArrowsBlink
