SPECIFICATION FairSpec
CONSTANTS
  Frames <- Everything
  MaxFrames = 3
  MaxMsg = 1
  NULL = NULL
CHECK_DEADLOCK FALSE
INVARIANTS
  EventsMatchLife
PROPERTIES
  FramesAreProcessed
  ClosingEnds
