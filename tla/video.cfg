\* Commands of one kind beside those with rules of their own; three frames.
SPECIFICATION FairSpec
CONSTANTS
  Calls = {"alive"}
  MaxFrames = 3
INVARIANTS TypeOK NoTear IdleIsIdle FreedAlone
PROPERTIES ImplementsService CallsReturn FramesAreShown
CHECK_DEADLOCK FALSE
