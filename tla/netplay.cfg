SPECIFICATION FairSpec
CONSTANTS
  Clients = {1}
  MaxStall = 2
  Ahead = 0
  StallPause = 3
  StallTime = 2
  LatencyMin = 1
  LatencyMax = 1
  Inputs = {{}, {"left", "a"}}
  Directions = {"left"}
  Start = 1
  PressFrames = {3}
  JoinBefore = 2
  LoadBefore = 3
  MaxLoads = 2
  MaxFrame = 5
INVARIANTS TypeOK  ReplaysFromRing
PROPERTIES ImplementsLockstep GameGoesOn
CHECK_DEADLOCK FALSE
