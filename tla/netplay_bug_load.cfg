SPECIFICATION Spec
CONSTANTS
  Clients = {1}
  MaxStall = 3
  Ahead = 0
  StallPause = 1
  StallTime = 2
  LatencyMin = 0
  LatencyMax = 0
  Inputs = {{}, {"left", "a"}}
  Directions = {"left"}
  Start = 1
  PressFrames = {}
  JoinBefore = 2
  LoadBefore = 9
  MaxLoads = 2
  MaxFrame = 5
INVARIANT LoadedIntoItsFrame
CHECK_DEADLOCK FALSE
