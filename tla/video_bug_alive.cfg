SPECIFICATION Spec
CONSTANTS
  Calls = {"alive"}
  MaxFrames = 2
INVARIANT Serialised
CHECK_DEADLOCK FALSE
