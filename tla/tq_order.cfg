SPECIFICATION Spec
CONSTANTS
  a = a
  b = b
  c = c
  d = d
  Tasks = {a, b, c}
  NoTask = NoTask
  Blocking = {}
  Pusher <- FramePushers
  Rescheduling = {}
  Endless = {}
  Modes = {TRUE}
  Ops = {"cancel", "reset"}
  Delays = {1, 2}
  Slack = 0
  MaxTime = 2
  MaxSwitches = 0
INVARIANTS EveryTaskInOnePlace RunningSorted
PROPERTY FirstRunsInOrder
