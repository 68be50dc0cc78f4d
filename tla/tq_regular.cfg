SPECIFICATION FairSpec
CONSTANTS
  a = a
  b = b
  c = c
  d = d
  Tasks = {a, b, c}
  NoTask = NoTask
  Blocking = {}
  Pusher <- Pushers
  Rescheduling = {a, c}
  Endless = {a}
  Modes = {FALSE}
  Ops = {"wait", "reset", "cancel"}
  Delays = {1}
  Slack = 0
  MaxTime = 3
  MaxSwitches = 0
INVARIANT RunningSorted
PROPERTIES  DueTasksRun
