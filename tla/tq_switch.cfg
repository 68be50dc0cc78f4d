SPECIFICATION Spec
CONSTANTS
  a = a
  b = b
  c = c
  d = d
  Tasks = {a, b, c}
  NoTask = NoTask
  Blocking = {a, b}
  Pusher <- Pushers
  Rescheduling = {a, c}
  Endless = {}
  Modes = {TRUE, FALSE}
  Ops = {"switch", "wait"}
  Delays = {1}
  Slack = 0
  MaxTime = 3
  MaxSwitches = 2
INVARIANTS TypeOK EveryTaskInOnePlace OneBlockingTask
PROPERTY ImplementsLifecycle
