SPECIFICATION FairSpec
CONSTANTS
  a = a
  b = b
  c = c
  d = d
  Tasks = {a, c}
  NoTask = NoTask
  Blocking = {}
  Pusher <- Pushers
  Rescheduling = {a}
  Endless = {}
  Modes = {TRUE, FALSE}
  Ops = {"switch"}
  Delays = {1}
  Slack = 0
  MaxTime = 2
  MaxSwitches = 2
PROPERTIES EveryTaskDelivered DeinitReturns
