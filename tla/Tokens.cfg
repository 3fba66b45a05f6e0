SPECIFICATION Spec
CONSTANTS
  Consumers = {c1, c2}
  Refreshable = {c1}
  App = app
  Lifetimes = {3}
  Margin = 3
  Latency = 1
  MaxTime = 4
  MaxRequests = 2
  None = None
INVARIANTS
  TokensKept
PROPERTIES
  GoneIsUntouched
  TimerOutlivesCallback
CONSTRAINT Apart
CHECK_DEADLOCK FALSE
