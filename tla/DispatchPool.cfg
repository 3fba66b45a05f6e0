SPECIFICATION FairSpec
CONSTANTS
  Workers = {w1, w2, w3}
  Io = io
  Apps = {app}
  Work = {x1, x2}
  None = None
  MaxStarts = 2
INVARIANTS
  NoStrandedWork
  InductiveInvariant
PROPERTIES
  ImplementsWorkQueue
  EveryItemRuns
  StopReturns
CHECK_DEADLOCK FALSE
