SPECIFICATION Spec
CONSTANTS
  Clients = {r1}
  Consumers = {c1}
  Hooks = {h1}
  None = None
  Uses = {{"start_wait"}}
  MaxNotes = 1
  MaxDeferred = 2
  MaxStarts = 2
INVARIANTS
  NoFailedJoin
CHECK_DEADLOCK FALSE
