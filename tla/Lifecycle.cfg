SPECIFICATION MCSpec
CONSTANTS
  Clients = {r1, r2}
  Consumers = {c1, c2}
  Hooks = {h1}
  None = None
  Client = r1
  Consumer = c1
  Uses = {{}, {"hook_remove"}, {"app_replace"}, {"start_wait"}, {"throw"}, {"hook_remove", "app_keep", "app_replace", "start_wait", "throw"}}
  MaxNotes = 1
  MaxDeferred = 2
  MaxStarts = 2
INVARIANTS
  EraseSafe
  EngineGoesLast
PROPERTIES
  EraseRuns
  StopReturns
CHECK_DEADLOCK FALSE
