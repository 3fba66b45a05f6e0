SPECIFICATION Spec
CONSTANTS
  Listener = {l1, l2}
  Worker = {w1}
  MaxNotifications = 2
  Focus <- AllTypes
  WrongKinds = TRUE
INVARIANTS
  AsDocumented
  MissingIsHarmless
  SubscribedIsHandled
  CallsBounded
PROPERTIES
  AttachedHears
CHECK_DEADLOCK FALSE
