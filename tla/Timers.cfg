SPECIFICATION MCSpec
CONSTANTS
  Timers = {t1, t2}
  Oneshots = {t2}
  Throwers = {t1}
  Freqs = {1, 2}
  AppThreads = {TRUE, FALSE}
  NoTimer = NoTimer
  MaxTime = 3
  MaxCount = 3
INVARIANTS
  InductiveInvariant
  OneshotOnceAlone
PROPERTIES
  IoStopIsExact
  StoppedForGood
  NoTimerStarvesAlone
CHECK_DEADLOCK FALSE
