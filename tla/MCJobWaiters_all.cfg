SPECIFICATION Spec
CONSTANTS
  Jobs = {j1, j2}
  Waiters = {w1, w2}
  ProgressLevels = {60, 100}
INVARIANTS
  TypeOK
  TerminalJobsWakeWaiters
PROPERTIES
  FutureSettledOnce
  DroppedStaysDropped
  SettledWaitersReturn
CHECK_DEADLOCK FALSE
