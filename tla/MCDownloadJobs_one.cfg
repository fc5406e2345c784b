SPECIFICATION Spec
CONSTANTS
  Jobs = {j1}
  Cancellers = {c1, c2}
  Kinds <- EveryKind
  MaxUnits = 2
  ProgressLevels = {50, 99}
  None = None
INVARIANTS
  TypeOK
  SettledJobsAreTerminal
  CancelledMeansSignalled
  CompletedIsFull
PROPERTIES
  VerdictIsFinal
  EveryJobSettles
  
CHECK_DEADLOCK FALSE
