SPECIFICATION Spec
CONSTANTS
  Jobs = {j1, j2}
  Free = Free
  MaxReports = 1
  ProgressLevels = {50}
INVARIANTS
  TypeOK
  OneAwaitedJob
  CompletedAtSidecar
PROPERTIES
  ImplementsLifecycle
CHECK_DEADLOCK FALSE
