SPECIFICATION Spec
CONSTANTS
  Jobs = {j1}
  Free = Free
  MaxReports = 1
  ProgressLevels = {50}
INVARIANT CancelAnswerHolds
CHECK_DEADLOCK FALSE
