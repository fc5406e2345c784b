SPECIFICATION Spec
CONSTANTS
  Jobs = {job}
  Job = job
  Files = {f1}
  MaxChunks = 1
  MaxRaising = 0
  ProgressLevels = {50}
INVARIANT SettledStaysTerminal
CHECK_DEADLOCK FALSE
