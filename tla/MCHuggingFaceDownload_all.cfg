SPECIFICATION Spec
CONSTANTS
  Jobs = {job}
  Job = job
  Files = {f1, f2}
  MaxChunks = 1
  MaxRaising = 1
  ProgressLevels = {50}
INVARIANTS
  TypeOK
  CompletedMeansAllMoved
PROPERTIES
  CompletedVerdictIsFinal
  CancelledTransferEnds
  FileThreadsEnd
  
CHECK_DEADLOCK FALSE
