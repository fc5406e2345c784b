SPECIFICATION Spec
CONSTANTS
  Modes = {"stream", "collect"}
  MaxEvents = 3
INVARIANTS
  TypeOK
  EndsWithFinalLine
  ClosedIsForgotten
  InterruptedOnceWhenEarly
PROPERTIES
  ResponseEnds
CHECK_DEADLOCK FALSE
