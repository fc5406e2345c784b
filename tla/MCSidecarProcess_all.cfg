SPECIFICATION Spec
CONSTANTS
  c1 = c1
  c2 = c2
  c3 = c3
  s1 = s1
  s2 = s2
  Base = Base
  None = None
  Calls = {c1, c2, c3}
  First = s1
  Settings = {s1, s2}
  Kinds = {"art", "tts", "llm"}
  Callers <- MCCallers
INVARIANTS
  TypeOK
  NoOrphan
  OneChild
PROPERTIES
  AnswerIsOwn
  CallsReturn
CHECK_DEADLOCK FALSE
