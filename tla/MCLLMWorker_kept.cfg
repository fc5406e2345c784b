SPECIFICATION Spec
CONSTANTS
  r1 = r1
  r2 = r2
  u1 = u1
  o1 = o1
  d1 = d1
  Worker = Worker
  Unload = Unload
  NoMessage = NoMessage
  Requests = {r1, r2}
  Unloaders = {}
  Outsiders = {}
  Downloaders = {d1}
  Overriding = {}
  AutoUnload = TRUE
  MaxIndex = 2
  Scenarios <- AllTogether
  Threads <- MCThreads
  Messages <- MCMessages
INVARIANTS
  KeptRequestStays
CHECK_DEADLOCK FALSE
