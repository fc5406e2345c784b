SPECIFICATION Spec
CONSTANTS
  r1 = r1
  r2 = r2
  u1 = u1
  o1 = o1
  d1 = d1
  Worker = Worker
  Unload = Unload
  NoMessage = NoMessage
  Requests = {r1, r2}
  Unloaders = {u1}
  Outsiders = {o1}
  Downloaders = {d1}
  Overriding = {r1}
  AutoUnload = TRUE
  MaxIndex = 2
  Scenarios <- MCScenarios
  Threads <- MCThreads
  Messages <- MCMessages
INVARIANTS
  TypeOK
  IndexHasItem
  PendingUnloadHasOwner
PROPERTIES
  AcknowledgedUnloadRuns
  RequestsSettle
CHECK_DEADLOCK FALSE
