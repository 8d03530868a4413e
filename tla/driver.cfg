SPECIFICATION Spec
CONSTANTS
  Drivers = {d1}
  Apps = {a1, a2}
  Observers = {o1}
  NumStreams = 2
  Free = free
  MaxOpens = 2
  MaxItems = 2
  MaxObservers = 1
  OpenMayFail = TRUE
  ReopenRunning = FALSE
  Closing = {d1}
  Calling = {d1}
  Raising = {d1}
INVARIANTS TypeOK LockOwners QuietWhenClosed SessionIsolation
PROPERTIES ObserversStableInDispatch ImplementsChannel
CHECK_DEADLOCK FALSE
