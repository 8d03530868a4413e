SPECIFICATION FairSpec
CONSTANTS
  Drivers = {d1}
  Apps = {a1, a2}
  Observers = {o1}
  NumStreams = 1
  Free = free
  MaxOpens = 2
  MaxItems = 2
  MaxObservers = 1
  OpenMayFail = TRUE
  ReopenRunning = TRUE
  Closing = {d1}
  Calling = {d1}
  Raising = {d1}
PROPERTIES CloseReturnsOrCallbackWaits LeftWorkersExit QueueServed
CHECK_DEADLOCK FALSE
