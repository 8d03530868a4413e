SPECIFICATION FairSpec
CONSTANTS
  Drivers = {d1, d2}
  Apps = {a1}
  Observers = {o1}
  NumStreams = 1
  Free = free
  MaxOpens = 1
  MaxItems = 1
  MaxObservers = 1
  OpenMayFail = FALSE
  ReopenRunning = FALSE
  Closing = {d1}
  Calling = {d2}
  Raising = {}
PROPERTY CloseReturns
CHECK_DEADLOCK FALSE
