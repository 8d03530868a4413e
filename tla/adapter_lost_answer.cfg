SPECIFICATION Spec
CONSTANTS
  Callers = {c1}
  Handles = {h1}
  Ops = {"att_mtu_exchange"}
  Unsolicited = {}
  Notifier = event_worker
  Free = free
  NoEvent = no_event
  NoValue = no_value
  MaxConns = 1
  MaxReqs = 1
  MaxUnsolicited = 0
  MaxQueue = 2
  ConnectInApp = FALSE
  ConnectInCallback = TRUE
  CloseMayFail = FALSE
INVARIANT AnsweredCallReturnsAnswer
