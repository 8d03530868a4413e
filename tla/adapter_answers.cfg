SPECIFICATION FairSpec
CONSTANTS
  Callers = {c1, c2}
  Handles = {h1}
  Ops = {"att_mtu_exchange"}
  Unsolicited = {}
  Notifier = event_worker
  Free = free
  NoEvent = no_event
  NoValue = no_value
  MaxConns = 1
  MaxReqs = 2
  MaxUnsolicited = 0
  MaxQueue = 2
  ConnectInApp = FALSE
  ConnectInCallback = FALSE
  CloseMayFail = TRUE
INVARIANT AnswerOfOwnRequest
PROPERTY CallReturns
CHECK_DEADLOCK FALSE
