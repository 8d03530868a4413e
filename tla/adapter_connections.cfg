SPECIFICATION Spec
CONSTANTS
  Callers = {c1, c2}
  Handles = {h1}
  Ops = {"write_req"}
  Unsolicited = {"gatts_evt_write"}
  Notifier = event_worker
  Free = free
  NoEvent = no_event
  NoValue = no_value
  MaxConns = 2
  MaxReqs = 1
  MaxUnsolicited = 1
  MaxQueue = 2
  ConnectInApp = TRUE
  ConnectInCallback = TRUE
  CloseMayFail = FALSE
SYMMETRY CallerSymmetry
INVARIANTS TypeOK AnswersSameConnection TablesFollowEvents ConnectFlagCleared
CHECK_DEADLOCK FALSE
