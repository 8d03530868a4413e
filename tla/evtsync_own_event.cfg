SPECIFICATION Spec
CONSTANTS
  Callers = {c1}
  Objects = {o1}
  Events = {read_rsp, write_rsp}
  Values = {v}
  Notifier = event_worker
  Free = free
  NoEvent = no_event
  NoValue = no_value
  MaxNotify = 2
INVARIANT WaitReturnsOwnEvent
