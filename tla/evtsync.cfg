SPECIFICATION FairSpec
CONSTANTS
  Callers = {c1, c2}
  Objects = {o1}
  Events = {read_rsp, write_rsp}
  Values = {v}
  Notifier = event_worker
  Free = free
  NoEvent = no_event
  NoValue = no_value
  MaxNotify = 2
INVARIANTS TypeOK FreshAnswer WaitersRegistered WokenCallReturnsAnswer
PROPERTIES ImplementsRendezvous
