SPECIFICATION Spec
CONSTANTS
  c1 = c1
  c2 = c2
  d1 = d1
  d2 = d2
  e1 = e1
  w1 = w1
  watcher = watcher
  none = none
  NSlots = 2
  AiStart = {}
  Watchers = {}
  Conns = {c1, c2, d1, e1}
  Owner <- MCOwner
  Seated <- MCSeated
  StartWatchers = {}
  AllowSpectators = FALSE
  Leads = {1}
  MaxLead = 1
  MaxTicks = 1
  NoConn = none
INVARIANT SeatStaysOpen
CHECK_DEADLOCK FALSE
