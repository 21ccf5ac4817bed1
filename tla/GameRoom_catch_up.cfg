SPECIFICATION Spec
CONSTANTS
  c1 = c1
  c2 = c2
  d1 = d1
  d2 = d2
  e1 = e1
  w1 = w1
  watcher = watcher
  none = none
  NSlots = 2
  AiStart = {2}
  Watchers = {watcher}
  Conns = {c1, d1, w1}
  Owner <- MCOwner
  Seated <- MCSeated
  StartWatchers = {}
  AllowSpectators = TRUE
  Leads = {1}
  MaxLead = 1
  MaxTicks = 3
  NoConn = none
INVARIANTS StreamInv FlowBound
PROPERTY ImplementsLockstep
CONSTRAINT OneComes
CHECK_DEADLOCK FALSE
