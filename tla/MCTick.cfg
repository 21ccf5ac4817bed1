SPECIFICATION MCSpec
CONSTANTS
  NSeats = 1
  Second = 2
  Budget = 4
  Grace = 2
  Stall = 2
  Timeout = 3
  Watched = TRUE
  NSlots = 3
  TickBytes = 2
  CmdCap = 1
  PerSecond = 2
  MaxQueue = 1
  NPlayers = 2
  Lead = 1
  MaxTicks = 1
  RefRing = 2
  MaxLag = 2
INVARIANTS
  TickTypeOK
  WaitBounded
  OneClock
  PauseCostsNothing
  OrderSoonTaken
  LoneDivergenceIsIts
PROPERTIES
  CountdownHonest
  ClocksGoOn
  Detected
CHECK_DEADLOCK FALSE
