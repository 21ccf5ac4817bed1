SPECIFICATION FairSpec
CONSTANTS
  CapPerTick = 1
  QueueCap = 2
  OrderWindow = 2
  WindowBytes = 2
  TickBytes = 1
  OrderSizes = {1}
  SharedBudgets = TRUE
  Lead = 1
  MaxIssued = 3
  MaxBreaks = 1
INVARIANTS TypeOK InOrder WindowCovers NothingLeaks Roomy NeverMalformed
PROPERTY Settles
CHECK_DEADLOCK FALSE
