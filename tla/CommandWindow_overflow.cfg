SPECIFICATION Spec
CONSTANTS
  CapPerTick = 1
  QueueCap = 2
  OrderWindow = 2
  WindowBytes = 2
  TickBytes = 1
  OrderSizes = {1}
  SharedBudgets = FALSE
  Lead = 1
  MaxIssued = 4
  MaxBreaks = 1
INVARIANT NeverOverflows
CHECK_DEADLOCK FALSE
