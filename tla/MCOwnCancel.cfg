SPECIFICATION Spec
CONSTANTS
  Flows = {"NASDAQ"}
  Slots = {s1}
  nullptr = nullptr
  FreeCaps = {1}
  MaxOrders = 2
  Quantities = {1}
  MaxCancels = 2
  MaxWire = 2
  AwaitCap = 2
  QtyMod = 8
INVARIANT CancelNamesItsOrder
CHECK_DEADLOCK FALSE
