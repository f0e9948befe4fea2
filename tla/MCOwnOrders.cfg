SPECIFICATION Spec
CONSTANTS
  Flows = {"FIX", "BIST", "NASDAQ"}
  Slots = {s1, s2}
  nullptr = nullptr
  FreeCaps = {1, 2}
  MaxOrders = 2
  Quantities = {2}
  MaxCancels = 2
  MaxWire = 2
  AwaitCap = 2
  QtyMod = 8
INVARIANTS SlotOwnedOnce KeysLeadHome StoreFollowsExchange
CHECK_DEADLOCK FALSE
