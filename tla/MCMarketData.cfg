SPECIFICATION Spec
CONSTANTS
  Venues = {"BIST", "NASDAQ"}
  Kinds = {"Exec", "ExecWithPrice", "Cancel", "Delete", "Replace", "Flush"}
  Ids = {1, 2, 3}
  Prices = {10, 11}
  MaxOrders = 3
  MaxQty = 2
  QtyMod = 16
  MARKETORDER_LAST_INDEX = 2
INVARIANTS TypeOK OwnSlot BestMatchesBook BookMatchesMarket
CHECK_DEADLOCK FALSE
