SPECIFICATION Spec
CONSTANTS
  Flows = {"FIX", "BIST", "NASDAQ"}
  Orders = {o1, o2}
  nullptr = nullptr
  Entries <- MCEntries
  Prices = {1, 2}
  Quotes <- MCQuotes
  Lim <- MCLim
  Balance = 20
  Slots = {s1, s2}
  QueueCap = 2
  CntMod = 8
  Bounds <- MCBounds
  MaxQuotes = 1
INVARIANTS TypeOK  OpenOrdersMatch  LevelGuarded
SYMMETRY Symmetry
CHECK_DEADLOCK FALSE
