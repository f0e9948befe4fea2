SPECIFICATION Spec
CONSTANTS
  Packet = {p1, p2, p3}
  nullptr = nullptr
  N = 3
  QueueCap = 1
  MaxRecv = 4
INVARIANTS TypeOK OneOwner ParsedInOrder
SYMMETRY Symmetry
CHECK_DEADLOCK FALSE
