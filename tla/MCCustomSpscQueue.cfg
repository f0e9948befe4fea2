SPECIFICATION FairSpec
CONSTANTS
  Elem = {p1, p2}
  nullptr = nullptr
  N = 8
  IdxMod = 16
INVARIANTS TypeOK Contiguous NoLostUpdate HintsHold
PROPERTIES ImplementsFifo FullQueueDrains
