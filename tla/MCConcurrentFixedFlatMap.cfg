SPECIFICATION Spec
CONSTANTS
  k1 = k1
  k2 = k2
  k3 = k3
  none = none
  Key <- MCKey
  Hash <- MCHash
  N = 4
  SizeMod = 8
INVARIANTS TypeOK ReaderSeesWholeEntries NoFalseMiss InsertFindsSlot
