SPECIFICATION FairSpec
CONSTANTS
  max_size = 4
  SizeMod = 16
  Vals = {a, b}
  Raw = Raw
  MaxBatch = 4
INVARIANTS SlotsDisjoint LiveExactly
PROPERTIES ImplementsFifo Drains
