SPECIFICATION Spec
CONSTANTS
  Row = {r1, r2}
  RowsPerPage = 2
  Capacity = 2
  MaxSize = 6
INVARIANTS
  TypeOK
  SlotsDense
  PoolBounded
  PoolCurrent
PROPERTIES
  RefinesRowStore
