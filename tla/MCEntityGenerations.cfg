SPECIFICATION GSpec
CONSTANTS
  IndexMask = 4
  GenMod = 3
  Sentinel = 99
  Null = Null
  Tables = {t1}
  Rows = {0, 1}
  InitialCapacity = 0
  MaxReserve = 3
INVARIANTS TypeOK FreeListExact CountExact HeldIdsCurrent StaleIdsRejected
PROPERTIES PoolSpec
