SPECIFICATION Spec
CONSTANTS
  Processes = {w1, w2}
  Files = {a, m, g}
  Folder = {a, m}
  Auth = {m}
  Limit = 3
  MaxSize = 2
  MaxBatch = 2
  MaxChanges = 3
  MaxClusterChanges = 2
  MaxFaults = 1
SYMMETRY Symmetry
INVARIANTS
  TypeOK
  CacheIsExact
  CachesSettle
  MovesReplaceNothing
PROPERTIES
  LimitHolds
CHECK_DEADLOCK FALSE
