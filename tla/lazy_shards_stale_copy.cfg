SPECIFICATION Spec
CONSTANTS
  Workers = {w1, w2}
  Users = {u}
  Files = {f}
  Readers = {w1}
  Writers = {w2}
  MaxWrites = 1
  MaxForeign = 1
  MaxScans = 1
  MaxReloads = 0
CHECK_DEADLOCK FALSE
INVARIANTS CurrentMeansFresh
