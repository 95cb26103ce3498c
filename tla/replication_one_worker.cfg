SPECIFICATION FairSpec
CONSTANTS
  Workers = {w1}
  Keys = {k1, k2}
  Values = {a}
  Absent = Absent
  NoDelta = NoDelta
  Nobody = Nobody
  DeltaRetention = 1
  MaxVersion = 3
  MaxExits = 1
  MaxReloads = 0
INVARIANT Coherent
PROPERTIES EventuallyCaughtUp ServedVersionsGrow
