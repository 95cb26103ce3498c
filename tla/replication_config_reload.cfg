SPECIFICATION Spec
CONSTANTS
  Workers = {w1}
  Keys = {k1}
  Values = {a}
  Absent = Absent
  NoDelta = NoDelta
  Nobody = Nobody
  DeltaRetention = 2
  MaxVersion = 3
  MaxExits = 1
  MaxReloads = 1
INVARIANTS DeltaSinceIsComplete
PROPERTIES ImplementsAbstract
