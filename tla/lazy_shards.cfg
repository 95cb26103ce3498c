SPECIFICATION Spec
CONSTANTS
  Workers = {w1}
  Users = {u}
  Files = {f, g}
  Readers = {w1}
  Writers = {w1}
  MaxWrites = 1
  MaxForeign = 1
  MaxScans = 2
  MaxReloads = 1
CHECK_DEADLOCK FALSE
INVARIANTS ShardsAreTrue IndexTracksDisk WritersSeeTheirWrites
