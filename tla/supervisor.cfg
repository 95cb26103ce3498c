SPECIFICATION FairSpec
CONSTANTS
  Children = {c1, c2, c3, c4}
  NoChild = none
  AutoUpdate = TRUE
  MaxRevision = 1
  MaxFailures = 3
INVARIANTS ActiveServes NoChildLost
PROPERTIES RestartsSucceed UpdateArrives
CHECK_DEADLOCK FALSE
