SPECIFICATION FairSpec
CONSTANTS
  Children = {c1, c2, c3}
  NoChild = none
  AutoUpdate = TRUE
  MaxRevision = 1
  MaxFailures = 2
PROPERTIES OutageEnds
CHECK_DEADLOCK FALSE
