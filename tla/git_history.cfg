SPECIFICATION FairSpec
CONSTANTS
  Owners = {a, b}
  Watched = a
  Requests = {r1}
  Nobody = nobody
  Base = 3
  Long = 2
  Extended = 1
  LongAfter = 1
  ExtendedAfter = 2
  ImmediateAfter = 3
  MaxQueue = 2
  MaxFaults = 1
INVARIANTS
  WaitIsBounded
  WritesStayReachable
  UncommittedIsScheduled
  AuthFilesStay
  FlushedAtClose
PROPERTIES
  EventuallyCommitted
CHECK_DEADLOCK FALSE
