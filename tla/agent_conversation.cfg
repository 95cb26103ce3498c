SPECIFICATION FairSpec
CONSTANTS
  Flows = {f1, f2}
  Nothing = Nothing
  MaxMessages = 2
  MaxCode = 1
  MaxClicks = 1
  MaxFaults = 1
  Overlap = FALSE
CHECK_DEADLOCK FALSE
INVARIANTS OneAtATime MessagesKept AskedOnce StoredWhenQuiet
PROPERTIES QueuedAfterOutput SeriesDrainsQueue StopIsAnswered
