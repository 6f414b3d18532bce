SPECIFICATION FairSpec
CONSTANTS
  s1 = s1
  s2 = s2
  None = None
  Sessions <- MCSessions
  Acceptors = {"unix", "inet"}
  Queued = {"pkt"}
  MaxRing = 2
  MaxPending = 2
  MaxQueued = 1
  Limit = 2
  MinSizes = {0, 2}
  MaxEvents = 3
  Scenes <- MCScenes
INVARIANTS WireOrder LossAccounted BudgetKept
PROPERTIES SessionsEnd
CHECK_DEADLOCK FALSE
