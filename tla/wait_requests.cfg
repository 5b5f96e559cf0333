SPECIFICATION FairSpec
CONSTANTS
  Requests <- MCRequests
  ClassOf <- MCClassOf
  r1 = r1
  r2 = r2
  r3 = r3
  Classes = {"getBlockHead", "getTransaction"}
  None = None
  Nil = Nil
  MaxReplies = 2
INVARIANT WaitersReachable
PROPERTY Promise
PROPERTY EveryRequestEnds
CHECK_DEADLOCK FALSE
