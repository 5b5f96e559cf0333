SPECIFICATION FairSpec
CONSTANTS
  Users = {u1, u2}
  None = None
  Wait = 2
  MaxOpen = 2
  MaxCodes = 3
INVARIANT RememberedWorks
INVARIANT SentHashedOnce
PROPERTY CountdownEnds
CHECK_DEADLOCK FALSE
