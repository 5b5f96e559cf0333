SPECIFICATION FairSpec
CONSTANTS
  Dist <- XorDist
  Ids = {1, 2, 3}
  Keys = {0}
  Short = {3}
  None = None
  Mangled = Mangled
  MaxChanges = 3
INVARIANT Nearer
INVARIANT AccurateOwn
PROPERTY NearestHandles
PROPERTY SettlesAmongSupers
CHECK_DEADLOCK FALSE
