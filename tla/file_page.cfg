SPECIFICATION Spec
CONSTANTS
  Files = {f1}
  Dirs = {}
  NewFiles = {n1}
  NewDirs = {m1}
  Root = Root
  None = None
  Slots = {1, 2}
  MaxClicks = 4
INVARIANT TableMatches
INVARIANT ButtonsMatch
INVARIANT AnonymousShowsLocal
INVARIANT UploadsLand
PROPERTY KillsFit
CHECK_DEADLOCK FALSE
