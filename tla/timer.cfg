SPECIFICATION FairSpec
CONSTANTS
  Tasks = {x1, x2, x3}
  Small = 2
  MaxTick = 3
  MaxNow = 1
INVARIANT NoPanic
INVARIANT ExecutedOnce
PROPERTY KeepsTime
PROPERTY EveryTickLeaves
CHECK_DEADLOCK FALSE
