SPECIFICATION Spec
CONSTANTS
  Tasks = {x1, x2, x3}
  Small = 2
  MaxTick = 3
  MaxNow = 3
INVARIANT Timely
CHECK_DEADLOCK FALSE
