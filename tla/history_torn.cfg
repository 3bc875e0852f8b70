\* A finished record glued to a torn line.
SPECIFICATION LogSpec
CONSTANTS
  w1 = w1  w2 = w2
  Writer = {w1}
  MaxAppends = 2
INVARIANT FinishedListed
CHECK_DEADLOCK FALSE
