SPECIFICATION FairSpec
CONSTANTS
  None = None
  Callers = {c1, c2, c3}
  Conns = {x1, x2, x3}
  MaxSize = 2
  MaxIdle = 2
  Threshold = 2
INVARIANTS PoolBound ActiveExact OneUser
PROPERTIES OpenUntilCooled ClosedPoolDrains
CHECK_DEADLOCK FALSE
