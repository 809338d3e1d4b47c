\* Every script, two invocations, two kills.
SPECIFICATION Spec
CONSTANTS
  Invocation = {i1, i2}
  MaxCrash = 2
  Turn <- MCTurn
  Expected <- MCExpected
  Catalog <- MCCatalog
  Worst = 1
  Bounds = {1, 2}
  Cap = 2
  MaxEdit = 1
\* A script that has its evidence files stops.
CHECK_DEADLOCK FALSE
INVARIANTS
  PaidOnce
  TraceBacked
  CostWithinCap
