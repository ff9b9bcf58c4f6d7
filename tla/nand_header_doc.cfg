SPECIFICATION GatesSpec
CONSTANTS
  NVars = 2
  MaxOps = 2
INVARIANT PredicatesKeepTheHeader
CHECK_DEADLOCK FALSE
