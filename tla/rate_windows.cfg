SPECIFICATION Spec
CONSTANTS
  Caller = {c1, c2}
  Key = {k1, k2}
  Limit = 1
  Window = 1
  Resolution = 2
  Backend = {"memory", "redis"}
  MaxDelay = 2
  MaxTime = 4
  MaxCount = 2
SYMMETRY Symmetry
\* The clock stops at MaxTime.
CHECK_DEADLOCK FALSE
INVARIANTS
  TypeOK
  WithinBudget
  RefusedOnlyWhenSpent
