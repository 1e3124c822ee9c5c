SPECIFICATION Spec
CONSTANTS
  Calls = {c1, c2, c3}
  Estimates = {2, 3}
  Uses = {1, 4}
  Limit = 5
  Days = 2
INVARIANTS
  TypeOK
  MeterIsExact
  WithinBudget
\* When every call is made, there is nothing left to do.
CHECK_DEADLOCK FALSE
