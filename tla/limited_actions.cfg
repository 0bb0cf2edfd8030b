SPECIFICATION Spec
CONSTANTS
  Calls = {c1, c2, c3, c4}
  Targets = {t1, t2}
  Token = 2
  Refill = 1
  Second = 4
  MaxConcurrency = 2
  MaxTotalActions = 3
  NoBucket = NoBucket
  MaxClock = 3
SYMMETRY Symmetry
CHECK_DEADLOCK FALSE
INVARIANTS
  TypeOK
  BudgetRespected
  SlotAccounting
  ConcurrencyBoundedByFailures
  RequestRateInOrder
