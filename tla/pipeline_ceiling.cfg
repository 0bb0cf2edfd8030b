SPECIFICATION Spec
CONSTANTS
  t1 = t1
  r1 = r1
  Calls = {c1, c2, c3}
  Targets = {t1}
  Token = 1
  Refill = 1
  Second = 3
  MaxConcurrency = 1
  MaxTotalActions = 3
  NoBucket = NoBucket
  Operators = {op1}
  MaxResets = 1
  Requests = {}
  Names = {}
  Approvers = {}
  NoOne = NoOne
  Invocations <- PassiveInvocations
  Flags <- MCFlags
  Lower <- MCLower
  Forbidden = {"--risk"}
  Destructive = {"--dump"}
  Window = {0, 1}
  MaxClock = 1
  MaxLost = 0
CHECK_DEADLOCK FALSE
INVARIANT
  ConcurrencyCeiling
