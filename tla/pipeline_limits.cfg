SPECIFICATION Spec
CONSTANTS
  t1 = t1
  r1 = r1
  Calls = {c1, c2, c3}
  Targets = {t1}
  Token = 1
  Refill = 1
  Second = 2
  MaxConcurrency = 1
  MaxTotalActions = 2
  NoBucket = NoBucket
  Operators = {op1}
  MaxResets = 1
  Requests = {}
  Names = {}
  Approvers = {}
  NoOne = NoOne
  Invocations <- PassiveInvocations
  Flags <- MCFlags
  Lower <- MCLower
  Forbidden = {"--risk"}
  Destructive = {"--dump"}
  Window = {0}
  MaxClock = 1
  MaxLost = 1
SYMMETRY Symmetry
CHECK_DEADLOCK FALSE
PROPERTIES
  LimiterSpec
  KillStopsNewCalls
  RevocationStopsRunner
