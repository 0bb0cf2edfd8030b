SPECIFICATION FairSpec
CONSTANTS
  t1 = t1
  r1 = r1
  Calls = {c1, c2}
  Targets = {t1}
  Token = 1
  Refill = 1
  Second = 1
  MaxConcurrency = 1
  MaxTotalActions = 1
  NoBucket = NoBucket
  Operators = {op1}
  MaxResets = 0
  Requests = {r1}
  Names = {alice, mallory}
  Approvers = {alice}
  NoOne = NoOne
  Invocations <- AllInvocations
  Flags <- MCFlags
  Lower <- MCLower
  Forbidden = {"--risk"}
  Destructive = {"--dump"}
  Window = {0}
  MaxClock = 0
  MaxLost = 1
CHECK_DEADLOCK FALSE
INVARIANTS
  TypeOK
  TrailMatchesCall
  ActiveRunsWereApproved
PROPERTY
  EveryCallEnds
