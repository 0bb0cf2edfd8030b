SPECIFICATION Spec
CONSTANTS
  Drivers = {d1, d2}
  Items = {i1, i2}
  Requests = {q1}
  Names = {ann, bob}
  Approvers = {ann}
  NoItem = NoItem
  NoPending = NoPending
  NoDecision = NoDecision
  Nothing = Nothing
  NoOne = NoOne
  Mode = "black_box"
  UseLLM = FALSE
  MaxActions = 3
  MaxSteps = 1
  MaxFaults = 0
  MaxOverlaps = 2
CHECK_DEADLOCK FALSE
SYMMETRY Symmetry
INVARIANTS
  PendingMatchesRequest
  PhasesRunOnce
