SPECIFICATION Spec
CONSTANTS
  Drivers = {d1}
  Items = {i1, i2}
  Requests = {q1, q2}
  Names = {ann, bob}
  Approvers = {ann}
  NoItem = NoItem
  NoPending = NoPending
  NoDecision = NoDecision
  Nothing = Nothing
  NoOne = NoOne
  Mode = "black_box"
  UseLLM = TRUE
  MaxActions = 1
  MaxSteps = 1
  MaxFaults = 1
  MaxOverlaps = 0
CHECK_DEADLOCK FALSE
SYMMETRY Symmetry
INVARIANTS
  TypeOK
  RunsSignedOff
  HistoryRightWithoutFaults
