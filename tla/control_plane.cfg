SPECIFICATION ControlSpec
CONSTANTS
  ann = ann
  bob = bob
  Drivers = {d1, d2}
  Items = {i1}
  Requests = {q1}
  Names = {ann, bob}
  Approvers = {ann}
  RoleOf <- Assigned
  NoItem = NoItem
  NoPending = NoPending
  NoDecision = NoDecision
  Nothing = Nothing
  NoOne = NoOne
  NoCall = NoCall
  Mode = "black_box"
  UseLLM = FALSE
  MaxActions = 2
  MaxSteps = 1
  MaxFaults = 1
  MaxOverlaps = 0
  MaxCalls <- Bounds
CHECK_DEADLOCK FALSE
INVARIANTS
  ActsOnRecord
PROPERTIES
  DriverStops
  SignOffCompletes
