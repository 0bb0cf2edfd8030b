SPECIFICATION FairSpec
CONSTANTS
  Jobs = {j1, j2, j3}
  Workers = {w1, w2}
  MaxApprovals = 1
  NoJob = NoJob
  MaxReports = 1
CHECK_DEADLOCK FALSE
INVARIANTS
  TypeOK
  OnePlace
  ReportWithStatus
PROPERTIES
  StatusFlows
  EveryJobEnds
