SPECIFICATION Spec
CONSTANTS
  Width = 2
  Labels = {"corp", "app", "org"}
  Names <- NamesHere
  Items = {"acct", "src/app.corp"}
  Paths = {"/billing/x.corp"}
  NoPath = NoPath
  Globs <- GlobsHere
  AfterDot <- AfterDotHere
  Days = {"Mon", "Sun"}
  DayLength = 3
  Requests <- RequestsHere
  Files <- FilesHere
  Reported <- ReportedHere
  NoRoe = NoRoe
INVARIANTS
  PassedIsAuthorised
  OwnTargetsPass
