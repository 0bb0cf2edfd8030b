SPECIFICATION Spec
CONSTANTS
  c1 = c1
  c2 = c2
  c3 = c3
  nuclei = nuclei
  nikto = nikto
  Cycles = {c1, c2, c3}
  Keys = {"k1"}
  Verdicts = {"DETECTED", "MISSED"}
  Tools = {nuclei, nikto}
  Weaknesses = {"w1"}
  Limit = 2
  NoBaseline = NoBaseline
  Empty = Empty
  Torn = Torn
CHECK_DEADLOCK FALSE
SYMMETRY Symmetry
INVARIANTS
  TypeOK
  CyclesChain
  DiffTellsChanges
PROPERTIES
  AppendOnlyAlone
