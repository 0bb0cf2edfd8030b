SPECIFICATION Spec
CONSTANTS
  first = first
  second = second
  a1 = a1
  a2 = a2
  b1 = b1
  Processes = {first, second}
  Threads = {a1, a2, b1}
  ProcessOf <- Owner
  proposed = proposed
  denied = denied
  Payloads = {proposed, denied}
  Genesis <- GenesisTriple
  Hash <- HashTriple
  NoThread = NoThread
  MaxEvents = 3
SYMMETRY Symmetry
CHECK_DEADLOCK FALSE
INVARIANTS
  TypeOK
  MemoryChained
  DiskFollowsMemory
  SoleWriterIntact
  TamperDetected
