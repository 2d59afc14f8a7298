CONSTANTS
  FDs = {5}
  Ids = {1}
  Objs = {o1, o2}
  Interface = interface
  Nobody = nobody
  Records <- OneIdRecords
  MaxConnections = 1
  MaxRequests = 1
  MaxId = 2
  PipeCapacity = 2
  BufferUnits = 2
  MaxConnects = 1
  MaxRecords = 4
  MaxInterfaces = 1
  Overloads = {}
  Faults = {}
SPECIFICATION Spec
INVARIANTS
  ScheduledWriteMutexFree
SYMMETRY Symmetry
CHECK_DEADLOCK FALSE
