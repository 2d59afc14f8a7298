CONSTANTS
  FDs = {5}
  Ids = {1, 2}
  Objs = {o1, o2}
  Interface = interface
  Nobody = nobody
  Records <- AnyRecords
  MaxConnections = 1
  MaxRequests = 1
  MaxId = 2
  PipeCapacity = 1
  BufferUnits = 2
  MaxConnects = 1
  MaxRecords = 4
  MaxInterfaces = 1
  Overloads = {TRUE}
  Faults = {"read", "write", "accept"}
SPECIFICATION Spec
INVARIANTS
  TypeOK
  CollectedRequestsValid
  RequestCountsExact
PROPERTIES
  CompleteRequestsFrozen
  CorruptOnlyUnderWriter
SYMMETRY Symmetry
CHECK_DEADLOCK FALSE
