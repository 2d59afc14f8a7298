CONSTANTS
  FDs = {5}
  Ids = {1}
  Objs = {o1, o2}
  Interface = interface
  Nobody = nobody
  Records <- OneIdRecords
  MaxConnections = 1
  MaxRequests = 1
  MaxId = 2
  PipeCapacity = 2
  BufferUnits = 2
  MaxConnects = 2
  MaxRecords = 4
  MaxInterfaces = 3
  Overloads = {}
  Faults = {"write"}
SPECIFICATION Spec
PROPERTIES
  StaleRequestsHarmless
SYMMETRY Symmetry
CHECK_DEADLOCK FALSE
