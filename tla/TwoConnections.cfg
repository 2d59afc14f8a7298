CONSTANTS
  FDs = {5, 6}
  Ids = {1}
  Objs = {o1, o2}
  Interface = interface
  Nobody = nobody
  Records <- OneIdRecords
  MaxConnections = 2
  MaxRequests = 1
  MaxId = 2
  PipeCapacity = 2
  BufferUnits = 2
  MaxConnects = 2
  MaxRecords = 4
  MaxInterfaces = 1
  Overloads = {}
  Faults = {}
SPECIFICATION Spec
INVARIANTS
  DummiesNotScheduled
  LiveRequestsKeepDescriptor
PROPERTIES
  ForeignDescriptorsKept
SYMMETRY Symmetry
CHECK_DEADLOCK FALSE
