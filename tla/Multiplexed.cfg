CONSTANTS
  FDs = {5}
  Ids = {1, 2}
  Objs = {o1, o2}
  Interface = interface
  Nobody = nobody
  Records <- ServiceRecords
  MaxConnections = 1
  MaxRequests = 2
  MaxId = 2
  PipeCapacity = 2
  BufferUnits = 2
  MaxConnects = 2
  MaxRecords = 4
  MaxInterfaces = 1
  Overloads = {}
  Faults = {"write"}
SPECIFICATION Spec
INVARIANTS
  WriterOnOpenSocket
  NothingAfterTornRecord
  NoLostWakeup
  AssignedRequestsHaveOwner
PROPERTIES
  AssignedRemovedByOwner
  ImplementsRequestService
SYMMETRY Symmetry
CHECK_DEADLOCK FALSE
