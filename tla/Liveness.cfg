CONSTANTS
  FDs = {5}
  Ids = {1}
  Objs = {o1, o2}
  Interface = interface
  Nobody = nobody
  Records <- ServedRecords
  MaxConnections = 1
  MaxRequests = 1
  MaxId = 2
  PipeCapacity = 2
  BufferUnits = 2
  MaxConnects = 1
  MaxRecords = 3
  MaxInterfaces = 1
  Overloads = {}
  Faults = {"write"}
SPECIFICATION FairSpec
PROPERTIES
  ScheduledIsClosed
  CallsReturn
  CorruptIsClosed
  IdleDummiesClosed
CHECK_DEADLOCK FALSE
