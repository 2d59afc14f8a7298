SPECIFICATION Spec
CONSTANTS
  Fds = {1, 2, 3}
  Ids = {1, 2}
  Records <- MCRecords
  MaxConnects = 3
  MaxSends <- MCMaxSends
  MaxRecords = 4
INVARIANTS
  MapsAgree
  ReadyTracked
  RecordInStep
PROPERTY
  ClosureNoticed
