SPECIFICATION FairSpec
CONSTANTS
  Arrays <- MCArrays
  MaxWrites = 2
INVARIANTS
  FlagExact
PROPERTIES
  ImplementsRecordChannel
  WritesEnd
CHECK_DEADLOCK FALSE
