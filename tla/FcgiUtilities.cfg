SPECIFICATION FairSpec
CONSTANTS
  Byte = 64
  Sources <- MCSources
  Callers = {"PARAMS", "GET_VALUES"}
  Known <- MCKnown
  MaxConnections = 120
  MaxRequests = 10
  PairLists <- MCPairLists
  Limits <- MCLimits
  SizeMax = 8390000
  RecordMax = 8
  Lengths <- MCLengths
  Systems <- MCSystems
  PartitionSizeMax = 130
  MaxContent = 16
  Sendings <- MCSendings
  BufferSize = 5
INVARIANTS
  ExtractExact
  EnvironmentExact
  AnswerExact
  EncodeTypeOK
  EncodeExact
  PartitionExact
  FramingExact
PROPERTY LoopsEnd
CHECK_DEADLOCK FALSE
