SPECIFICATION Spec
CONSTANT
  MaxId = 7
INVARIANTS
  TypeOK
  IntervalsMinimal
  SizeExact
PROPERTY
  ImplementsIdSet
