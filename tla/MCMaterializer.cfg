SPECIFICATION Spec
CONSTANTS
  Ids = {1, 2, 3}
  FieldValues = {1, 2}
  NoValue = NoValue
  NoRecord = NoRecord
  NoFile = NoFile
  Torn = Torn
  Setups <- DirectoryAndMap
  MaxEdits = 1
  MaxFaults = 1
INVARIANTS
  TypeOK
  ResultAddsUp
  CleanBuildIsCurrent
  RebuildIsNoOp
PROPERTY BuildEnds
CHECK_DEADLOCK FALSE
