SPECIFICATION Spec
CONSTANTS
  Keys = {1, 2}
  NoKey = 0
  Collections <- Paths
  NoModule = 0
  NoRef = NoRef
  NoRecord = NoRecord
  Garbage = Garbage
  Broken = Broken
  Cases <- AllCases
  Layouts <- RecordLayouts
  ForeignKeys <- RefersTo
  MinRecords <- AtLeast
  MaxRecords <- AtMost
INVARIANTS
  TypeOK
  CountsMatchFindings
  FindingsAreExact
PROPERTY ValidationEnds
CHECK_DEADLOCK FALSE
