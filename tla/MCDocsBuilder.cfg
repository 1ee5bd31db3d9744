SPECIFICATION Spec
CONSTANTS
  a = a
  b = b
  Collections = {1, 2, 3, 4, 5}
  NoCollection = NoCollection
  DirPaths = {1, 2, 3, 4}
  Columns = {a, b}
  Locales = {"en", "lt", "lv"}
  Rows = {1, 2}
  Unordered = Unordered
  Definitions <- Databases
  Patterns <- AllPatterns
  MaxUpdates = 2
  MaxEdits = 1
  MaxFaults = 1
INVARIANTS
  TypeOK
  EachTargetOnce
  CleanUpdateIsCurrent
  SecondUpdateIsNoOp
  ConflictsAreResolved
PROPERTY UpdateEnds
CHECK_DEADLOCK FALSE
