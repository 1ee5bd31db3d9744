SPECIFICATION Spec
CONSTANTS
  a = a
  b = b
  Collections = {1, 2, 3, 4, 5}
  NoCollection = NoCollection
  DirPaths = {1, 2, 3, 4}
  Columns = {a, b}
  Locales = {"en", "lt", "lv"}
  Rows = {1, 2}
  Unordered = Unordered
  Definitions <- HiddenOrder
  Patterns <- OneCollection
  MaxUpdates = 2
  MaxEdits = 0
  MaxFaults = 0
INVARIANT ReadmesAreStable
CHECK_DEADLOCK FALSE
