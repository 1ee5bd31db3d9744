SPECIFICATION Spec
CONSTANTS
  f = f
  g = g
  x = x
  y = y
  none = none
  Keys = {1, 2}
  Fields <- MCFields
  Values <- MCValues
  NoValue = none
  NoRecord = NoRecord
  NoKey = 0
  NilKey = 3
  Cases <- AllCases
INVARIANTS
  TypeOK
  ResultInDocumentedOrder
  SidesAreInterchangeable
  NoSpliceWhenOptedOut
PROPERTY ImplementsThreeWayMerge
CHECK_DEADLOCK FALSE
