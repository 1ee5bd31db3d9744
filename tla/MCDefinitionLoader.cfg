SPECIFICATION Spec
CONSTANTS
  a = a
  b = b
  x = x
  y = y
  dangling = dangling
  Dirs = {1, 2, 3, 4}
  Parent <- DirTree
  Place <- Places
  Root <- Base
  Home <- User
  Tilde = "~"
  Wild <- Stars
  Missing = Missing
  Unreadable = Unreadable
  NoBytes = NoBytes
  Bases = {a, b}
  NoFile = NoFile
  Absent = Absent
  Garbage = Garbage
  Inherited = {"column"}
  OwnFields = {"bound"}
  Required = {"column"}
  Values = {x, y, dangling}
  Unset = Unset
  Dangling = {dangling}
  Cases <- AllCases
INVARIANTS
  TypeOK
  LoadedIsNearestWins
  LoadIsSound
  ImportsAreExact
PROPERTY LoadEnds
CHECK_DEADLOCK FALSE
