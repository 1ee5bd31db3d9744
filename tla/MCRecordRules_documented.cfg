SPECIFICATION Spec
CONSTANTS
  first = first
  second = second
  isA = isA
  isB = isB
  textA = textA
  lenA = lenA
  bad = bad
  Callers = {first, second}
  Sources = {isA, isB, textA, lenA, bad}
  Names = {"a", "b", "len", "$ID"}
  FreeNames <- NamesIn
  Malformed = {bad}
  Builtins = {"len"}
  NoProgram = NoProgram
  Reserved = {"$ID"}
  IdField = "$ID"
  NoSource = NoSource
  Unset = Unset
  Key <- Text
  Evaluate <- Starlark
  Types = {"string", "int", "float", "bool", "temporal", "l10n", "map", "any", "[]string", "[]int", "[]float", "[]bool", "[]temporal", "[]any", "unknown"}
  Values <- SomeValues
  Cases <- DisputedCases
INVARIANT RecordsAreJudgedAsDocumented
CHECK_DEADLOCK FALSE
