---------------------------- MODULE RecordRules ----------------------------
(***************************************************************************)
(* What the columns of a collection ask of one record: the expressions are *)
(* resolved when the definition is loaded (CollectionDef.Validate,         *)
(* column_formula.go), the values judged when a record is validated        *)
(* (validateRecordData).  Each goroutine loads one collection and          *)
(* validates one record of it; all of them share the cache of compiled     *)
(* formulas.  Columns are visited in the random order of a Go map.         *)
(***************************************************************************)
EXTENDS Integers, Sequences, FiniteSets, FormulaCache

CONSTANTS Reserved,   \* names that start with "$": the library's own
          IdField,    \* "$ID": the record's key
          NoSource,   \* the column has no such expression
          Unset,      \* the column declares no such bound
          Key,        \* the value that a record's key stands for
          Evaluate(_, _), \* what Starlark makes of a source under bindings:
                      \* "true", "false", "other" or "failure"
          Types,      \* types that columns are declared with
          Values,     \* values of fields, without nil
          Cases       \* by active caller: a collection, a record, is its key known?

Nil == [kind |-> "nil", n |-> 0, items |-> <<>>]

\* what a parser makes of a field: n counts the halves of a number and the
\* characters of a string; items are the elements of a list, the values of a
\* map, no list or map themselves
Kinds == {"bool", "string", "int", "uint", "float", "time", "list", "map"}

\* the types that ValidateColumnType accepts: dates and times are temporal, and
\* every map but that of locales to strings is a map
PlainTypes == {"string", "int", "float", "bool", "temporal", "l10n", "map", "any"}
ElementType == [list \in {"[]string", "[]int", "[]float", "[]bool", "[]temporal", "[]any"} |->
  CASE list = "[]string" -> "string" [] list = "[]int" -> "int" [] list = "[]float" -> "float"
    [] list = "[]bool" -> "bool" [] list = "[]temporal" -> "temporal" [] list = "[]any" -> "any"]
ListTypes == DOMAIN ElementType
Bounds == Int \cup {Unset}
Columns == [type : Types, formula : Sources \cup {NoSource}, required : BOOLEAN,
            when : Sources \cup {NoSource}, enum : SUBSET Values,
            minValue : Bounds, maxValue : Bounds,
            length : Bounds, minLength : Bounds, maxLength : Bounds]

ASSUME NameAssumption  == IdField \in Reserved /\ Reserved \subseteq Names
ASSUME TypeAssumption  == Types \subseteq PlainTypes \cup ListTypes \cup {"unknown"}
ASSUME ValueAssumption ==
  /\ Key \in Values
  /\ \A v \in Values : /\ v.kind \in Kinds /\ v.n \in Int
                       /\ v.kind \in {"int", "uint"} => v.n % 2 = 0
                       /\ \A i \in DOMAIN v.items : /\ v.items[i] \in Values \cup {Nil}
                                                    /\ v.items[i].items = <<>>
ASSUME SourceAssumption == NoSource \notin Sources

\* a collection, a record of it, and is the record's key known?
IsTask(task) ==
  /\ DOMAIN task.columns \cup DOMAIN task.record \subseteq Names
  /\ \A x \in DOMAIN task.columns : task.columns[x] \in Columns
  /\ \A x \in DOMAIN task.record : task.record[x] \in Values \cup {Nil}
  /\ task.keyed \in BOOLEAN
ASSUME CaseAssumption ==
  \A t \in Cases : DOMAIN t \subseteq Callers /\ \A c \in DOMAIN t : IsTask(t[c])

VARIABLES tasks,   \* by caller: the collection, the record, is its key known?
          work     \* by caller: how far it got, what is left, what it found

vars == <<tasks, work, cache, calls>>

Active == DOMAIN tasks

-----------------------------------------------------------------------------
(* One value against one column. *)

\* isIntegerValue, isNumberValue, isTemporalValue, isStringMap, isMapValue
HasPlainType(v, type) ==
  CASE type = "any"      -> TRUE
    [] type = "int"      -> v.kind \in {"int", "uint"} \/ (v.kind = "float" /\ v.n % 2 = 0)
    [] type = "float"    -> v.kind \in {"int", "uint", "float"}
    [] type = "temporal" -> v.kind \in {"string", "time"}
    [] type = "l10n"     -> v.kind = "map" /\ \A i \in DOMAIN v.items : v.items[i].kind = "string"
    [] OTHER             -> v.kind = type

\* bug: only the list itself is looked at
MatchesOuterType(v, type) ==
  IF type \in ListTypes THEN v.kind = "list" ELSE HasPlainType(v, type)

MatchesType(v, type) ==
  IF type \in ListTypes
  THEN v.kind = "list" /\ \A i \in DOMAIN v.items : HasPlainType(v.items[i], ElementType[type])
  ELSE HasPlainType(v, type)

\* numericValue knows no unsigned integer
IsNumeric(v) == v.kind \in {"int", "float"}
EnumValuesEqual(member, v) ==
  member = v \/ (IsNumeric(member) /\ IsNumeric(v) /\ member.n = v.n)
Permitted(v, enum) == enum = {} \/ \E m \in enum : EnumValuesEqual(m, v)

\* Go's == panics on two lists, and on two maps
Incomparable(v, enum) == v.kind \in {"list", "map"} /\ \E m \in enum : m.kind = v.kind

Within(n, least, most) == (least # Unset => n >= least) /\ (most # Unset => n <= most)
InRange(v, col) == IsNumeric(v) => Within(v.n, col.minValue, col.maxValue)

LengthOf(v) == IF v.kind = "string" THEN v.n ELSE Len(v.items)
HasLength(v) == v.kind \in {"string", "list", "map"}
FitsLength(v, col) ==
  HasLength(v) => /\ Within(LengthOf(v), col.length, col.length)
                  /\ Within(LengthOf(v), col.minLength, col.maxLength)

\* the first rule that a value breaks
Complaints(v, col) ==
  IF ~MatchesType(v, col.type) THEN {"type"}
  ELSE IF ~Permitted(v, col.enum) THEN {"enum"}
  ELSE IF ~InRange(v, col) THEN {"range"}
  ELSE IF ~FitsLength(v, col) THEN {"length"}
  ELSE {}

-----------------------------------------------------------------------------
(* Loading the definition. *)

Task(c) == tasks[c]
Col(c, x) == tasks[c].columns[x]
Stored(columns) == {x \in DOMAIN columns : columns[x].formula = NoSource}

Computable == {"string", "int", "float", "bool", "any"}

\* bug: expressions that the column does not have are resolved too
AllExpressions(col) ==
  <<[part |-> "formula", source |-> col.formula], [part |-> "when", source |-> col.when]>>

\* the expressions of a column, in the order they are resolved
Part(part, source) ==
  IF source = NoSource THEN <<>> ELSE <<[part |-> part, source |-> source]>>
Expressions(col) == Part("formula", col.formula) \o Part("when", col.when)

\* what is wrong with a column before its expression is resolved: a computed
\* column that has the name of a builtin would never be found undefined
Forbidden(part, x, col) ==
  \/ part = "formula" /\ (x \in Builtins \/ col.type \notin Computable)
  \/ part = "when" /\ col.required

Doing(c, step) == work[c].step = step
Continue(c, changed) == work' = [work EXCEPT ![c] = changed] /\ UNCHANGED tasks
Reject(c) == Continue(c, [work[c] EXCEPT !.step = "rejected"])

Init ==
  /\ CacheInit
  /\ tasks \in Cases
  /\ work = [c \in Active |-> [step |-> "define", todo |-> DOMAIN tasks[c].columns,
                                column |-> IdField, exprs |-> <<>>, errors |-> {}]]

DefineColumn(c) ==
  /\ Doing(c, "define")
  /\ work[c].exprs = <<>>
  /\ \E x \in work[c].todo :
       \/ Col(c, x).type = "unknown" /\ Reject(c)
       \/ /\ Col(c, x).type # "unknown"
          /\ Continue(c, [work[c] EXCEPT !.todo = @ \ {x}, !.column = x,
                                         !.exprs = Expressions(Col(c, x))])
  /\ UNCHANGED cacheVars

\* bug: computed siblings may be referred to as well
ResolveAgainstAll(c) ==
  LET expr == Head(work[c].exprs)
  IN /\ Doing(c, "define")
     /\ work[c].exprs # <<>>
     /\ ~Forbidden(expr.part, work[c].column, Col(c, work[c].column))
     /\ Ask(c, [mode |-> "strict", source |-> expr.source, declared |-> DOMAIN Task(c).columns])
     /\ UNCHANGED <<tasks, work>>

ResolveExpression(c) ==
  LET expr == Head(work[c].exprs)
  IN /\ Doing(c, "define")
     /\ work[c].exprs # <<>>
     /\ calls[c] = Idle
     /\ \/ /\ Forbidden(expr.part, work[c].column, Col(c, work[c].column))
           /\ Reject(c)
           /\ UNCHANGED cacheVars
        \/ /\ ~Forbidden(expr.part, work[c].column, Col(c, work[c].column))
           /\ Ask(c, [mode |-> "strict", source |-> expr.source,
                      declared |-> Stored(Task(c).columns)])
           /\ UNCHANGED <<tasks, work>>

\* bug: a rejected definition takes back what it has compiled
TakeOrEvict(c) ==
  /\ Doing(c, "define")
  /\ calls[c].step = "done"
  /\ calls' = [calls EXCEPT ![c] = Idle]
  /\ \/ /\ calls[c].program = NoProgram /\ Reject(c)
        /\ cache' = {e \in cache : e.program.by # c}
     \/ /\ calls[c].program # NoProgram /\ Continue(c, [work[c] EXCEPT !.exprs = Tail(@)])
        /\ UNCHANGED cache

TakeResolution(c) ==
  /\ Doing(c, "define")
  /\ Finish(c)
  /\ \/ calls[c].program = NoProgram /\ Reject(c)
     \/ calls[c].program # NoProgram /\ Continue(c, [work[c] EXCEPT !.exprs = Tail(@)])

-----------------------------------------------------------------------------
(* Validating the record. *)

Error(x, kind) == [field |-> x, kind |-> kind]
Undeclared(task) ==
  {Error(x, "undeclared") : x \in DOMAIN task.record \ (DOMAIN task.columns \cup Reserved)}

StartRecord(c) ==
  /\ Doing(c, "define")
  /\ work[c].todo = {} /\ work[c].exprs = <<>>
  /\ Continue(c, [work[c] EXCEPT !.step = "validate", !.todo = DOMAIN Task(c).columns,
                                 !.errors = Undeclared(Task(c))])
  /\ UNCHANGED cacheVars

\* the value of a field; a record may leave its own key to the file name
ValueOf(task, x) ==
  IF x \in DOMAIN task.record /\ task.record[x] # Nil THEN task.record[x]
  ELSE IF x = IdField /\ task.keyed THEN Key
  ELSE Nil

\* bug: only what the record holds is bound
FieldsOfRecord(task) ==
  [x \in Stored(task.columns) \cap DOMAIN task.record |-> task.record[x]]

\* every stored column is bound, and those that the record omits are None; the
\* key is not bound unless the record holds it
StoredFields(task) ==
  [x \in Stored(task.columns) |-> IF x \in DOMAIN task.record THEN task.record[x] ELSE Nil]

\* a column is judged: what it complains of joins the errors
Judge(c, x, step, complaints) ==
  Continue(c, [work[c] EXCEPT !.step = step, !.todo = @ \ {x}, !.column = x,
                              !.errors = @ \cup {Error(x, k) : k \in complaints}])

CheckComputed(c, x) ==
  /\ Col(c, x).formula # NoSource
  /\ Judge(c, x, "validate", IF x \in DOMAIN Task(c).record THEN {"stored"} ELSE {})
  /\ UNCHANGED cacheVars

CheckValue(c, x) ==
  LET v == ValueOf(Task(c), x)
  IN /\ Col(c, x).formula = NoSource
     /\ v # Nil
     /\ \/ /\ MatchesType(v, Col(c, x).type) /\ Incomparable(v, Col(c, x).enum)
           /\ Continue(c, [work[c] EXCEPT !.step = "panicked"])
        \/ /\ ~(MatchesType(v, Col(c, x).type) /\ Incomparable(v, Col(c, x).enum))
           /\ Judge(c, x, "validate", Complaints(v, Col(c, x)))
     /\ UNCHANGED cacheVars

CheckMissing(c, x) ==
  /\ Col(c, x).formula = NoSource
  /\ ValueOf(Task(c), x) = Nil
  /\ \/ /\ Col(c, x).when = NoSource
        /\ Judge(c, x, "validate", IF Col(c, x).required THEN {"missing"} ELSE {})
        /\ UNCHANGED cacheVars
     \/ /\ Col(c, x).when # NoSource
        /\ Judge(c, x, "evaluate", {})
        /\ Ask(c, [mode |-> "open", source |-> Col(c, x).when,
                   declared |-> DOMAIN StoredFields(Task(c))])

CheckColumn(c) ==
  /\ Doing(c, "validate")
  /\ \E x \in work[c].todo : CheckComputed(c, x) \/ CheckValue(c, x) \/ CheckMissing(c, x)

\* goToStarlark knows no time
Convertible(v) == v.kind # "time" /\ \A i \in DOMAIN v.items : v.items[i].kind # "time"

Outcome(source, fields) ==
  IF \E x \in DOMAIN fields : ~Convertible(fields[x]) THEN {"unconvertible"}
  ELSE IF ~(FreeNames[source] \subseteq DOMAIN fields \cup Builtins) THEN {"unbound"}
  ELSE LET result == Evaluate(source, fields)
       IN CASE result = "true"  -> {"missing"}
            [] result = "false" -> {}
            [] result = "other" -> {"notBoolean"}
            [] OTHER            -> {"failed"}

EvaluateCondition(c) ==
  LET x == work[c].column
  IN /\ Doing(c, "evaluate")
     /\ Finish(c)
     /\ Judge(c, x, "validate", IF calls[c].program = NoProgram THEN {"malformed"}
                                ELSE Outcome(Col(c, x).when, StoredFields(Task(c))))

ReturnErrors(c) ==
  /\ Doing(c, "validate")
  /\ work[c].todo = {}
  /\ Continue(c, [work[c] EXCEPT !.step = "done"])
  /\ UNCHANGED cacheVars

Next ==
  \E c \in Active :
    \/ DefineColumn(c)
    \/ ResolveExpression(c)
    \/ TakeResolution(c)
    \/ StartRecord(c)
    \/ CheckColumn(c)
    \/ EvaluateCondition(c)
    \/ ReturnErrors(c)
    \/ CompileStep(c) /\ UNCHANGED <<tasks, work>>

Spec == Init /\ [][Next]_vars

-----------------------------------------------------------------------------
(* Properties. *)

\* The variables range over the values the Go types allow.
ErrorKinds == {"undeclared", "stored", "missing", "malformed", "unconvertible", "unbound",
               "notBoolean", "failed", "type", "enum", "range", "length"}
TypeOK ==
  /\ CacheTypeOK
  /\ Active \subseteq Callers
  /\ \A c \in Active :
       /\ IsTask(tasks[c])
       /\ work[c].step \in {"define", "rejected", "validate", "evaluate", "panicked", "done"}
       /\ work[c].todo \subseteq Names /\ work[c].column \in Names
       /\ work[c].exprs \in Seq([part : {"formula", "when"}, source : Sources])
       /\ work[c].errors \subseteq [field : Names, kind : ErrorKinds]

\* All that the goroutines do to the cache is what any client of it may do.
UsesTheCache == CacheSpec

Resolvable(source, columns) ==
  source \notin Malformed /\ FreeNames[source] \subseteq Stored(columns) \cup Builtins
SoundColumn(x, columns) ==
  LET col == columns[x]
  IN /\ col.type # "unknown"
     /\ col.formula # NoSource => /\ x \notin Builtins
                                  /\ col.type \in Computable
                                  /\ Resolvable(col.formula, columns)
     /\ col.when # NoSource => ~col.required /\ Resolvable(col.when, columns)
SoundDefinition(columns) == \A x \in DOMAIN columns : SoundColumn(x, columns)

\* are the constraints of the column such that a value can be asked to meet them?
Numbers == {"int", "uint", "float"}
Equal(v, w) == v = w \/ (v.kind \in Numbers /\ w.kind \in Numbers /\ v.n = w.n)
Sensible(col) ==
  /\ {col.minValue, col.maxValue} # {Unset} => col.type \in {"int", "float"}
  /\ col.type = "int" => \A n \in {col.minValue, col.maxValue} \ {Unset} : n % 2 = 0
  /\ Unset \notin {col.minValue, col.maxValue} => col.minValue <= col.maxValue
  /\ {col.length, col.minLength, col.maxLength} # {Unset} =>
       col.type \notin {"bool", "int", "float", "temporal"}
  /\ \A m \in col.enum : MatchesType(m, col.type) /\ \A k \in col.enum \ {m} : ~Equal(k, m)
SensibleDefinition(columns) == \A x \in DOMAIN columns : Sensible(columns[x])

\* A collection is loaded or rejected on its own merits: an expression that
\* refers to what its own collection does not store is found, whatever other
\* collections have compiled the same text, before or at the same time.  This is
\* of definitions whose constraints make sense; the load looks at no others.
JudgedOnItsOwn ==
  \A c \in Active :
    work[c].step # "define" /\ SensibleDefinition(tasks[c].columns) =>
      (work[c].step = "rejected" <=> ~SoundDefinition(tasks[c].columns))

\* A condition that the load has resolved is never unresolved when a record is
\* judged, however little the record holds.
LoadedConditionsResolve ==
  \A c \in Active : \A e \in work[c].errors : e.kind \notin {"malformed", "unbound"}

\* What a value must be to satisfy a column; numbers are compared as numbers.
Meant == [string |-> {"string"}, int |-> {"int", "uint", "float"}, bool |-> {"bool"},
          float |-> {"int", "uint", "float"}, temporal |-> {"string", "time"},
          map |-> {"map"}, l10n |-> {"map"}, any |-> Kinds \cup {"nil"}]
MeetsPlain(v, type) ==
  /\ v.kind \in Meant[type]
  /\ type = "int" => v.n % 2 = 0
  /\ type = "l10n" => \A i \in DOMAIN v.items : v.items[i].kind = "string"
MeetsType(v, type) ==
  \/ type \in PlainTypes /\ MeetsPlain(v, type)
  \/ /\ type \in ListTypes /\ v.kind = "list"
     /\ \A i \in DOMAIN v.items : MeetsPlain(v.items[i], ElementType[type])
MeetsEnum(v, enum) == enum = {} \/ \E m \in enum : Equal(v, m)
Meets(v, col) ==
  /\ MeetsType(v, col.type)
  /\ MeetsEnum(v, col.enum)
  /\ v.kind \in Numbers => Within(v.n, col.minValue, col.maxValue)
  /\ HasLength(v) => \A bound \in {<<col.length, col.length>>, <<col.minLength, col.maxLength>>} :
                       Within(LengthOf(v), bound[1], bound[2])

\* is a missing value a fault? so it is if its condition cannot be judged, by
\* the fields that it asks about
Asked(source, fields) == FreeNames[source] \cap DOMAIN fields
Faulted(task, x) ==
  LET col == task.columns[x]
      fields == StoredFields(task)
  IN IF col.when = NoSource THEN col.required
     ELSE \/ \E y \in Asked(col.when, fields) : ~Convertible(fields[y])
          \/ Evaluate(col.when, fields) # "false"
Faulty(task, x) ==
  IF x \notin DOMAIN task.columns THEN x \in DOMAIN task.record \ Reserved
  ELSE IF task.columns[x].formula # NoSource THEN x \in DOMAIN task.record
  ELSE IF ValueOf(task, x) = Nil THEN Faulted(task, x)
  ELSE ~Meets(ValueOf(task, x), task.columns[x])

\* where the code is known to judge otherwise: an unsigned integer against a
\* range or an enum, and a condition beside a field that holds a time, which it
\* does not ask about
Disputed(task, x) ==
  /\ x \in DOMAIN task.columns
  /\ LET col == task.columns[x]
         v == ValueOf(task, x)
         fields == StoredFields(task)
     IN IF v = Nil
        THEN /\ col.when # NoSource
             /\ \E y \in DOMAIN fields \ Asked(col.when, fields) : ~Convertible(fields[y])
        ELSE \/ v.kind = "uint" /\ {col.minValue, col.maxValue} # {Unset}
             \/ v.kind \in Numbers /\ \E m \in col.enum : "uint" \in {v.kind, m.kind}

\* A record is found to break exactly the columns it breaks, each once, in
\* whatever order they are visited, but for what is disputed.
Blamed(c) == {e.field : e \in work[c].errors}
ErrorsAreExact ==
  \A c \in Active : work[c].step = "done" =>
    /\ \A x \in Names : ~Disputed(tasks[c], x) => (x \in Blamed(c) <=> Faulty(tasks[c], x))
    /\ \A e, f \in work[c].errors : e.field = f.field => e = f

\* Records are only ever judged by a definition whose constraints make sense: one
\* whose bounds exclude each other, or do not apply to its type, is rejected
\* (column_def.go:39-41, 54-55, 62-64).  A number of any type is held to its
\* range and enum, and a column is required only when its condition evaluates to
\* True, whatever fields the condition does not ask about hold
\* (spec/features/column-validation/README.md:50, 70, 80).
RecordsAreJudgedAsDocumented ==
  \A c \in Active : work[c].step = "done" =>
    /\ SensibleDefinition(tasks[c].columns)
    /\ Blamed(c) = {x \in Names : Faulty(tasks[c], x)}
=============================================================================
