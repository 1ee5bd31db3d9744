-------------------------- MODULE RecordRulesProofs --------------------------
(***************************************************************************)
(* Theorems about RecordRules, for any collections, records and formulas,  *)
(* any number of goroutines, and whatever Starlark computes.               *)
(***************************************************************************)
EXTENDS RecordRules, FormulaCacheProofs

Steps == {"define", "rejected", "validate", "evaluate", "panicked", "done"}
Expr  == [part : {"formula", "when"}, source : Sources]

\* what a column may be said to break once its definition has been loaded
Found == ErrorKinds \ {"malformed", "unbound"}
Work  == [step : Steps, todo : SUBSET Names, column : Names, exprs : Seq(Expr),
          errors : SUBSET [field : Names, kind : Found]]

StrictRequest(task, w) ==
  [mode |-> "strict", source |-> Head(w.exprs).source, declared |-> Stored(task.columns)]
OpenRequest(task, w) ==
  [mode |-> "open", source |-> task.columns[w.column].when,
   declared |-> DOMAIN StoredFields(task)]

-----------------------------------------------------------------------------
(* The expressions of a column. *)

\* A column that has no such expression has nothing to resolve.
LEMMA PartOf ==
  ASSUME NEW part \in {"formula", "when"}, NEW source \in Sources \cup {NoSource}
  PROVE  /\ Part(part, source) \in Seq(Expr)
         /\ source = NoSource => Part(part, source) = <<>>
         /\ source # NoSource =>
              /\ Part(part, source) # <<>>
              /\ Head(Part(part, source)) = [part |-> part, source |-> source]
              /\ Tail(Part(part, source)) = <<>>
<1>1. CASE source = NoSource
  BY <1>1 DEF Part
<1>2. CASE source # NoSource
  <2> DEFINE e == [part |-> part, source |-> source]
  <2>1. e \in Expr
    BY <1>2 DEF Expr
  <2>2. Part(part, source) = <<e>>
    BY <1>2 DEF Part
  <2> HIDE DEF e
  <2>3. <<e>> \in Seq(Expr) /\ <<e>> # <<>> /\ Head(<<e>>) = e /\ Tail(<<e>>) = <<>>
    BY <2>1
  <2> QED BY <1>2, <2>2, <2>3 DEF e
<1> QED BY <1>1, <1>2

\* The formula of a column comes before its condition.
LEMMA ExpressionsOf ==
  ASSUME NEW col \in Columns
  PROVE  /\ Expressions(col) \in Seq(Expr)
         /\ col.formula = NoSource => Expressions(col) = Part("when", col.when)
         /\ col.formula # NoSource =>
              /\ Expressions(col) # <<>>
              /\ Head(Expressions(col)) = [part |-> "formula", source |-> col.formula]
              /\ Tail(Expressions(col)) = Part("when", col.when)
<1> DEFINE f == Part("formula", col.formula)
           w == Part("when", col.when)
<1>1. col.formula \in Sources \cup {NoSource} /\ col.when \in Sources \cup {NoSource}
  BY DEF Columns
<1>2. f \in Seq(Expr) /\ w \in Seq(Expr)
  BY <1>1, PartOf
<1>3. Expressions(col) = f \o w
  BY DEF Expressions
<1>4. CASE col.formula = NoSource
  <2>1. f = <<>>
    BY <1>1, <1>4, PartOf
  <2> HIDE DEF f, w
  <2>2. f \o w = w
    BY <1>2, <2>1
  <2> QED BY <1>2, <1>3, <1>4, <2>2 DEF w
<1>5. CASE col.formula # NoSource
  <2> DEFINE e == [part |-> "formula", source |-> col.formula]
  <2>1. f = <<e>>
    BY <1>5 DEF Part
  <2>2. e \in Expr
    BY <1>1, <1>5 DEF Expr
  <2> HIDE DEF e, f, w
  <2>3. f \o w \in Seq(Expr) /\ f \o w # <<>> /\ Head(f \o w) = e /\ Tail(f \o w) = w
    BY <1>2, <2>1, <2>2
  <2> QED BY <1>3, <1>5, <2>3 DEF e, w
<1> QED BY <1>4, <1>5

-----------------------------------------------------------------------------
(* The inductive invariant: how far one goroutine got. *)

\* a column that has been taken is settled but for the expressions still to come
Awaits(w, x, part) == w.column = x /\ w.exprs # <<>> /\ (part = "when" \/ Head(w.exprs).part = part)
SettledColumn(task, w, x) ==
  LET col == task.columns[x]
  IN /\ col.type # "unknown"
     /\ col.formula # NoSource =>
          \/ Awaits(w, x, "formula")
          \/ ~Forbidden("formula", x, col) /\ Resolvable(col.formula, task.columns)
     /\ col.when # NoSource =>
          \/ Awaits(w, x, "when")
          \/ ~Forbidden("when", x, col) /\ Resolvable(col.when, task.columns)

Defining(task, w, call) ==
  /\ \A x \in DOMAIN task.columns \ w.todo : SettledColumn(task, w, x)
  /\ w.exprs # <<>> =>
       /\ w.column \in DOMAIN task.columns \ w.todo
       /\ \/ w.exprs = Expressions(task.columns[w.column])
          \/ w.exprs = Part("when", task.columns[w.column].when)
  /\ call # Idle =>
       /\ w.exprs # <<>>
       /\ ~Forbidden(Head(w.exprs).part, w.column, task.columns[w.column])
       /\ call.request = StrictRequest(task, w)

Evaluating(task, w, call) ==
  /\ w.column \in DOMAIN task.columns
  /\ task.columns[w.column].when # NoSource
  /\ call # Idle /\ call.request = OpenRequest(task, w)

Progress(task, w, call) ==
  /\ w \in Work
  /\ w.todo \subseteq DOMAIN task.columns
  /\ w.step = "define" => Defining(task, w, call)
  /\ w.step = "rejected" => ~SoundDefinition(task.columns)
  /\ w.step \notin {"define", "rejected"} => SoundDefinition(task.columns)
  /\ w.step = "evaluate" => Evaluating(task, w, call)
  /\ w.step \notin {"define", "evaluate"} => call = Idle

RulesInv ==
  /\ CacheInv
  /\ tasks \in Cases
  /\ DOMAIN work = Active /\ work = [c \in Active |-> work[c]]
  /\ \A c \in Active : Progress(tasks[c], work[c], calls[c])
  /\ \A c \in Callers \ Active : calls[c] = Idle

\* Every caller that has something to do has a collection and a record.
LEMMA ActiveTask ==
  ASSUME tasks \in Cases, NEW c \in Active
  PROVE  c \in Callers /\ IsTask(tasks[c])
BY CaseAssumption DEF Active

\* One goroutine moves: the others keep what they have.
LEMMA OneGoes ==
  ASSUME RulesInv, CacheInv', UNCHANGED tasks, NEW c \in Active, NEW w,
         work' = [work EXCEPT ![c] = w],
         \A b \in Callers \ {c} : calls'[b] = calls[b],
         Progress(tasks[c], w, calls'[c])
  PROVE  RulesInv'
<1>1. c \in Callers /\ Active' = Active /\ Active \subseteq Callers
  BY ActiveTask DEF RulesInv, Active
<1>2. /\ DOMAIN work' = Active
      /\ work'[c] = w
      /\ \A b \in Active \ {c} : work'[b] = work[b]
  BY DEF RulesInv
<1>3. work' = [b \in Active |-> work'[b]]
  BY DEF RulesInv
<1>4. ASSUME NEW b \in Active PROVE Progress(tasks[b], work'[b], calls'[b])
  <2>1. CASE b = c
    BY <1>2, <2>1
  <2>2. CASE b # c
    <3>1. work'[b] = work[b] /\ calls'[b] = calls[b]
      BY <1>1, <1>2, <2>2
    <3> QED BY <3>1 DEF RulesInv
  <2> QED BY <2>1, <2>2
<1>5. \A b \in Callers \ Active : calls'[b] = Idle
  BY DEF RulesInv
<1> QED BY <1>1, <1>2, <1>3, <1>4, <1>5 DEF RulesInv

-----------------------------------------------------------------------------
(* The goroutines are clients of the cache. *)

\* What is asked of the cache are requests.
LEMMA AsksRequests ==
  ASSUME RulesInv, NEW c \in Active
  PROVE  /\ Stored(tasks[c].columns) \subseteq Names
         /\ DOMAIN StoredFields(tasks[c]) = Stored(tasks[c].columns)
         /\ work[c].step = "define" /\ work[c].exprs # <<>> =>
              StrictRequest(tasks[c], work[c]) \in Requests
         /\ \A x \in DOMAIN tasks[c].columns :
              tasks[c].columns[x].when # NoSource =>
                [mode |-> "open", source |-> tasks[c].columns[x].when,
                 declared |-> DOMAIN StoredFields(tasks[c])] \in Requests
<1>1. IsTask(tasks[c])
  BY ActiveTask DEF RulesInv
<1>2. Stored(tasks[c].columns) \subseteq Names
  BY <1>1 DEF IsTask, Stored
<1>3. DOMAIN StoredFields(tasks[c]) = Stored(tasks[c].columns)
  BY DEF StoredFields
<1>4. ASSUME work[c].exprs # <<>>
      PROVE  StrictRequest(tasks[c], work[c]) \in Requests
  <2>1. work[c].exprs \in Seq(Expr)
    BY DEF RulesInv, Progress, Work
  <2>2. Head(work[c].exprs) \in Expr
    BY <1>4, <2>1
  <2> QED BY <1>2, <2>2 DEF StrictRequest, Requests, Expr
<1>5. ASSUME NEW x \in DOMAIN tasks[c].columns, tasks[c].columns[x].when # NoSource
      PROVE  [mode |-> "open", source |-> tasks[c].columns[x].when,
              declared |-> DOMAIN StoredFields(tasks[c])] \in Requests
  <2>1. tasks[c].columns[x].when \in Sources
    BY <1>1, <1>5 DEF IsTask, Columns
  <2> QED BY <1>2, <1>3, <2>1 DEF Requests
<1> QED BY <1>2, <1>3, <1>4, <1>5

LEMMA StepUsesTheCache == RulesInv /\ [Next]_vars => [CacheNext]_cacheVars
<1> SUFFICES ASSUME RulesInv, [Next]_vars PROVE [CacheNext]_cacheVars
  OBVIOUS
<1>1. CASE UNCHANGED vars
  BY <1>1 DEF vars, cacheVars
<1>2. ASSUME NEW c \in Active,
             \/ DefineColumn(c) \/ ResolveExpression(c) \/ TakeResolution(c)
             \/ StartRecord(c) \/ CheckColumn(c) \/ EvaluateCondition(c)
             \/ ReturnErrors(c) \/ CompileStep(c)
      PROVE  [CacheNext]_cacheVars
  <2>1. c \in Callers
    BY ActiveTask DEF RulesInv
  <2>2. CASE DefineColumn(c) \/ StartRecord(c) \/ ReturnErrors(c)
    BY <2>2 DEF DefineColumn, StartRecord, ReturnErrors
  <2>3. CASE ResolveExpression(c)
    <3>1. CASE UNCHANGED cacheVars
      BY <3>1
    <3>2. CASE Ask(c, StrictRequest(tasks[c], work[c]))
      <4>1. StrictRequest(tasks[c], work[c]) \in Requests
        BY <2>3, AsksRequests DEF ResolveExpression, Doing
      <4> QED BY <2>1, <3>2, <4>1 DEF CacheNext
    <3> QED BY <2>3, <3>1, <3>2 DEF ResolveExpression, StrictRequest, Task
  <2>4. CASE TakeResolution(c) \/ EvaluateCondition(c)
    BY <2>1, <2>4 DEF TakeResolution, EvaluateCondition, CacheNext
  <2>5. CASE CheckColumn(c)
    <3>1. PICK x \in work[c].todo : CheckComputed(c, x) \/ CheckValue(c, x) \/ CheckMissing(c, x)
      BY <2>5 DEF CheckColumn
    <3>2. CASE UNCHANGED cacheVars
      BY <3>2
    <3>3. CASE /\ Col(c, x).when # NoSource
               /\ Ask(c, [mode |-> "open", source |-> Col(c, x).when,
                          declared |-> DOMAIN StoredFields(Task(c))])
      <4>1. x \in DOMAIN tasks[c].columns
        BY <3>1 DEF RulesInv, Progress
      <4>2. [mode |-> "open", source |-> Col(c, x).when,
             declared |-> DOMAIN StoredFields(Task(c))] \in Requests
        BY <3>3, <4>1, AsksRequests DEF Col, Task
      <4> QED BY <2>1, <3>3, <4>2 DEF CacheNext
    <3> QED BY <3>1, <3>2, <3>3 DEF CheckComputed, CheckValue, CheckMissing
  <2>6. CASE CompileStep(c)
    BY <2>1, <2>6 DEF CacheNext
  <2> QED BY <1>2, <2>2, <2>3, <2>4, <2>5, <2>6
<1> QED BY <1>1, <1>2 DEF Next

-----------------------------------------------------------------------------
(* Each action keeps a goroutine on its way. *)

LEMMA Starts == Init => RulesInv
<1> SUFFICES ASSUME Init PROVE RulesInv
  OBVIOUS
<1>1. CacheInv
  BY CacheInvHoldsAtFirst DEF Init
<1>2. tasks \in Cases /\ DOMAIN work = Active /\ work = [c \in Active |-> work[c]]
  BY DEF Init
<1>3. ASSUME NEW c \in Active PROVE Progress(tasks[c], work[c], calls[c])
  <2>1. c \in Callers /\ IsTask(tasks[c])
    BY <1>2, ActiveTask
  <2>2. calls[c] = Idle
    BY <2>1 DEF Init, CacheInit
  <2>3. work[c] = [step |-> "define", todo |-> DOMAIN tasks[c].columns, column |-> IdField,
                   exprs |-> <<>>, errors |-> {}]
    BY DEF Init
  <2>4. work[c] \in Work
    BY <2>1, <2>3, NameAssumption DEF Work, Steps, IsTask
  <2> QED BY <2>2, <2>3, <2>4 DEF Progress, Defining
<1>4. \A c \in Callers \ Active : calls[c] = Idle
  BY DEF Init, CacheInit
<1> QED BY <1>1, <1>2, <1>3, <1>4 DEF RulesInv

FormulaNext(w, col) == /\ col.formula # NoSource
                       /\ Head(w.exprs) = [part |-> "formula", source |-> col.formula]
                       /\ Tail(w.exprs) = Part("when", col.when)
WhenNext(w, col)    == /\ col.when # NoSource
                       /\ Head(w.exprs) = [part |-> "when", source |-> col.when]
                       /\ Tail(w.exprs) = <<>>

\* The expression that is resolved next is one that the column has.
LEMMA NextExpression ==
  ASSUME NEW task, IsTask(task), NEW w, NEW call, Defining(task, w, call), w.exprs # <<>>
  PROVE  /\ w.column \in DOMAIN task.columns \ w.todo
         /\ FormulaNext(w, task.columns[w.column]) \/ WhenNext(w, task.columns[w.column])
<1> DEFINE col == task.columns[w.column]
<1>1. /\ w.column \in DOMAIN task.columns \ w.todo
      /\ w.exprs = Expressions(col) \/ w.exprs = Part("when", col.when)
  BY DEF Defining
<1>2. col \in Columns
  BY <1>1 DEF IsTask
<1>3. col.when \in Sources \cup {NoSource}
  BY <1>2 DEF Columns
<1> HIDE DEF col
<1>4. CASE w.exprs = Part("when", col.when)
  <2>1. WhenNext(w, col)
    BY <1>3, <1>4, PartOf DEF WhenNext
  <2> QED BY <1>1, <2>1 DEF col
<1>5. CASE w.exprs = Expressions(col) /\ col.formula # NoSource
  <2>1. FormulaNext(w, col)
    BY <1>2, <1>5, ExpressionsOf DEF FormulaNext
  <2> QED BY <1>1, <2>1 DEF col
<1>6. CASE w.exprs = Expressions(col) /\ col.formula = NoSource
  BY <1>2, <1>4, <1>6, ExpressionsOf
<1> QED BY <1>1, <1>4, <1>5, <1>6

\* A caller that waits for its program stays where it is.
LEMMA Waits ==
  ASSUME NEW task, NEW w, NEW call, NEW next, Progress(task, w, call),
         call # Idle, next # Idle, next.request = call.request
  PROVE  Progress(task, w, next)
BY DEF Progress, Defining, Evaluating

LEMMA Compiling ==
  ASSUME RulesInv, CacheInv', UNCHANGED <<tasks, work>>, NEW c \in Active, CompileStep(c)
  PROVE  RulesInv'
<1>1. c \in Callers
  BY ActiveTask DEF RulesInv
<1>2. calls[c] # Idle
  BY DEF CompileStep, Load, Compile, LoadOrStore, Idle
<1>3. ASSUME NEW step \in {"compile", "done", "store"}, NEW program, Advance(c, step, program)
      PROVE  \E next : /\ next # Idle /\ next.request = calls[c].request
                       /\ calls' = [calls EXCEPT ![c] = next]
  <2> DEFINE next == Call(step, calls[c].request, program)
  <2>1. next # Idle /\ next.request = calls[c].request
    BY DEF Call, Idle
  <2>2. calls' = [calls EXCEPT ![c] = next]
    BY <1>1, <1>3 DEF Advance, RulesInv, CacheInv, CacheTypeOK
  <2> QED BY <2>1, <2>2
<1>4. PICK next : /\ next # Idle /\ next.request = calls[c].request
                  /\ calls' = [calls EXCEPT ![c] = next]
  BY <1>3 DEF CompileStep, Load, Compile, LoadOrStore
<1>5. calls'[c] = next /\ \A b \in Callers \ {c} : calls'[b] = calls[b]
  BY <1>1, <1>4 DEF RulesInv, CacheInv, CacheTypeOK
<1>6. Progress(tasks[c], work[c], calls'[c])
  BY <1>2, <1>4, <1>5, Waits DEF RulesInv
<1>7. work' = [work EXCEPT ![c] = work[c]]
  BY DEF RulesInv
<1> QED BY <1>5, <1>6, <1>7, OneGoes

LEMMA Defines ==
  ASSUME RulesInv, CacheInv', NEW c \in Active, DefineColumn(c)
  PROVE  RulesInv'
<1> DEFINE task == tasks[c]
<1>1. /\ Progress(task, work[c], calls[c]) /\ work[c].step = "define"
      /\ work[c].exprs = <<>> /\ calls[c] = Idle /\ IsTask(task)
  BY ActiveTask DEF DefineColumn, Doing, RulesInv, Progress, Defining
<1>2. UNCHANGED <<tasks, calls>>
  BY DEF DefineColumn, Reject, Continue, cacheVars
<1>3. ASSUME NEW x \in work[c].todo, Col(c, x).type = "unknown", Reject(c)
      PROVE  RulesInv'
  <2> DEFINE w == [work[c] EXCEPT !.step = "rejected"]
  <2>1. work' = [work EXCEPT ![c] = w]
    BY <1>3 DEF Reject, Continue
  <2>2. w \in Work /\ w.step = "rejected" /\ w.todo = work[c].todo
    BY <1>1 DEF Progress, Work, Steps
  <2>3. ~SoundDefinition(task.columns)
    BY <1>1, <1>3 DEF SoundDefinition, SoundColumn, Progress, Col
  <2> HIDE DEF w
  <2>4. Progress(task, w, calls'[c])
    BY <1>1, <1>2, <2>2, <2>3 DEF Progress
  <2> QED BY <1>2, <2>1, <2>4, OneGoes
<1>4. ASSUME NEW x \in work[c].todo, Col(c, x).type # "unknown",
             Continue(c, [work[c] EXCEPT !.todo = @ \ {x}, !.column = x,
                                         !.exprs = Expressions(Col(c, x))])
      PROVE  RulesInv'
  <2> DEFINE col == task.columns[x]
             w == [work[c] EXCEPT !.todo = @ \ {x}, !.column = x, !.exprs = Expressions(col)]
  <2>1. work' = [work EXCEPT ![c] = w]
    BY <1>4 DEF Continue, Col
  <2>2. x \in DOMAIN task.columns /\ col \in Columns /\ x \in Names
    BY <1>1 DEF Progress, IsTask
  <2>3. /\ w \in Work /\ w.step = "define" /\ w.todo = work[c].todo \ {x} /\ w.column = x
        /\ w.exprs = Expressions(col)
    BY <1>1, <2>2, ExpressionsOf DEF Progress, Work
  <2> HIDE DEF w
  <2>4. SettledColumn(task, w, x)
    <3>1. col.formula # NoSource => Awaits(w, x, "formula")
      BY <2>2, <2>3, ExpressionsOf DEF Awaits
    <3>2. col.when # NoSource => Awaits(w, x, "when")
      <4>1. col.when \in Sources \cup {NoSource}
        BY <2>2 DEF Columns
      <4> QED BY <2>2, <2>3, <4>1, ExpressionsOf, PartOf DEF Awaits
    <3> QED BY <1>4, <3>1, <3>2 DEF SettledColumn, Col
  <2>5. ASSUME NEW y \in DOMAIN task.columns \ w.todo, y # x
        PROVE  SettledColumn(task, w, y)
    BY <1>1, <2>3, <2>5 DEF Progress, Defining, SettledColumn, Awaits
  <2>6. Progress(task, w, calls'[c])
    BY <1>1, <1>2, <2>2, <2>3, <2>4, <2>5 DEF Progress, Defining
  <2> QED BY <1>2, <2>1, <2>6, OneGoes
<1> QED BY <1>3, <1>4 DEF DefineColumn

LEMMA Resolves ==
  ASSUME RulesInv, CacheInv', NEW c \in Active, ResolveExpression(c)
  PROVE  RulesInv'
<1> DEFINE task == tasks[c]
           expr == Head(work[c].exprs)
           col  == task.columns[work[c].column]
<1>1. /\ Progress(task, work[c], calls[c]) /\ work[c].step = "define"
      /\ work[c].exprs # <<>> /\ calls[c] = Idle /\ c \in Callers
      /\ IsTask(task) /\ Defining(task, work[c], calls[c])
  BY ActiveTask DEF ResolveExpression, Doing, RulesInv, Progress
<1>2. CASE Forbidden(expr.part, work[c].column, col) /\ Reject(c) /\ UNCHANGED cacheVars
  <2> DEFINE w == [work[c] EXCEPT !.step = "rejected"]
  <2>1. work' = [work EXCEPT ![c] = w] /\ UNCHANGED <<tasks, calls>>
    BY <1>2 DEF Reject, Continue, cacheVars
  <2>2. w \in Work /\ w.step = "rejected" /\ w.todo = work[c].todo
    BY <1>1 DEF Progress, Work, Steps
  <2>3. /\ work[c].column \in DOMAIN task.columns
        /\ FormulaNext(work[c], col) \/ WhenNext(work[c], col)
    BY <1>1, NextExpression
  <2>4. ~SoundColumn(work[c].column, task.columns)
    BY <1>2, <2>3 DEF FormulaNext, WhenNext, SoundColumn, Forbidden
  <2>5. ~SoundDefinition(task.columns)
    BY <2>3, <2>4 DEF SoundDefinition
  <2> HIDE DEF w
  <2>6. Progress(task, w, calls'[c])
    BY <1>1, <2>1, <2>2, <2>5 DEF Progress
  <2> QED BY <2>1, <2>6, OneGoes
<1>3. CASE /\ ~Forbidden(expr.part, work[c].column, col)
           /\ Ask(c, StrictRequest(task, work[c]))
           /\ UNCHANGED <<tasks, work>>
  <2> DEFINE call == Call("load", StrictRequest(task, work[c]), NoProgram)
  <2>1. call # Idle /\ call.request = StrictRequest(task, work[c])
    BY DEF Call, Idle
  <2>2. calls'[c] = call /\ \A b \in Callers \ {c} : calls'[b] = calls[b]
    BY <1>1, <1>3 DEF Ask, RulesInv, CacheInv, CacheTypeOK
  <2> HIDE DEF call
  <2>3. Progress(task, work[c], calls'[c])
    BY <1>1, <1>3, <2>1, <2>2 DEF Progress, Defining
  <2>4. work' = [work EXCEPT ![c] = work[c]]
    BY <1>3 DEF RulesInv
  <2> QED BY <1>3, <2>2, <2>3, <2>4, OneGoes
<1> QED BY <1>2, <1>3 DEF ResolveExpression, StrictRequest, Task, Col

\* A program, or none, is the verdict on the expression that was asked about.
LEMMA Verdict ==
  ASSUME RulesInv, NEW c \in Active, calls[c].step = "done"
  PROVE  calls[c].program # NoProgram <=> Compiles(calls[c].request)
<1>1. c \in Callers
  BY ActiveTask DEF RulesInv
<1> QED BY <1>1, InvGivesVerdicts DEF RulesInv, VerdictIsItsOwn

LEMMA Takes ==
  ASSUME RulesInv, CacheInv', NEW c \in Active, TakeResolution(c)
  PROVE  RulesInv'
<1> DEFINE task == tasks[c]
           x    == work[c].column
           expr == Head(work[c].exprs)
           col  == task.columns[x]
<1>1. calls[c].step = "done" /\ calls[c] # Idle /\ c \in Callers /\ IsTask(task)
  BY ActiveTask DEF TakeResolution, Finish, RulesInv, Idle
<1>2. /\ Progress(task, work[c], calls[c]) /\ Defining(task, work[c], calls[c])
      /\ work[c].step = "define" /\ work[c] \in Work
  BY DEF TakeResolution, Doing, RulesInv, Progress
<1>3. /\ work[c].exprs # <<>> /\ ~Forbidden(expr.part, x, col)
      /\ calls[c].request = StrictRequest(task, work[c])
  BY <1>1, <1>2 DEF Defining
<1>4. /\ x \in DOMAIN task.columns \ work[c].todo
      /\ FormulaNext(work[c], col) \/ WhenNext(work[c], col)
  BY <1>1, <1>2, <1>3, NextExpression
<1>5. calls[c].program # NoProgram <=> Resolvable(expr.source, task.columns)
  BY <1>1, <1>3, Verdict DEF StrictRequest, Compiles, Resolvable
<1>6. calls'[c] = Idle /\ (\A b \in Callers \ {c} : calls'[b] = calls[b]) /\ UNCHANGED tasks
  BY <1>1 DEF TakeResolution, Finish, Reject, Continue, RulesInv, CacheInv, CacheTypeOK
<1>7. CASE calls[c].program = NoProgram /\ Reject(c)
  <2> DEFINE w == [work[c] EXCEPT !.step = "rejected"]
  <2>1. work' = [work EXCEPT ![c] = w]
    BY <1>7 DEF Reject, Continue
  <2>2. w \in Work /\ w.step = "rejected" /\ w.todo = work[c].todo
    BY <1>2 DEF Work, Steps
  <2>3. ~SoundColumn(x, task.columns)
    BY <1>4, <1>5, <1>7 DEF FormulaNext, WhenNext, SoundColumn
  <2>4. ~SoundDefinition(task.columns)
    BY <1>4, <2>3 DEF SoundDefinition
  <2> HIDE DEF w
  <2>5. Progress(task, w, calls'[c])
    BY <1>2, <1>6, <2>2, <2>4 DEF Progress
  <2> QED BY <1>6, <2>1, <2>5, OneGoes
<1>8. CASE calls[c].program # NoProgram /\ Continue(c, [work[c] EXCEPT !.exprs = Tail(@)])
  <2> DEFINE w == [work[c] EXCEPT !.exprs = Tail(@)]
  <2>1. work' = [work EXCEPT ![c] = w]
    BY <1>8 DEF Continue
  <2>2. Tail(work[c].exprs) \in Seq(Expr)
    BY <1>2, <1>3 DEF Work
  <2>3. /\ w \in Work /\ w.step = "define" /\ w.todo = work[c].todo /\ w.column = x
        /\ w.exprs = Tail(work[c].exprs)
    BY <1>2, <2>2 DEF Work
  <2> HIDE DEF w
  <2>4. ~Forbidden(expr.part, x, col) /\ Resolvable(expr.source, task.columns)
    BY <1>3, <1>5, <1>8
  <2>5. col.when \in Sources \cup {NoSource} /\ SettledColumn(task, work[c], x)
    BY <1>1, <1>2, <1>4 DEF IsTask, Columns, Defining
  <2>6. SettledColumn(task, w, x) /\ (w.exprs = <<>> \/ w.exprs = Part("when", col.when))
    <3>1. CASE FormulaNext(work[c], col)
      <4>1. w.exprs = Part("when", col.when)
        BY <2>3, <3>1 DEF FormulaNext
      <4>2. col.when # NoSource => Awaits(w, x, "when")
        BY <2>3, <2>5, <4>1, PartOf DEF Awaits
      <4>3. ~Forbidden("formula", x, col) /\ Resolvable(col.formula, task.columns)
        BY <2>4, <3>1 DEF FormulaNext
      <4> QED BY <2>5, <4>1, <4>2, <4>3 DEF SettledColumn
    <3>2. CASE WhenNext(work[c], col)
      <4>1. w.exprs = <<>>
        BY <2>3, <3>2 DEF WhenNext
      <4>2. ~Forbidden("when", x, col) /\ Resolvable(col.when, task.columns)
        BY <2>4, <3>2 DEF WhenNext
      <4>3. ~Awaits(work[c], x, "formula")
        BY <3>2 DEF WhenNext, Awaits
      <4> QED BY <2>5, <4>1, <4>2, <4>3 DEF SettledColumn
    <3> QED BY <1>4, <3>1, <3>2
  <2>7. ASSUME NEW y \in DOMAIN task.columns \ w.todo, y # x PROVE SettledColumn(task, w, y)
    BY <1>2, <2>3, <2>7 DEF Defining, SettledColumn, Awaits
  <2>8. Defining(task, w, Idle)
    BY <1>4, <2>3, <2>6, <2>7 DEF Defining
  <2>9. Progress(task, w, calls'[c])
    BY <1>2, <1>6, <2>3, <2>8 DEF Progress
  <2> QED BY <1>6, <2>1, <2>9, OneGoes
<1> QED BY <1>7, <1>8 DEF TakeResolution

-----------------------------------------------------------------------------
(* Validating the record. *)

\* What is kept of a goroutine that has loaded its collection.
LEMMA Validating ==
  ASSUME RulesInv, CacheInv', UNCHANGED <<tasks, calls>>, NEW c \in Active, NEW w \in Work,
         work' = [work EXCEPT ![c] = w], w.step \in {"validate", "panicked", "done"},
         w.todo \subseteq DOMAIN tasks[c].columns,
         SoundDefinition(tasks[c].columns), calls[c] = Idle
  PROVE  RulesInv'
<1>1. Progress(tasks[c], w, calls'[c])
  BY DEF Progress
<1> QED BY <1>1, OneGoes

LEMMA StartsRecord ==
  ASSUME RulesInv, CacheInv', NEW c \in Active, StartRecord(c)
  PROVE  RulesInv'
<1> DEFINE task == tasks[c]
           w == [work[c] EXCEPT !.step = "validate", !.todo = DOMAIN task.columns,
                                !.errors = Undeclared(task)]
<1>1. /\ work[c] \in Work /\ Defining(task, work[c], calls[c]) /\ IsTask(task)
      /\ work[c].todo = {} /\ work[c].exprs = <<>>
  BY ActiveTask DEF StartRecord, Doing, RulesInv, Progress
<1>2. work' = [work EXCEPT ![c] = w] /\ UNCHANGED <<tasks, calls>>
  BY DEF StartRecord, Continue, Task, cacheVars
<1>3. Undeclared(task) \subseteq [field : Names, kind : Found]
  BY <1>1 DEF Undeclared, Error, Found, ErrorKinds, IsTask
<1>4. /\ w \in Work /\ w.step = "validate" /\ w.todo = DOMAIN task.columns
  BY <1>1, <1>3 DEF Work, Steps, IsTask
<1> HIDE DEF w
<1>5. ASSUME NEW x \in DOMAIN task.columns PROVE SoundColumn(x, task.columns)
  <2>1. SettledColumn(task, work[c], x)
    BY <1>1 DEF Defining
  <2> QED BY <1>1, <2>1 DEF SettledColumn, Awaits, SoundColumn, Forbidden
<1>6. SoundDefinition(task.columns) /\ calls[c] = Idle
  BY <1>1, <1>5 DEF SoundDefinition, Defining
<1> QED BY <1>2, <1>4, <1>6, Validating

\* A column that has been judged leaves a goroutine a column less to go.
LEMMA JudgesTo ==
  ASSUME NEW c \in Active, work[c] \in Work, NEW x \in Names, NEW step \in Steps,
         NEW complaints \in SUBSET Found, Judge(c, x, step, complaints)
  PROVE  \E w \in Work : /\ work' = [work EXCEPT ![c] = w] /\ w.step = step
                        /\ w.todo = work[c].todo \ {x} /\ w.column = x
<1> DEFINE errors == {Error(x, k) : k \in complaints}
           w == [work[c] EXCEPT !.step = step, !.todo = @ \ {x}, !.column = x,
                                !.errors = @ \cup errors]
<1>1. errors \subseteq [field : Names, kind : Found]
  BY DEF Error
<1>2. work' = [work EXCEPT ![c] = w]
  BY DEF Judge, Continue
<1> HIDE DEF errors
<1>3. /\ w \in Work /\ w.step = step /\ w.todo = work[c].todo \ {x} /\ w.column = x
  BY <1>1 DEF Work
<1> QED BY <1>2, <1>3

LEMMA Checks ==
  ASSUME RulesInv, CacheInv', NEW c \in Active, CheckColumn(c)
  PROVE  RulesInv'
<1> DEFINE task == tasks[c]
<1>1. /\ work[c] \in Work /\ work[c].step = "validate" /\ IsTask(task) /\ c \in Callers
      /\ work[c].todo \subseteq DOMAIN task.columns
      /\ SoundDefinition(task.columns) /\ calls[c] = Idle
  BY ActiveTask DEF CheckColumn, Doing, RulesInv, Progress
<1>2. PICK x \in work[c].todo : CheckComputed(c, x) \/ CheckValue(c, x) \/ CheckMissing(c, x)
  BY DEF CheckColumn
<1>3. x \in DOMAIN task.columns /\ x \in Names
  BY <1>1 DEF IsTask
<1>4. ASSUME NEW complaints \in SUBSET Found, Judge(c, x, "validate", complaints),
             UNCHANGED cacheVars
      PROVE  RulesInv'
  <2>1. PICK w \in Work : /\ work' = [work EXCEPT ![c] = w] /\ w.step = "validate"
                          /\ w.todo = work[c].todo \ {x} /\ w.column = x
    BY <1>1, <1>3, <1>4, JudgesTo DEF Steps
  <2>2. UNCHANGED <<tasks, calls>>
    BY <1>4 DEF Judge, Continue, cacheVars
  <2> QED BY <1>1, <2>1, <2>2, Validating
<1>5. CASE CheckComputed(c, x)
  <2>1. (IF x \in DOMAIN Task(c).record THEN {"stored"} ELSE {}) \in SUBSET Found
    BY DEF Found, ErrorKinds
  <2> QED BY <1>4, <1>5, <2>1 DEF CheckComputed
<1>6. CASE CheckValue(c, x)
  <2> DEFINE v == ValueOf(Task(c), x)
  <2>1. Complaints(v, Col(c, x)) \in SUBSET Found
    BY DEF Complaints, Found, ErrorKinds
  <2>2. CASE Continue(c, [work[c] EXCEPT !.step = "panicked"]) /\ UNCHANGED cacheVars
    <3> DEFINE w == [work[c] EXCEPT !.step = "panicked"]
    <3>1. work' = [work EXCEPT ![c] = w] /\ UNCHANGED <<tasks, calls>>
      BY <2>2 DEF Continue, cacheVars
    <3>2. w \in Work /\ w.step = "panicked" /\ w.todo = work[c].todo
      BY <1>1 DEF Work, Steps
    <3> HIDE DEF w
    <3> QED BY <1>1, <3>1, <3>2, Validating
  <2>3. CASE Judge(c, x, "validate", Complaints(v, Col(c, x))) /\ UNCHANGED cacheVars
    BY <1>4, <2>1, <2>3
  <2> QED BY <1>6, <2>2, <2>3 DEF CheckValue
<1>7. CASE CheckMissing(c, x)
  <2>1. CASE /\ Judge(c, x, "validate", IF Col(c, x).required THEN {"missing"} ELSE {})
             /\ UNCHANGED cacheVars
    <3>1. (IF Col(c, x).required THEN {"missing"} ELSE {}) \in SUBSET Found
      BY DEF Found, ErrorKinds
    <3> QED BY <1>4, <2>1, <3>1
  <2>2. CASE /\ Col(c, x).when # NoSource
             /\ Judge(c, x, "evaluate", {})
             /\ Ask(c, [mode |-> "open", source |-> Col(c, x).when,
                        declared |-> DOMAIN StoredFields(Task(c))])
    <3> DEFINE request == [mode |-> "open", source |-> task.columns[x].when,
                           declared |-> DOMAIN StoredFields(task)]
               call == Call("load", request, NoProgram)
    <3>1. PICK w \in Work : /\ work' = [work EXCEPT ![c] = w] /\ w.step = "evaluate"
                            /\ w.todo = work[c].todo \ {x} /\ w.column = x
      BY <1>1, <1>3, <2>2, JudgesTo DEF Steps
    <3>2. calls' = [calls EXCEPT ![c] = call] /\ UNCHANGED tasks
      BY <2>2 DEF Ask, Judge, Continue, Col, Task
    <3>3. call # Idle /\ call.request = request
      BY DEF Call, Idle
    <3> HIDE DEF call
    <3>4. calls'[c] = call /\ \A b \in Callers \ {c} : calls'[b] = calls[b]
      BY <1>1, <3>2 DEF RulesInv, CacheInv, CacheTypeOK
    <3>5. request = OpenRequest(task, w)
      BY <3>1 DEF OpenRequest
    <3>6. Evaluating(task, w, calls'[c])
      BY <1>3, <2>2, <3>1, <3>3, <3>4, <3>5 DEF Evaluating, Col
    <3>7. Progress(task, w, calls'[c])
      BY <1>1, <3>1, <3>6 DEF Progress
    <3> QED BY <3>1, <3>2, <3>4, <3>7, OneGoes
  <2> QED BY <1>7, <2>1, <2>2 DEF CheckMissing
<1> QED BY <1>2, <1>5, <1>6, <1>7

\* A condition that was resolved when its definition was loaded is neither
\* malformed nor undefined for any record.
LEMMA OutcomeIsFound ==
  ASSUME NEW task, NEW x \in DOMAIN task.columns, SoundDefinition(task.columns),
         task.columns[x].when # NoSource
  PROVE  /\ task.columns[x].when \notin Malformed
         /\ Outcome(task.columns[x].when, StoredFields(task)) \in SUBSET Found
<1> DEFINE source == task.columns[x].when
<1>1. Resolvable(source, task.columns)
  BY DEF SoundDefinition, SoundColumn
<1>2. FreeNames[source] \subseteq DOMAIN StoredFields(task) \cup Builtins
  BY <1>1 DEF Resolvable, StoredFields
<1>3. {"unconvertible"} \in SUBSET Found /\ {"missing"} \in SUBSET Found
  BY DEF Found, ErrorKinds
<1>4. {"notBoolean"} \in SUBSET Found /\ {"failed"} \in SUBSET Found
  BY DEF Found, ErrorKinds
<1> QED BY <1>1, <1>2, <1>3, <1>4 DEF Outcome, Resolvable

LEMMA Evaluates ==
  ASSUME RulesInv, CacheInv', NEW c \in Active, EvaluateCondition(c)
  PROVE  RulesInv'
<1> DEFINE task == tasks[c]
           x == work[c].column
           fields == StoredFields(task)
<1>1. /\ work[c] \in Work /\ work[c].step = "evaluate" /\ IsTask(task) /\ c \in Callers
      /\ work[c].todo \subseteq DOMAIN task.columns
      /\ SoundDefinition(task.columns) /\ Evaluating(task, work[c], calls[c])
  BY ActiveTask DEF EvaluateCondition, Doing, RulesInv, Progress
<1>2. x \in DOMAIN task.columns /\ task.columns[x].when # NoSource /\ x \in Names
  BY <1>1 DEF Evaluating, IsTask
<1>3. /\ task.columns[x].when \notin Malformed
      /\ Outcome(task.columns[x].when, fields) \in SUBSET Found
  BY <1>1, <1>2, OutcomeIsFound
<1>4. Compiles(calls[c].request)
  BY <1>1, <1>3 DEF Evaluating, OpenRequest, Compiles
<1>5. calls[c].program # NoProgram
  BY <1>4, Verdict DEF EvaluateCondition, Finish
<1>6. Judge(c, x, "validate", Outcome(task.columns[x].when, fields))
  BY <1>5 DEF EvaluateCondition, Col, Task
<1>7. PICK w \in Work : /\ work' = [work EXCEPT ![c] = w] /\ w.step = "validate"
                        /\ w.todo = work[c].todo \ {x} /\ w.column = x
  BY <1>1, <1>2, <1>3, <1>6, JudgesTo DEF Steps
<1>8. calls'[c] = Idle /\ (\A b \in Callers \ {c} : calls'[b] = calls[b]) /\ UNCHANGED tasks
  BY <1>1, <1>6 DEF EvaluateCondition, Finish, Judge, Continue, RulesInv, CacheInv, CacheTypeOK
<1>9. Progress(task, w, calls'[c])
  BY <1>1, <1>7, <1>8 DEF Progress
<1> QED BY <1>7, <1>8, <1>9, OneGoes

LEMMA Returns ==
  ASSUME RulesInv, CacheInv', NEW c \in Active, ReturnErrors(c)
  PROVE  RulesInv'
<1> DEFINE w == [work[c] EXCEPT !.step = "done"]
<1>1. /\ work[c] \in Work /\ work[c].todo \subseteq DOMAIN tasks[c].columns
      /\ SoundDefinition(tasks[c].columns) /\ calls[c] = Idle
  BY DEF ReturnErrors, Doing, RulesInv, Progress
<1>2. work' = [work EXCEPT ![c] = w] /\ UNCHANGED <<tasks, calls>>
  BY DEF ReturnErrors, Continue, cacheVars
<1>3. w \in Work /\ w.step = "done" /\ w.todo = work[c].todo
  BY <1>1 DEF Work, Steps
<1> HIDE DEF w
<1> QED BY <1>1, <1>2, <1>3, Validating

LEMMA RulesInvInductive == RulesInv /\ [Next]_vars => RulesInv'
<1> SUFFICES ASSUME RulesInv, [Next]_vars PROVE RulesInv'
  OBVIOUS
<1>1. CacheInv'
  BY StepUsesTheCache, CacheInvInductive DEF RulesInv
<1>2. CASE UNCHANGED vars
  BY <1>1, <1>2 DEF vars, RulesInv, Active
<1>3. CASE Next
  <2>1. PICK c \in Active :
          \/ DefineColumn(c) \/ ResolveExpression(c) \/ TakeResolution(c)
          \/ StartRecord(c) \/ CheckColumn(c) \/ EvaluateCondition(c)
          \/ ReturnErrors(c)
          \/ CompileStep(c) /\ UNCHANGED <<tasks, work>>
    BY <1>3 DEF Next
  <2>2. CASE DefineColumn(c) \/ ResolveExpression(c) \/ TakeResolution(c)
    BY <1>1, <2>2, Defines, Resolves, Takes
  <2>3. CASE StartRecord(c) \/ CheckColumn(c) \/ EvaluateCondition(c) \/ ReturnErrors(c)
    BY <1>1, <2>3, StartsRecord, Checks, Evaluates, Returns
  <2>4. CASE CompileStep(c) /\ UNCHANGED <<tasks, work>>
    BY <1>1, <2>4, Compiling
  <2> QED BY <2>1, <2>2, <2>3, <2>4
<1> QED BY <1>2, <1>3

LEMMA RulesInvHolds == Spec => []RulesInv
BY Starts, RulesInvInductive, PTL DEF Spec

-----------------------------------------------------------------------------
(* What is complained of is what is wrong. *)

LEMMA KnownTypes ==
  /\ ListTypes = {"[]string", "[]int", "[]float", "[]bool", "[]temporal", "[]any"}
  /\ PlainTypes \cap ListTypes = {}
  /\ \A list \in ListTypes : ElementType[list] \in PlainTypes
<1>1. ListTypes = {"[]string", "[]int", "[]float", "[]bool", "[]temporal", "[]any"}
  BY DEF ListTypes, ElementType
<1>2. PlainTypes \cap ListTypes = {}
  BY <1>1 DEF PlainTypes
<1>3. \A list \in ListTypes : ElementType[list] \in PlainTypes
  BY <1>1 DEF ElementType, PlainTypes
<1> QED BY <1>1, <1>2, <1>3

\* The checks of one value against a plain type say what the type means, of
\* every value that a parser makes.
LEMMA PlainMatches ==
  ASSUME NEW v \in Values \cup {Nil}, NEW type \in PlainTypes
  PROVE  HasPlainType(v, type) <=> MeetsPlain(v, type)
<1>1. v.kind \in Kinds \cup {"nil"} /\ (v.kind \in {"int", "uint"} => v.n % 2 = 0)
  BY ValueAssumption DEF Nil
<1>2. CASE type \in {"any", "int", "float", "temporal", "l10n"}
  BY <1>1, <1>2 DEF HasPlainType, MeetsPlain, Meant, Kinds
<1>3. CASE type \in {"string", "bool", "map"}
  BY <1>1, <1>3 DEF HasPlainType, MeetsPlain, Meant, Kinds
<1> QED BY <1>2, <1>3 DEF PlainTypes

LEMMA TypeMatches ==
  ASSUME NEW v \in Values, NEW type \in PlainTypes \cup ListTypes
  PROVE  MatchesType(v, type) <=> MeetsType(v, type)
<1>1. CASE type \in PlainTypes
  BY <1>1, PlainMatches, KnownTypes DEF MatchesType, MeetsType
<1>2. CASE type \in ListTypes
  <2>1. ElementType[type] \in PlainTypes /\ type \notin PlainTypes
    BY <1>2, KnownTypes
  <2>2. ASSUME NEW i \in DOMAIN v.items
        PROVE  HasPlainType(v.items[i], ElementType[type])
                 <=> MeetsPlain(v.items[i], ElementType[type])
    BY <2>1, <2>2, PlainMatches, ValueAssumption
  <2> QED BY <1>2, <2>1, <2>2 DEF MatchesType, MeetsType
<1> QED BY <1>1, <1>2

\* A value is complained of, and once, exactly when it does not satisfy its column,
\* but for unsigned integers against a range or an enum.
LEMMA ComplaintsAreRight ==
  ASSUME NEW v \in Values, NEW col \in Columns, col.type # "unknown",
         NEW complaints, complaints = Complaints(v, col)
  PROVE  /\ \/ v.kind = "uint" /\ {col.minValue, col.maxValue} # {Unset}
            \/ v.kind \in Numbers /\ \E m \in col.enum : "uint" \in {v.kind, m.kind}
            \/ complaints # {} <=> ~Meets(v, col)
         /\ \A j, k \in complaints : j = k
<1> SUFFICES ASSUME /\ v.kind = "uint" => {col.minValue, col.maxValue} = {Unset}
                    /\ v.kind \in Numbers => \A m \in col.enum : "uint" \notin {v.kind, m.kind}
             PROVE  complaints # {} <=> ~Meets(v, col)
  BY DEF Complaints
<1>1. MatchesType(v, col.type) <=> MeetsType(v, col.type)
  BY TypeMatches, TypeAssumption DEF Columns
<1>2. Permitted(v, col.enum) <=> MeetsEnum(v, col.enum)
  BY DEF Permitted, EnumValuesEqual, MeetsEnum, IsNumeric, Equal, Numbers
<1>3. InRange(v, col) <=> (v.kind \in Numbers => Within(v.n, col.minValue, col.maxValue))
  <2>1. CASE v.kind = "uint"
    <3>1. col.minValue = Unset /\ col.maxValue = Unset
      BY <2>1
    <3> QED BY <2>1, <3>1 DEF InRange, IsNumeric, Within
  <2>2. CASE v.kind # "uint"
    BY <2>2 DEF InRange, IsNumeric, Numbers
  <2> QED BY <2>1, <2>2
<1>4. FitsLength(v, col) <=>
        (HasLength(v) => \A bound \in {<<col.length, col.length>>, <<col.minLength, col.maxLength>>} :
                           Within(LengthOf(v), bound[1], bound[2]))
  BY DEF FitsLength
<1> QED BY <1>1, <1>2, <1>3, <1>4 DEF Complaints, Meets

\* A condition is complained of, and once, exactly when what is missing is a
\* fault, but for conditions beside a time that they do not ask about.
LEMMA OutcomeIsRight ==
  ASSUME NEW task, NEW x \in DOMAIN task.columns, SoundDefinition(task.columns),
         task.columns[x].when # NoSource, ValueOf(task, x) = Nil
  PROVE  LET outcome == Outcome(task.columns[x].when, StoredFields(task))
         IN /\ ~Disputed(task, x) => (outcome # {} <=> Faulted(task, x))
            /\ \A j, k \in outcome : j = k
<1> DEFINE source == task.columns[x].when
           fields == StoredFields(task)
<1>1. FreeNames[source] \subseteq DOMAIN fields \cup Builtins
  BY DEF SoundDefinition, SoundColumn, Resolvable, StoredFields
<1>2. Faulted(task, x) <=> \/ \E y \in Asked(source, fields) : ~Convertible(fields[y])
                           \/ Evaluate(source, fields) # "false"
  BY DEF Faulted
<1>4. Disputed(task, x) <=>
        \E y \in DOMAIN fields \ Asked(source, fields) : ~Convertible(fields[y])
  BY DEF Disputed
<1> HIDE DEF fields, source
<1>3. /\ Outcome(source, fields) # {} <=> \/ \E y \in DOMAIN fields : ~Convertible(fields[y])
                                          \/ Evaluate(source, fields) # "false"
      /\ \A j, k \in Outcome(source, fields) : j = k
  BY <1>1 DEF Outcome
<1>5. Asked(source, fields) \subseteq DOMAIN fields
  BY DEF Asked
<1> QED BY <1>2, <1>3, <1>4, <1>5 DEF fields, source

-----------------------------------------------------------------------------
(* The errors of a record, column by column. *)

\* columns that have yet to be judged
Pending(w) == w.todo \cup {x \in {w.column} : w.step = "evaluate"}
Of(w, x)   == {e \in w.errors : e.field = x}
JudgedExactly(task, w, x) ==
  /\ ~Disputed(task, x) => (Of(w, x) # {} <=> Faulty(task, x))
  /\ \A e, f \in Of(w, x) : e = f

\* what a goroutine has said of each name, and why it evaluates a condition
Judged(task, w) ==
  /\ w.step \in {"validate", "evaluate", "done"} =>
       \A x \in Names : IF x \in Pending(w) THEN Of(w, x) = {} ELSE JudgedExactly(task, w, x)
  /\ w.step = "evaluate" => /\ w.column \notin w.todo
                            /\ task.columns[w.column].formula = NoSource
                            /\ ValueOf(task, w.column) = Nil
  /\ w.step = "done" => w.todo = {}

ExactInv == \A c \in Active : Judged(tasks[c], work[c])

\* One goroutine judges: what the others found stands.
LEMMA OneJudges ==
  ASSUME RulesInv, ExactInv, UNCHANGED tasks, NEW c \in Active, NEW w,
         work' = [work EXCEPT ![c] = w], Judged(tasks[c], w)
  PROVE  ExactInv'
<1>1. Active' = Active /\ \A b \in Active : work'[b] = IF b = c THEN w ELSE work[b]
  BY DEF RulesInv, Active
<1>2. \A b \in Active : Judged(tasks[b], work'[b])
  BY <1>1 DEF ExactInv
<1> QED BY <1>1, <1>2 DEF ExactInv

\* A column that is judged rightly leaves every column judged or pending.
LEMMA JudgesExactly ==
  ASSUME RulesInv, ExactInv, NEW c \in Active, NEW x \in Names,
         Pending(work[c]) \ {x} = work[c].todo \ {x}, x \in Pending(work[c]),
         work[c].step \in {"validate", "evaluate"},
         NEW complaints, Judge(c, x, "validate", complaints),
         ~Disputed(tasks[c], x) => (complaints # {} <=> Faulty(tasks[c], x)),
         \A j, k \in complaints : j = k
  PROVE  ExactInv'
<1> DEFINE task == tasks[c]
           new  == {Error(x, k) : k \in complaints}
           w == [work[c] EXCEPT !.step = "validate", !.todo = @ \ {x}, !.column = x,
                                !.errors = @ \cup new]
<1>1. work' = [work EXCEPT ![c] = w] /\ UNCHANGED tasks
  BY DEF Judge, Continue
<1>2. work[c] \in Work /\ Judged(task, work[c])
  BY DEF RulesInv, Progress, ExactInv
<1>3. /\ w.step = "validate" /\ w.todo = work[c].todo \ {x}
      /\ w.errors = work[c].errors \cup new
  BY <1>2 DEF Work
<1>4. /\ \A e \in new : e.field = x
      /\ new # {} <=> complaints # {}
      /\ \A e, f \in new : e = f
  <2>1. \A e \in new : e.field = x
    BY DEF Error
  <2>2. \A k \in complaints : Error(x, k) \in new
    OBVIOUS
  <2>3. new # {} <=> complaints # {}
    BY <2>2
  <2>4. \A e, f \in new : e = f
    OBVIOUS
  <2> QED BY <2>1, <2>3, <2>4
<1> HIDE DEF w, new
<1>5. Pending(w) = work[c].todo \ {x}
  BY <1>3 DEF Pending
<1>6. Of(w, x) = new
  <2>1. Of(work[c], x) = {}
    BY <1>2 DEF Judged
  <2> QED BY <1>3, <1>4, <2>1 DEF Of
<1>7. JudgedExactly(task, w, x)
  BY <1>4, <1>6 DEF JudgedExactly
<1>8. ASSUME NEW y \in Names, y # x
      PROVE  IF y \in Pending(w) THEN Of(w, y) = {} ELSE JudgedExactly(task, w, y)
  <2>1. Of(w, y) = Of(work[c], y)
    BY <1>3, <1>4, <1>8 DEF Of
  <2>2. y \in Pending(w) <=> y \in Pending(work[c])
    BY <1>5, <1>8
  <2> QED BY <1>2, <2>1, <2>2 DEF Judged, JudgedExactly
<1>9. Judged(task, w)
  BY <1>3, <1>5, <1>7, <1>8 DEF Judged
<1> QED BY <1>1, <1>9, OneJudges

\* What the record has and the collection does not is found before any column.
LEMMA StartIsExact ==
  ASSUME RulesInv, ExactInv, NEW c \in Active, StartRecord(c)
  PROVE  ExactInv'
<1> DEFINE task == tasks[c]
           w == [work[c] EXCEPT !.step = "validate", !.todo = DOMAIN task.columns,
                                !.errors = Undeclared(task)]
<1>1. work' = [work EXCEPT ![c] = w] /\ UNCHANGED tasks
  BY DEF StartRecord, Continue, Task
<1>2. work[c] \in Work
  BY DEF RulesInv, Progress
<1>3. /\ w.step = "validate" /\ w.todo = DOMAIN task.columns /\ w.errors = Undeclared(task)
  BY <1>2 DEF Work
<1> HIDE DEF w
<1>4. ASSUME NEW x \in Names
      PROVE  IF x \in Pending(w) THEN Of(w, x) = {} ELSE JudgedExactly(task, w, x)
  <2>1. Pending(w) = DOMAIN task.columns
    BY <1>3 DEF Pending
  <2>2. Of(w, x) = IF x \in DOMAIN task.record \ (DOMAIN task.columns \cup Reserved)
                   THEN {Error(x, "undeclared")} ELSE {}
    BY <1>3 DEF Of, Undeclared, Error
  <2>3. x \notin DOMAIN task.columns => ~Disputed(task, x)
    BY DEF Disputed
  <2> QED BY <2>1, <2>2, <2>3 DEF JudgedExactly, Faulty
<1>5. Judged(task, w)
  BY <1>3, <1>4 DEF Judged
<1> QED BY <1>1, <1>5, OneJudges

LEMMA CheckIsExact ==
  ASSUME RulesInv, ExactInv, NEW c \in Active, CheckColumn(c)
  PROVE  ExactInv'
<1> DEFINE task == tasks[c]
<1>1. /\ work[c] \in Work /\ work[c].step = "validate" /\ IsTask(task)
      /\ work[c].todo \subseteq DOMAIN task.columns
      /\ SoundDefinition(task.columns) /\ Judged(task, work[c])
  BY ActiveTask DEF CheckColumn, Doing, RulesInv, Progress, ExactInv
<1>2. PICK x \in work[c].todo : CheckComputed(c, x) \/ CheckValue(c, x) \/ CheckMissing(c, x)
  BY DEF CheckColumn
<1> DEFINE col == task.columns[x]
           v   == ValueOf(task, x)
<1>3. x \in DOMAIN task.columns /\ x \in Names /\ col \in Columns /\ col.type # "unknown"
  BY <1>1 DEF IsTask, SoundDefinition, SoundColumn
<1>4. /\ Pending(work[c]) = work[c].todo /\ x \in Pending(work[c])
      /\ work[c].step \in {"validate", "evaluate"}
  BY <1>1 DEF Pending
<1>5. ASSUME NEW complaints, Judge(c, x, "validate", complaints),
             ~Disputed(task, x) => (complaints # {} <=> Faulty(task, x)),
             \A j, k \in complaints : j = k
      PROVE  ExactInv'
  BY <1>3, <1>4, <1>5, JudgesExactly
<1>6. v \in Values \cup {Nil}
  BY <1>1, ValueAssumption DEF ValueOf, IsTask
<1>7. CASE CheckComputed(c, x)
  <2> DEFINE found == IF x \in DOMAIN task.record THEN {"stored"} ELSE {}
  <2>1. Judge(c, x, "validate", found) /\ col.formula # NoSource
    BY <1>7 DEF CheckComputed, Col, Task
  <2>2. (found # {} <=> Faulty(task, x)) /\ \A j, k \in found : j = k
    BY <1>3, <2>1 DEF Faulty
  <2> HIDE DEF found
  <2> QED BY <1>5, <2>1, <2>2
<1>8. CASE CheckValue(c, x)
  <2>1. col.formula = NoSource /\ v # Nil
    BY <1>8 DEF CheckValue, Col, Task
  <2>2. CASE Continue(c, [work[c] EXCEPT !.step = "panicked"])
    <3> DEFINE w == [work[c] EXCEPT !.step = "panicked"]
    <3>1. w.step = "panicked"
      BY <1>1 DEF Work
    <3>2. work' = [work EXCEPT ![c] = w] /\ UNCHANGED tasks
      BY <2>2 DEF Continue
    <3> HIDE DEF w
    <3>3. Judged(task, w)
      BY <3>1 DEF Judged
    <3> QED BY <3>2, <3>3, OneJudges
  <2>3. CASE Judge(c, x, "validate", Complaints(v, col))
    <3>1. Faulty(task, x) <=> ~Meets(v, col)
      BY <1>3, <2>1 DEF Faulty
    <3> DEFINE complaints == Complaints(v, col)
    <3>2. v \in Values
      BY <1>6, <2>1
    <3> HIDE DEF v, col
    <3>3. /\ \/ v.kind = "uint" /\ {col.minValue, col.maxValue} # {Unset}
             \/ v.kind \in Numbers /\ \E m \in col.enum : "uint" \in {v.kind, m.kind}
             \/ complaints # {} <=> ~Meets(v, col)
          /\ \A j, k \in complaints : j = k
      BY <1>3, <3>2, ComplaintsAreRight
    <3>4. Disputed(task, x) <=>
             \/ v.kind = "uint" /\ {col.minValue, col.maxValue} # {Unset}
             \/ v.kind \in Numbers /\ \E m \in col.enum : "uint" \in {v.kind, m.kind}
      BY <1>3, <2>1 DEF Disputed, v, col
    <3>5. ~Disputed(task, x) => (complaints # {} <=> Faulty(task, x))
      BY <3>1, <3>3, <3>4
    <3>6. Judge(c, x, "validate", complaints)
      BY <2>3 DEF v, col
    <3> HIDE DEF complaints
    <3> QED BY <1>5, <3>3, <3>5, <3>6
  <2> QED BY <1>8, <2>2, <2>3 DEF CheckValue, Col, Task
<1>9. CASE CheckMissing(c, x)
  <2>1. col.formula = NoSource /\ v = Nil
    BY <1>9 DEF CheckMissing, Col, Task
  <2>2. CASE col.when = NoSource /\ Judge(c, x, "validate", IF col.required THEN {"missing"} ELSE {})
    <3> DEFINE found == IF col.required THEN {"missing"} ELSE {}
    <3>1. Faulty(task, x) <=> col.required
      BY <1>3, <2>1, <2>2 DEF Faulty, Faulted
    <3>2. (found # {} <=> Faulty(task, x)) /\ \A j, k \in found : j = k
      BY <3>1
    <3>3. Judge(c, x, "validate", found)
      BY <2>2
    <3> HIDE DEF found
    <3> QED BY <1>5, <3>2, <3>3
  <2>3. CASE Judge(c, x, "evaluate", {})
    <3> DEFINE w == [work[c] EXCEPT !.step = "evaluate", !.todo = @ \ {x}, !.column = x,
                                    !.errors = @ \cup {Error(x, k) : k \in {}}]
    <3>1. work' = [work EXCEPT ![c] = w] /\ UNCHANGED tasks
      BY <2>3 DEF Judge, Continue
    <3>2. /\ w.step = "evaluate" /\ w.todo = work[c].todo \ {x} /\ w.column = x
          /\ w.errors = work[c].errors
      BY <1>1 DEF Work
    <3> HIDE DEF w
    <3>3. Pending(w) = Pending(work[c])
      BY <1>2, <1>4, <3>2 DEF Pending
    <3>4. \A y : Of(w, y) = Of(work[c], y)
      BY <3>2 DEF Of
    <3>5. Judged(task, w)
      BY <1>1, <2>1, <3>2, <3>3, <3>4 DEF Judged, JudgedExactly
    <3> QED BY <3>1, <3>5, OneJudges
  <2> QED BY <1>9, <2>2, <2>3 DEF CheckMissing, Col, Task
<1> QED BY <1>2, <1>7, <1>8, <1>9

LEMMA EvaluationIsExact ==
  ASSUME RulesInv, ExactInv, NEW c \in Active, EvaluateCondition(c)
  PROVE  ExactInv'
<1> DEFINE task == tasks[c]
           x == work[c].column
           outcome == Outcome(task.columns[x].when, StoredFields(task))
<1>1. /\ work[c] \in Work /\ work[c].step = "evaluate" /\ IsTask(task)
      /\ SoundDefinition(task.columns) /\ Evaluating(task, work[c], calls[c])
      /\ Judged(task, work[c])
  BY ActiveTask DEF EvaluateCondition, Doing, RulesInv, Progress, ExactInv
<1>2. /\ x \in DOMAIN task.columns /\ task.columns[x].when # NoSource /\ x \in Names
      /\ task.columns[x].formula = NoSource /\ ValueOf(task, x) = Nil
  BY <1>1 DEF Evaluating, IsTask, Judged
<1>3. Compiles(calls[c].request)
  BY <1>1, <1>2, OutcomeIsFound DEF Evaluating, OpenRequest, Compiles
<1>4. calls[c].program # NoProgram
  BY <1>3, Verdict DEF EvaluateCondition, Finish
<1>5. Judge(c, x, "validate", outcome)
  BY <1>4 DEF EvaluateCondition, Col, Task
<1>6. /\ ~Disputed(task, x) => (outcome # {} <=> Faulted(task, x))
      /\ \A j, k \in outcome : j = k
  BY <1>1, <1>2, OutcomeIsRight
<1>7. Faulty(task, x) <=> Faulted(task, x)
  BY <1>2 DEF Faulty
<1>8. /\ Pending(work[c]) \ {x} = work[c].todo \ {x} /\ x \in Pending(work[c])
      /\ work[c].step \in {"validate", "evaluate"}
  BY <1>1 DEF Pending
<1> HIDE DEF outcome
<1> QED BY <1>2, <1>5, <1>6, <1>7, <1>8, JudgesExactly

LEMMA ReturnIsExact ==
  ASSUME RulesInv, ExactInv, NEW c \in Active, ReturnErrors(c)
  PROVE  ExactInv'
<1> DEFINE w == [work[c] EXCEPT !.step = "done"]
<1>1. work' = [work EXCEPT ![c] = w] /\ UNCHANGED tasks
  BY DEF ReturnErrors, Continue
<1>2. /\ work[c] \in Work /\ work[c].step = "validate" /\ work[c].todo = {}
      /\ Judged(tasks[c], work[c])
  BY DEF ReturnErrors, Doing, RulesInv, Progress, ExactInv
<1>3. w.step = "done" /\ w.todo = {} /\ w.errors = work[c].errors
  BY <1>2 DEF Work
<1> HIDE DEF w
<1>4. Pending(w) = Pending(work[c]) /\ \A y : Of(w, y) = Of(work[c], y)
  BY <1>2, <1>3 DEF Pending, Of
<1>5. Judged(tasks[c], w)
  BY <1>2, <1>3, <1>4 DEF Judged, JudgedExactly
<1> QED BY <1>1, <1>5, OneJudges

\* A goroutine that loads its collection, or waits for a program, has judged nothing.
LEMMA LoadingIsExact ==
  ASSUME RulesInv, ExactInv, NEW c \in Active,
         DefineColumn(c) \/ ResolveExpression(c) \/ TakeResolution(c)
  PROVE  ExactInv'
<1>1. work[c].step = "define" /\ work[c] \in Work /\ UNCHANGED tasks
  BY DEF DefineColumn, ResolveExpression, TakeResolution, Doing, Reject, Continue, RulesInv,
         Progress
<1>2. ASSUME NEW w, Continue(c, w), w.step \in {"define", "rejected"} PROVE ExactInv'
  <2>1. Judged(tasks[c], w)
    BY <1>2 DEF Judged
  <2> QED BY <1>2, <2>1, OneJudges DEF Continue
<1>3. CASE Reject(c)
  BY <1>1, <1>2, <1>3 DEF Reject, Work
<1>4. ASSUME NEW x, Continue(c, [work[c] EXCEPT !.todo = @ \ {x}, !.column = x,
                                                !.exprs = Expressions(Col(c, x))])
      PROVE  ExactInv'
  BY <1>1, <1>2, <1>4 DEF Work
<1>5. CASE Continue(c, [work[c] EXCEPT !.exprs = Tail(@)])
  BY <1>1, <1>2, <1>5 DEF Work
<1>6. CASE UNCHANGED <<tasks, work>>
  BY <1>6 DEF ExactInv, Active
<1> QED BY <1>3, <1>4, <1>5, <1>6 DEF DefineColumn, ResolveExpression, TakeResolution

LEMMA ExactInvInductive == RulesInv /\ ExactInv /\ [Next]_vars => ExactInv'
<1> SUFFICES ASSUME RulesInv, ExactInv, [Next]_vars PROVE ExactInv'
  OBVIOUS
<1>1. CASE UNCHANGED <<tasks, work>>
  BY <1>1 DEF ExactInv, Active
<1>2. CASE Next
  <2>1. PICK c \in Active :
          \/ DefineColumn(c) \/ ResolveExpression(c) \/ TakeResolution(c)
          \/ StartRecord(c) \/ CheckColumn(c) \/ EvaluateCondition(c)
          \/ ReturnErrors(c)
          \/ CompileStep(c) /\ UNCHANGED <<tasks, work>>
    BY <1>2 DEF Next
  <2> QED BY <1>1, <2>1, LoadingIsExact, StartIsExact, CheckIsExact, EvaluationIsExact,
             ReturnIsExact
<1> QED BY <1>1, <1>2 DEF vars

-----------------------------------------------------------------------------
(* Theorems. *)

\* Every variable keeps its type, for any collections, records and formulas.
THEOREM RulesTypeCorrect == Spec => []TypeOK
<1>1. ASSUME RulesInv, NEW c \in Active
      PROVE  /\ c \in Callers /\ IsTask(tasks[c])
             /\ work[c].step \in Steps
             /\ work[c].todo \subseteq Names /\ work[c].column \in Names
             /\ work[c].exprs \in Seq(Expr)
             /\ work[c].errors \subseteq [field : Names, kind : ErrorKinds]
  <2>1. work[c] \in Work /\ c \in Callers /\ IsTask(tasks[c])
    BY <1>1, ActiveTask DEF RulesInv, Progress
  <2>2. work[c].errors \subseteq [field : Names, kind : ErrorKinds]
    BY <2>1 DEF Work, Found
  <2> QED BY <2>1, <2>2 DEF Work
<1>2. RulesInv => TypeOK
  BY <1>1 DEF TypeOK, RulesInv, CacheInv, Steps, Expr
<1> QED BY <1>2, RulesInvHolds, PTL

\* All that loading collections and validating records does to the shared cache
\* is what any client of it may do, so what is proved of the cache holds here.
THEOREM RulesUseTheCache == Spec => UsesTheCache
<1>1. Init => CacheInit
  BY DEF Init
<1> QED BY <1>1, RulesInvHolds, StepUsesTheCache, PTL DEF Spec, UsesTheCache, CacheSpec

\* A collection whose constraints make sense is rejected exactly when a column of
\* it is unsound among its own columns, whatever other goroutines load meanwhile.
THEOREM DefinitionsAreJudgedAlone == Spec => []JudgedOnItsOwn
<1>1. RulesInv => JudgedOnItsOwn
  BY DEF RulesInv, Progress, JudgedOnItsOwn
<1> QED BY <1>1, RulesInvHolds, PTL

\* No record makes a condition fail to resolve that its definition resolved.
THEOREM ConditionsStayResolved == Spec => []LoadedConditionsResolve
<1>1. RulesInv => LoadedConditionsResolve
  BY DEF RulesInv, Progress, LoadedConditionsResolve, Work, Found
<1> QED BY <1>1, RulesInvHolds, PTL

\* A record that has been validated has one error for each column it breaks and
\* for each field that its collection does not declare, and no other error, in
\* whatever order its columns were visited, but for what is disputed: unsigned
\* integers against a range or an enum, and conditions beside an unrelated time.
THEOREM RecordsAreJudgedExactly == Spec => []ErrorsAreExact
<1>1. Init => ExactInv
  <2> SUFFICES ASSUME Init PROVE ExactInv
    OBVIOUS
  <2>1. \A c \in Active : work[c].step = "define"
    BY DEF Init
  <2> QED BY <2>1 DEF ExactInv, Judged
<1>2. RulesInv /\ ExactInv => ErrorsAreExact
  <2> SUFFICES ASSUME RulesInv, ExactInv, NEW c \in Active, work[c].step = "done"
               PROVE  /\ \A x \in Names : ~Disputed(tasks[c], x) =>
                                            (x \in Blamed(c) <=> Faulty(tasks[c], x))
                      /\ \A e, f \in work[c].errors : e.field = f.field => e = f
    BY DEF ErrorsAreExact
  <2>1. work[c] \in Work /\ Judged(tasks[c], work[c])
    BY DEF RulesInv, Progress, ExactInv
  <2>2. \A x \in Names : JudgedExactly(tasks[c], work[c], x)
    BY <2>1 DEF Judged, Pending
  <2>3. \A e \in work[c].errors : e.field \in Names /\ e \in Of(work[c], e.field)
    BY <2>1 DEF Work, Of
  <2>4. \A x \in Names : Of(work[c], x) # {} <=> \E e \in work[c].errors : e.field = x
    BY DEF Of
  <2> QED BY <2>2, <2>3, <2>4 DEF JudgedExactly, Blamed
<1> QED BY <1>1, <1>2, RulesInvHolds, ExactInvInductive, PTL DEF Spec

\* No goroutine is answered by what the columns of another one's collection made
\* of the same text, all that ask for one key hold one program, and the records
\* of all collections share one entry for each condition.
THEOREM RulesShareSafely == Spec => [](VerdictIsItsOwn /\ OneProgram /\ OneOpenEntry)
BY RulesUseTheCache, VerdictsAreTheirOwn, AllHoldOneProgram, RecordsShareAnEntry, PTL
DEF UsesTheCache
=============================================================================
