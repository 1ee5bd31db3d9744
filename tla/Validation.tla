----------------------------- MODULE Validation -----------------------------
(***************************************************************************)
(* Validating a whole database (datavalidator.Validate).  Three passes     *)
(* read the record files, each on its own: the schema pass over the root   *)
(* collections, in the random order of a Go map; the walk over the         *)
(* subcollections, whose records live in one directory per parent record   *)
(* (an "instance"); and the foreign-key pass, which first indexes the keys *)
(* of the root collections and then walks everything again.  Files may be  *)
(* edited while the passes run.                                            *)
(***************************************************************************)
EXTENDS Integers, Sequences, FiniteSets, SequencesExt

CONSTANTS Keys,       \* record keys; integers, in their sort order
          NoKey,      \* a finding about a whole file or collection
          Collections,\* paths of ids from a root down
          NoModule,   \* the module of an id without a "."
          NoRef,      \* the record has no foreign-key value
          NoRecord,   \* there is no record with the key
          Garbage,    \* a record that does not parse or has no key
          Broken,     \* a shared records file that does not parse
          Cases,      \* what the record files may hold, and how often they may
                      \* be edited: this bounds the edits
          Layouts,    \* by path: "single", "shared", or "opaque" (no format)
          ForeignKeys,\* by path: the declared foreign_key or NoRef
          MinRecords, \* by path: min_records_count; -1 is not declared
          MaxRecords  \* by path: max_records_count; -1 is not declared

\* ids, and what foreign keys name: modules and names are integers
Ids == [module : Int, name : Int]
Id(module, name) == [module |-> module, name |-> name]

\* [fits |-> does the record satisfy its columns?, ref |-> foreign-key value]
Records == [fits : BOOLEAN, ref : Keys \cup {NoRef}]
Cells   == Records \cup {Garbage, NoRecord}
Roots   == {p \in Collections : Len(p) = 1}
RootIds == {p[1] : p \in Roots}

\* an instance of a collection: its path and one key per parent record
Instances ==
  UNION {[path : {p}, keys : [1..(Len(p) - 1) -> Keys]] : p \in Collections}
RootInstance(id) == [path |-> <<id>>, keys |-> <<>>]

ASSUME KeysAssumption ==
  Keys \subseteq Int /\ IsFiniteSet(Keys) /\ NoKey \notin Keys /\ NoRef \notin Keys
ASSUME CellAssumption ==
  {Garbage, NoRecord} \cap Records = {} /\ Broken \notin [Keys -> Cells]
ASSUME PathAssumption ==
  \A p \in Collections : /\ p \in Seq(Ids) /\ p # <<>>
                         /\ Len(p) > 1 => Front(p) \in Collections
ASSUME CaseAssumption ==
  Cases \subseteq [disk : [Instances -> [Keys -> Cells] \cup {Broken}], edits : Nat]
ASSUME DefinitionAssumption ==
  /\ Layouts \in [Collections -> {"single", "shared", "opaque"}]
  /\ ForeignKeys \in [Collections -> Ids \cup {NoRef}]
  /\ MinRecords \in [Collections -> Int] /\ MaxRecords \in [Collections -> Int]

VARIABLES disk,     \* the record files, by instance
          phase,    \* "schema", "walk", "index", "refs", then "done"
          todo,     \* roots that the schema pass or the index has not reached
          work,     \* sets of tasks still to be done, the innermost last
          counts,   \* passed and total of the ValidationResult, by path
          findings, \* the findings of the ValidationResult
          index,    \* keys of each root collection, once read
          edits,    \* edits still to be made
          edited    \* history: cells edited since validation began

vars == <<disk, phase, todo, work, counts, findings, index, edits, edited>>

-----------------------------------------------------------------------------
(* Resolving a foreign key. *)

\* bug: the bare key is tried before the module of the declaring collection
ResolveBareFirst(root, fk) ==
  IF fk \in RootIds THEN {fk} ELSE {Id(root.module, fk.name)} \cap RootIds

\* a qualified key is taken as it is; a bare one is tried in the module of the
\* declaring collection first
ResolveForeignKey(root, fk) ==
  IF fk.module # NoModule THEN {fk} \cap RootIds
  ELSE IF root.module # NoModule /\ Id(root.module, fk.name) \in RootIds
       THEN {Id(root.module, fk.name)}
       ELSE {fk} \cap RootIds

-----------------------------------------------------------------------------
(* Reading one instance. *)

Finding(kind, inst, key) == [kind |-> kind, inst |-> inst, key |-> key]
Layout(inst)  == Layouts[inst.path]
Present(inst) == {k \in Keys : disk[inst][k] # NoRecord}

\* validateCollectionRecords: a file that cannot be parsed counts as a record
Failing(inst) == {k \in Present(inst) : disk[inst][k] = Garbage \/ ~disk[inst][k].fits}
Total(inst)   == IF disk[inst] = Broken THEN 1 ELSE Cardinality(Present(inst))
Passed(inst)  == IF Layout(inst) = "opaque" THEN Total(inst)
                 ELSE IF disk[inst] = Broken THEN 0
                 ELSE Cardinality(Present(inst) \ Failing(inst))
SchemaFindings(inst) ==
  IF Layout(inst) = "opaque" THEN {}
  ELSE IF disk[inst] = Broken THEN {Finding("file", inst, NoKey)}
  ELSE {Finding("record", inst, k) : k \in Failing(inst)}
CountFindings(inst) ==
  (IF Total(inst) < MinRecords[inst.path] THEN {Finding("few", inst, NoKey)} ELSE {})
    \cup (IF MaxRecords[inst.path] \in 0..(Total(inst) - 1)
          THEN {Finding("many", inst, NoKey)} ELSE {})

\* loadCollectionRecords: what does not parse is left out
Loads(inst) == IF Layout(inst) = "opaque" \/ disk[inst] = Broken THEN {}
               ELSE {k \in Present(inst) : disk[inst][k] # Garbage}

Targets(inst) == IF ForeignKeys[inst.path] = NoRef THEN {}
                 ELSE ResolveForeignKey(inst.path[1], ForeignKeys[inst.path])
Refers(inst, k, target) ==
  /\ k \in Loads(inst) /\ target \in Targets(inst)
  /\ disk[inst][k].ref # NoRef
DanglingFindings(inst) ==
  {Finding("reference", inst, k) :
     k \in {l \in Keys : \E t \in Targets(inst) :
              Refers(inst, l, t) /\ disk[inst][l].ref \notin index[t]}}

\* bug: one directory for the instances of all parents
ChildrenOfCollection(inst) ==
  {[path |-> p, keys |-> inst.keys] :
     p \in {q \in Collections : Len(q) > 1 /\ Front(q) = inst.path}}

\* the instances below one instance: a subcollection and a parent key each
Child(inst, p, k) == [path |-> p, keys |-> Append(inst.keys, k)]
Children(inst) ==
  {Child(inst, p, k) :
     p \in {q \in Collections : Len(q) > 1 /\ Front(q) = inst.path}, k \in Loads(inst)}

-----------------------------------------------------------------------------
(* The order of the walks. *)

\* "visit" an instance, or "expand" it into what is below it
Tasks(steps, insts) == [step : steps, inst : insts]
RootTasks(steps) == Tasks(steps, {RootInstance(r) : r \in RootIds})

Here == work[Len(work)]
Drop == SubSeq(work, 1, Len(work) - 1)
Frame(S) == IF S = {} THEN <<>> ELSE <<S>>

\* roots by id; below an instance the subcollections, then the parent keys
IdBefore(m, n) == m.module < n.module \/ (m.module = n.module /\ m.name < n.name)
InstanceBefore(a, b) ==
  \/ IdBefore(Last(a.path), Last(b.path))
  \/ Last(a.path) = Last(b.path) /\ Last(a.keys) < Last(b.keys)
Before(a, b) ==
  IF a.inst = b.inst THEN a.step = "visit" ELSE InstanceBefore(a.inst, b.inst)

\* the task of the walk to do now, if it is a step of this kind
Doing(step) ==
  IF work = <<>> THEN {}
  ELSE {task \in Here : task.step = step /\ \A other \in Here \ {task} : Before(task, other)}

-----------------------------------------------------------------------------
Init ==
  /\ \E c \in Cases : disk = c.disk /\ edits = c.edits
  /\ phase = "schema"
  /\ todo = RootIds
  /\ work = <<>>
  /\ counts = [p \in Collections |-> [passed |-> 0, total |-> 0]]
  /\ findings = {}
  /\ index = [r \in RootIds |-> {}]
  /\ edited = {}

Files == <<disk, edits, edited>>

\* bug: each instance overwrites the counts of the one before it
CountAfresh(inst) ==
  counts' = [counts EXCEPT ![inst.path] = [passed |-> Passed(inst), total |-> Total(inst)]]

Count(inst) ==
  counts' = [counts EXCEPT ![inst.path] = [passed |-> @.passed + Passed(inst),
                                           total  |-> @.total + Total(inst)]]
Validate(inst) ==
  /\ Count(inst)
  /\ findings' = findings \cup SchemaFindings(inst) \cup CountFindings(inst)

ValidateRoot ==
  /\ phase = "schema"
  /\ \E r \in todo : Validate(RootInstance(r)) /\ todo' = todo \ {r}
  /\ UNCHANGED <<Files, phase, work, index>>

StartWalk ==
  /\ phase = "schema" /\ todo = {}
  /\ phase' = "walk"
  /\ work' = Frame(RootTasks({"expand"}))
  /\ UNCHANGED <<Files, todo, counts, findings, index>>

\* bug: an instance with nothing below it stays at the head of the work
ExpandParent ==
  \E task \in Doing("expand") :
    LET below == Children(task.inst)
    IN /\ below # {}
       /\ work' = Drop \o Frame(Here \ {task}) \o Frame(Tasks({"visit", "expand"}, below))
       /\ UNCHANGED <<Files, phase, todo, counts, findings, index>>

\* the parent's records are read afresh to find its instances
ExpandInstance ==
  \E task \in Doing("expand") :
    LET below == Children(task.inst)
    IN /\ work' = Drop \o Frame(Here \ {task}) \o Frame(Tasks({"visit", "expand"}, below))
       /\ UNCHANGED <<Files, phase, todo, counts, findings, index>>

ValidateInstance ==
  /\ phase = "walk"
  /\ \E task \in Doing("visit") :
       /\ Validate(task.inst)
       /\ work' = Drop \o Frame(Here \ {task})
  /\ UNCHANGED <<Files, phase, todo, index>>

StartIndex ==
  /\ phase = "walk" /\ work = <<>>
  /\ phase' = "index"
  /\ todo' = RootIds
  /\ UNCHANGED <<Files, work, counts, findings, index>>

IndexRoot ==
  /\ phase = "index"
  /\ \E r \in todo : /\ index' = [index EXCEPT ![r] = Loads(RootInstance(r))]
                     /\ todo' = todo \ {r}
  /\ UNCHANGED <<Files, phase, work, counts, findings>>

StartReferences ==
  /\ phase = "index" /\ todo = {}
  /\ phase' = "refs"
  /\ work' = Frame(RootTasks({"visit", "expand"}))
  /\ UNCHANGED <<Files, todo, counts, findings, index>>

CheckReferences ==
  /\ phase = "refs"
  /\ \E task \in Doing("visit") :
       /\ findings' = findings \cup DanglingFindings(task.inst)
       /\ work' = Drop \o Frame(Here \ {task})
  /\ UNCHANGED <<Files, phase, todo, counts, index>>

ReturnResult ==
  /\ phase = "refs" /\ work = <<>>
  /\ phase' = "done"
  /\ UNCHANGED <<Files, todo, work, counts, findings, index>>

\* somebody edits a record, in a file that parses
Edit ==
  /\ edits > 0
  /\ phase # "done"
  /\ edits' = edits - 1
  /\ \E i \in Instances, k \in Keys, c \in Cells :
       /\ disk[i] # Broken
       /\ c # disk[i][k]
       /\ disk' = [disk EXCEPT ![i][k] = c]
       /\ edited' = edited \cup {<<i, k>>}
  /\ UNCHANGED <<phase, todo, work, counts, findings, index>>

ValidationStep ==
  \/ ValidateRoot
  \/ StartWalk
  \/ ExpandInstance
  \/ ValidateInstance
  \/ StartIndex
  \/ IndexRoot
  \/ StartReferences
  \/ CheckReferences
  \/ ReturnResult

Next == ValidationStep \/ Edit

Spec == Init /\ [][Next]_vars /\ WF_vars(ValidationStep)

-----------------------------------------------------------------------------
(* Properties. *)

\* The variables range over the values the Go types allow.
TypeOK ==
  /\ disk \in [Instances -> [Keys -> Cells] \cup {Broken}]
  /\ phase \in {"schema", "walk", "index", "refs", "done"}
  /\ todo \subseteq RootIds
  /\ work \in Seq(SUBSET Tasks({"visit", "expand"}, Instances))
  /\ counts \in [Collections -> [passed : Nat, total : Nat]]
  /\ findings \subseteq [kind : {"record", "file", "few", "many", "reference"},
                         inst : Instances, key : Keys \cup {NoKey}]
  /\ index \in [RootIds -> SUBSET Keys]

\* The counts of a collection, added up over all its instances, and its
\* findings tell one story at every moment: a record that does not pass is
\* counted once and found once, and no instance is validated twice.
CountsMatchFindings ==
  \A p \in Collections :
    counts[p].total - counts[p].passed =
      Cardinality({f \in findings : f.inst.path = p /\ f.kind \in {"record", "file"}})

\* A fault is found exactly when it is there, wherever in the tree it is and
\* in whatever order the roots are visited, even if other files are edited
\* meanwhile: only what depends on an edited record may be judged either way.
Ancestor(inst, n) == [path |-> SubSeq(inst.path, 1, n), keys |-> SubSeq(inst.keys, 1, n - 1)]
Still(inst) == \A n \in 1..(Len(inst.path) - 1) : <<Ancestor(inst, n), inst.keys[n]>> \notin edited
OnPath(inst) == \A n \in 1..(Len(inst.path) - 1) : inst.keys[n] \in Loads(Ancestor(inst, n))

\* the collection a foreign key means: of those it can name, the one in the
\* module of the declaring collection if there is one
Named(inst) == {r \in RootIds : LET fk == ForeignKeys[inst.path] IN
                  \/ r = fk
                  \/ fk = Id(NoModule, r.name) /\ r.module = inst.path[1].module}
Meant(inst) == {r \in Named(inst) :
                  \A s \in Named(inst) : s.module = inst.path[1].module => r = s}

Dangling(inst, k) ==
  /\ ForeignKeys[inst.path] # NoRef /\ k \in Loads(inst) /\ disk[inst][k].ref # NoRef
  /\ \E t \in Meant(inst) : disk[inst][k].ref \notin Loads(RootInstance(t))
TargetStill(inst) ==
  \A t \in Meant(inst), k \in Keys : <<RootInstance(t), k>> \notin edited

FindingsAreExact ==
  phase = "done" =>
    \A i \in Instances : Still(i) =>
      /\ \A k \in Keys : <<i, k>> \notin edited =>
           /\ Finding("record", i, k) \in findings
                <=> OnPath(i) /\ Finding("record", i, k) \in SchemaFindings(i)
           /\ TargetStill(i) =>
                (Finding("reference", i, k) \in findings <=> OnPath(i) /\ Dangling(i, k))
      /\ (\A k \in Keys : <<i, k>> \notin edited) =>
           \A f \in {Finding(kind, i, NoKey) : kind \in {"file", "few", "many"}} :
             f \in findings <=> OnPath(i) /\ f \in SchemaFindings(i) \cup CountFindings(i)

\* The three passes come to an end.
ValidationEnds == <>(phase = "done")
=============================================================================
