# inGitDB, verified

TLA+ models of the inGitDB library (`src/ingitdb`): a database whose records
are files in a git repository. The models cover what the library does to those
files and what it says about them, checked with TLC on small instances; every
safety property that a run checks is also proved with TLAPS, for every instance.
All paths below are relative to `src/ingitdb/`.

## The system

The library has no server and starts no goroutines of its own; the one thing
that its callers' goroutines share is the cache of compiled formulas. What makes
it hard is everything around it: files that other people and other tools edit
while it reads them, Go maps that are visited in random order, errors in the
middle of a recursion, a process that dies between two writes, and git's own view
of what changed.

| Part | State | Operations | What makes it correct |
|---|---|---|---|
| record merge (`recordmerge`) | three parsed stages, the merged map | `MergeFiles`, `Merge` | the three-way rule per key, whatever the order of keys; nothing lost; escalates rather than guesses |
| definition loader (`validator`) | the recursion over collection directories | `ReadDefinition` | loads exactly the sound databases; the nearest value of an inherited field wins; never loops |
| data validator (`datavalidator`) | `ValidationResult`, foreign-key index | `Validate` | finds exactly the faults that are there, and counts what it finds |
| incremental validator (`datavalidator`, `gitdiff`) | changed files, affected records | `ValidateChanges` | finds what a range of commits broke, and nothing else |
| materializer (`materializer`) | generated files, `MaterializeResult` | `BuildViews`, `BuildView` | a clean build leaves the files current, a repeated one writes nothing, the result accounts for every file |
| column rules (`datavalidator`, `column_formula.go`) | the errors of one record | `CollectionDef.Validate`, `validateRecordData` | a record breaks exactly the columns it is said to break; a definition is judged on its own |
| formula cache (`column_formula_eval.go`) | programs by key, shared by all goroutines | `compileFormulaWith` | no caller is answered by what another one's columns made of the same text |
| root config (`config`) | `RootConfig`, `root-collections.yaml` | `ReadRootConfigFromFile`, namespace imports, `WriteRootCollectionsToFile` | the same ids whatever the order of the imports; a half-written file is not an empty database |
| docs builder (`docsbuilder`) | `README.md` files | `UpdateDocs`, conflict resolution | processes what the pattern means, once; writes only on change; leaves nothing torn or in conflict |
| record files, formats, locale | none | parse, encode, name | conversions are inverse to each other |
| subscribers, triggers, progress, tui | none | declarations | no behaviour in this repository |

How they interact: everything starts from the `Definition` that the loader
builds from the root collections the configuration names. Loading resolves the
formulas and conditions of each collection, validating a record evaluates the
conditions, both through the one cache. The validators, the
materializer and the docs builder take the definition as an argument and read
the record files themselves; none of them locks anything, so the definition may be older
than the records and the records of one pass older than those of the next. The
incremental validator shares the per-file validation with the full one and calls
it outright when a definition file changed. The record merge is called by a git
merge driver with the three stages of one file; it reads the same settings and
record keys as the rest.

## Modules

| Module | Models | Checked by |
|---|---|---|
| `ThreeWayMerge` | what a three-way merge of keyed records promises | refined by `RecordMerge` |
| `RecordMerge` | `recordmerge`, `conflict_resolution.go`, keys of `list_records.go` | `MCRecordMerge` |
| `RecordMergeProofs` | theorems about `RecordMerge` | TLAPS |
| `RootConfig` | `config/root_config.go`, `settings.go` | part of `MCDefinitionLoader` |
| `DefinitionLoader` | `validator/def_validator.go`, on top of `RootConfig` | `MCDefinitionLoader` |
| `DefinitionLoaderProofs` | theorems about `RootConfig` and `DefinitionLoader` | TLAPS |
| `FormulaCache` | the cache of compiled formulas, `column_formula_eval.go` | refined by `RecordRules` |
| `FormulaCacheProofs` | theorems about `FormulaCache` | TLAPS |
| `RecordRules` | columns and one record: `column_formula.go`, `validateRecordData`, through `FormulaCache` | `MCRecordRules` |
| `RecordRulesProofs` | theorems about `RecordRules` | TLAPS |
| `Validation` | `datavalidator` full pass, `foreign_key.go` | `MCValidation` |
| `ValidationProofs` | theorems about `Validation` | TLAPS |
| `IncrementalValidation` | `datavalidator` incremental pass, `gitdiff` | `MCIncrementalValidation` |
| `IncrementalValidationProofs` | theorems about `IncrementalValidation` | TLAPS |
| `Materializer` | `materializer/view_builder.go`, `view_writer.go`, `records_reader_fs.go` | `MCMaterializer` |
| `MaterializerProofs` | theorems about `Materializer` | TLAPS |
| `DocsBuilder` | `docsbuilder` | `MCDocsBuilder` |
| `DocsBuilderProofs` | theorems about `DocsBuilder` | TLAPS |

A definition that stands for a plausible bug is introduced by a comment that
starts with `bug:`. It takes no part in the specification: it replaces the
definition it is named after to show that a property can fail.

### RecordMerge

A record is a key and a total function from fields to values, where `NoValue`
is "not in the map"; an index is a total function from keys, where `NoRecord`
is "not in the index".  So the Go idiom `v, ok := m[k]` and the strict
`reflect.DeepEqual` both become equality.  `RejectFiles` and `ParseFiles` are the
front of `MergeFiles` (bridge.go); `EscalateKey` and `MergeKey(k)` are one turn of
the loop in `Merge`, over a map in random order, so any pending key may be next;
`EmitRow` is one call of `emit` in `orderedRecords`; `RejectSingle` and `Return`
are the end.  A stage is given as rows: what a parser rejects is what `Parses`
says for each layout, and the key that `fmt.Sprintf` makes of an absent primary
key is `NilKey`.

`ThreeWayMerge` has no order at all: one step merges, or escalates.

`ResultInDocumentedOrder` is the order that `Merge` documents (merge.go:58) and
`orderedRecords` must produce: records of the base, then what ours added, then what
theirs added (`Rank`), and within each of these the order in which that side has
them.

### RootConfig

The actions that `DefinitionLoader` composes with its own. `ReadRootConfig` is the
read and validation of `settings.yaml` and `root-collections.yaml`; an import
`prefix.*` is one `ResolveImport`, in any order, since the code ranges over a map
that it changes as it goes. A path is kept as an anchor (the database, the root of
the file system, the home directory) and names, because the code resolves the
anchor when it looks for an import (`Resolved`) and forgets it when it records what
the import brings (`Spelled`, `LookedFor`). `BeginWrite` and `FinishWrite` are one
`WriteRootCollectionsToFile`: `os.WriteFile` truncates first, and the writer may never
come to the second step.

### DefinitionLoader

`Configure`, `Write` and `StartLoad` run `RootConfig` to its end; the ids it leaves are
the root collections that `EnterRoot` takes, in any order.
`stack` is the Go call stack of `readCollectionDef` and of the scanners below it:
one frame per collection under way, with the files of its inheritance chain
(`seen`) and their decoded definitions (`chain`).  A collection's views are one fact
(`ViewStates`): fine, or what makes `loadViews` fail, always or when it validates; a directory
of subcollections that cannot be listed is in `unlisted`.  `raised` is an error on its
way up, and keeps the one distinction the code makes: whether `errors.Is(err,
os.ErrNotExist)` holds of it.  `SkipDirectory` is the `continue` of the shared
layout's scanner, while the load is under way; `FailLoad` is the return of an error
that nobody handles.  Directories are numbers, in which a directory has a higher one
than its parent.  Fields
are split into those `overlayCollectionDef` copies (`Inherited`) and those it does
not (`OwnFields`).

### FormulaCache

`cache` is the `sync.Map` of compiled programs, `calls` one request of each goroutine.
`Load`, `Compile` and `LoadOrStore` are the three points at which goroutines meet;
anything may happen between them. Starlark's resolver is `Compiles`: in strict mode a
source may refer to declared names and builtins only, in open mode to anything. A
program is its source and who compiled it, so that two compilations of one text
can be told apart.

### RecordRules

Each goroutine loads one collection (`DefineColumn`, `ResolveExpression`,
`TakeResolution`) and then validates one record of it (`StartRecord`, `CheckColumn`,
`EvaluateCondition`, `ReturnErrors`), a column at a time in any order, asking the
shared cache as it goes; so the module is a client of `FormulaCache`, and
`UsesTheCache` says that it is nothing else. A value is a kind, a number (in halves,
so that 1.5 is there) and items. What Starlark computes is the operator `Evaluate`.
The code's order of the rules is `Complaints`; `Meets` and `Faulted`, which the properties
compare it with, say what satisfies a column by the documentation
(spec/features/column-validation): a number of any type is held to range and enum, and a
condition is judged by the fields it asks about. `Sensible` says which constraints a load
should accept; the code looks at none of them, so neither does the model. A list or a map holds scalars: the
validator looks no deeper, and `goToStarlark`, which does, is asked whether there is a
time anywhere (`Convertible`). A comparison of two lists or two maps with `==` panics,
and so does the model (`"panicked"`).

### Validation

`disk` holds the records by instance: a subcollection has one directory per
record of its parent, so an instance is a path of collections and a key per
parent.  Three phases follow one another as in `Validate`: `ValidateRoot` in any
order of the roots, the walk (`ExpandInstance`, `ValidateInstance`) through `work`,
then `IndexRoot` and, over a second walk, `CheckReferences`.  `work` is the Go call
stack: a set of tasks for each level of the recursion, the innermost last, to be done
before the next one out goes on; within a level the order is left open, since
only what is read in between depends on it.  Each reads `disk` when it runs.  `Edit` changes a record at any time.  A record is
two facts: whether it satisfies its columns (`fits`) and the value of its foreign
key.

### IncrementalValidation

`from`, `to` and `worktree` are the trees that git compares and the one on disk; an
empty second ref means that git compares with the working tree, less the files
it was never told about (`untracked`). Paths are printed as they are below the database:
a database below the root of its repository, or a name that git quotes, is not
modelled (see the observations).  git is free to report a deleted and an
added file as a rename.  `LoadDefinition` is what the caller did before,
`DiffFiles`, `Resolve` or `FallBack`, and `ValidateAffected` follow
`ValidateChanges`.  The owner of a record file is any collection that claims it,
since the code takes the first in map order.  A count is the cardinality of a set of
records (`Counted`, `Passing`): all keys of a file that parses, one for a file that
does not.  `FullValidation` is one step and
covers the schema of the record files; the passes of a full validation are
module `Validation`'s.

### Materializer

`StartView`, `ReadRecord` and `PlanView` read the records of one view and turn them
into the files the view calls for (`plan`); `KeepFile`, `WriteFile`,
`RewriteUnreadable` and `WriteFails` are the outcomes of one call of
write-on-change.  Batches go out in order and the foreign-key files after them,
in the order of a map.  `Crash` ends the process anywhere, perhaps leaving a
`Torn` file; `Edit` changes a record anywhere.  `fresh`, `settled` and `noop` are
history variables that only the properties read.  The rows with a value are those at
the positions that hold it (`RowsAt`). A foreign key that resolves to no collection plans
no file (`FKWrites`) and counts as an error (`Refused`), which `ResultAddsUp` accounts for
beside the files. A named view drops what it does not show before it sorts (`FilterColumns`).  `RebuildIsNoOp` says nothing of records from a
map file, which are read in another order each time, nor of partitions that share
a path.

### DocsBuilder

`UpdateDocs` starts from a pattern, `ResolveConflicts` from the READMEs in conflict,
by the directory they lie in. `frames` are the lists of `collectSub` that are still to be
processed, the innermost last. A README that is absent, torn or in conflict is a marker
(`NoFile`, `Torn`, `Conflicted`); any other is a rendering. `RenderReadme` reads the records and picks what the code
leaves to chance (columns without `columns_order`, a title when there is no English
one, the rows of a map file); `KeepReadme`, `WriteReadme`, `RewriteUnreadable` and
`ProcessFails` are the outcomes for one collection, after which the next one is taken,
errors or not. A preview is built as `BuildView` builds a view: `Listings` has the records as
they may be read, `Preview` drops the columns that are not shown, sorts by what is left
of `order_by`, keeping ties as they were read (`StableSort`), and cuts to `top`. `Settled` says
that nothing of a README is left to chance. `Crash` and `Edit` come in anywhere; an edit also leaves a README in
conflict. `fresh`, `settled` and `noop` are history variables as in `Materializer`.

## Runs

The initial states of a run are the `Cases` (or `Setups`) of its MC module: the
inputs a component is given, chosen so that one run covers everything that is
asked of the component. An MC module holds nothing else.

Passing runs:

| Run | Instance | Shows |
|---|---|---|
| `merge` | map files of 2 keys and 2 fields under every setting of `same_record`; list, CSV and single-record files of up to 2 rows with repeated and missing keys; the layouts that cannot be merged | refinement of `ThreeWayMerge`, the documented order, the symmetry of the sides, the opt-out |
| `materialize` | 3 records, 2 foreign keys, 1 edit, 1 fault; the default view in batches of 2, built twice over a directory; once over a map file, the default view with a foreign key that leads nowhere, a named view of the top 2 together with partitions of a file each, and each of these alone: the named view upwards, with its order shown or not, the partitions on one path | the books add up; clean builds are current; rebuilding is a no-op; builds end |
| `load` | configurations that import other databases, ids of their own, each other's names and nothing, with a writer that may stop half way; 3 nested collections with 2 bases in both layouts; 2 roots with a subcollection in any mixture of layouts, with views that are missing, invalid, unreadable, unparsable or vanish, and directories that cannot be listed; every environment | imports are exact in every order; the load succeeds exactly when it should; the nearest value wins; cycles end |
| `records` | 17 values against every column type, enum, range and length; 2 columns of every kind beside each other; 2 goroutines that share formulas | errors are exactly the broken columns, where code and documentation agree on them; verdicts of the cache are the caller's own; nothing but a client of the cache |
| `validate` | 3 roots in 2 modules, subcollections 2 levels deep, 2 keys, 1 edit at any time | findings and counts are exact but for what depends on the edit; foreign keys resolve module-first; validation ends |
| `range` | 2 files of a record each, a file of 2 records, a definition; any three trees, 1 edit | what the range broke is found, and nothing outside it; a shared file is validated exactly once |
| `docs` | 4 collections on 3 levels and a name that is none, 2 rows, 2 updates, 1 edit or conflict, 1 fault; previews of a directory, of the top of a map file by distinct values, and of a map file with ties | each target once; clean updates are current; a second one is a no-op; conflicts are resolved; updates end |

Runs that end in a violation, each a disagreement between the code and what the
repository says of it:

| Run | Property | What happens |
|---|---|---|
| `merge_duplicates` | `UntouchedRowsSurvive` | `index` (recordmerge/merge.go:46) keeps the last row of a key, so of two rows that share a primary key one is dropped by the merge, although no side touched it |
| `load_missing_base` | `MissingBaseFailsLoad` | in the shared layout a missing base reads as "not a collection" (validator/def_validator.go:465) |
| `import_elsewhere` | `ImportsAreFound` | an import through an absolute path or `~` is found, but its collections are looked for below the database (config/root_config.go:304, validator/def_validator.go:259) |
| `records_documented` | `RecordsAreJudgedAsDocumented` | three departures from the documentation of column validation in one record: bounds that exclude each other are accepted at load (column_def.go:88), an unsigned integer passes every range (datavalidator/validator.go:492), and a time in a field that a `required_when` does not ask about makes it fail (column_formula_eval.go:247) |
| `docs_deterministic` | `ReadmesAreStable` | a preview of a map file is ordered by a column that it does not show: `filterColumns` runs before the sort (materializer/view_builder.go:207, and :133 for views), so the rows come out in the random order in which they were read (materializer/records_reader_fs.go:63), and the README of unchanged records is rewritten |

The passing runs are confined to what these violate. `ErrorsAreExact` says nothing of the
columns at which code and documentation part (`Disputed`), nor `JudgedOnItsOwn` of constraints
that the load does not look at; `SecondUpdateIsNoOp` leaves out READMEs in which something is
left to chance, and `CleanBuildIsCurrent` a named view that hides the column of its order.

Observed while modelling, without a run of their own, because each follows from one
line:

- A record-count bound in a base decodes and is dropped (validator/def_validator.go:109).
- A map file is read in random order (materializer/records_reader_fs.go:63) and a default
  view does not sort, so building again over the same records rewrites its files. In a
  README the columns (docsbuilder/collection_readme.go:61, without `columns_order`) and
  the title (:32, without an English one) are picked at random as well.
- A range that changes only an inherited base validates the changed records and no others:
  `changedDefinitionFile` (datavalidator/incremental_validator.go:113) knows no bases, although
  :39-41 says that a pass over the changed records could miss what a schema made invalid.
  `NewFaultsAreFound` is checked without bases; `OwnedFaults` (see Proofs) has the condition.
- A view file that vanishes between the listing and the read makes its collection "not a
  collection" in the shared layout, like a missing base (validator/def_validator.go:465, 536-538).
- A foreign key that resolves to no collection is an error of each build
  (materializer/view_builder.go:432-436), which loading reports only when it validates
  (validator/def_validator.go:212).
- git prints names quoted and relative to the repository's root
  (gitdiff/gitdiff.go:56); they are joined to the database's directory as
  they are (datavalidator/changeset_resolver.go:31), and such records are not checked.
- Two lists or two maps make the comparison with a member of an enum panic
  (datavalidator/validator.go:484); an unsigned integer equals no member of another type (:492).
- Not only inverted bounds: bounds on columns without a number, fractional bounds on an `int`,
  lengths on a `bool`, and repeated or mistyped enum members are accepted when a definition is
  loaded.
- A README in conflict is found by its lower-cased name (docsbuilder/update.go:172), so other
  spellings count as one; the model has one name.
- `default_namespace` is read and never applied (config/root_config.go:39-43).
- Deregistering the last collection leaves `root-collections.yaml` empty
  (config/root_config.go:348-350), and an empty file is an error to read: the database
  cannot be loaded again.
- A README in conflict in a directory of no collection is neither resolved nor reported
  (docsbuilder/update.go:180-187); collections that share a directory overwrite each
  other's README.

### Bounds

- Two keys and two fields give every case of a three-way merge (unchanged, edited,
  deleted, added on either side, in one or two fields) beside a second record
  that makes the visiting order matter. The proofs remove the bound.
- Three records in batches of two is the smallest instance with a full and a short
  last batch. One fault and one edit per run put one disturbance between any two
  steps; two builds are what a statement about the second build needs.
- Three nested collections let a skipped directory hide another one; two bases give
  chains of three files and cycles of one and of two.
- Two parents with up to two children each are the smallest instance in which an
  instance can overwrite another one's counts. An edit may fall between any
  two reads, at either end of a reference.
- Two columns and one sibling's name that is a builtin put each kind of column beside
  each other kind; two goroutines with one source in common are the smallest
  instance in which one may be answered with the other's program. The proofs remove the
  second bound.
- Nobody writes `root-collections.yaml` once it has been read, since the load reads it
  once. A torn file is an empty one: a prefix of the bytes would be a YAML document of
  its own. An import that brings an import of a name the database has already
  (`Nested`) depends on the order, and the properties leave it out.
- Three levels of collections tell direct subcollections from all; two of them sharing a
  directory is the smallest clash of READMEs.
- One build of the named and the partitioned view is enough: without a second one there
  is nothing for `RebuildIsNoOp` to say, and partitions that share a path would
  overwrite each other in it.
- For a range, two files are enough for a rename, and one more edit for a working
  tree that moves during the validation.

Model values are not declared symmetric: record keys are ordered by the code, and
runs with liveness properties must not use symmetry.

`CHECK_DEADLOCK FALSE` stands in every configuration because each operation ends:
a merge, a load and a validation return, and builds and edits are bounded.

### Fairness

`Materializer`: weak fairness of the steps of a build. It runs in one goroutine
that never waits for anything, so it is only ever delayed; faults, crashes, edits
and the start of a build are not fair. `DefinitionLoader` and `Validation`: weak
fairness of the operation's steps, for the same reason; edits are not fair.
`DocsBuilder`: weak fairness of the steps of an update, likewise. `RootConfig`'s writer is
not fair: it may stop for good between its two steps. `RecordMerge`, `FormulaCache` and
`RecordRules` state safety and refinement only, and have no fairness;
`IncrementalValidation` has it but no liveness property is checked yet.

## Proofs

Each theorem is `Spec => []P`, or `Spec` implies another specification, for every value
of the constants that satisfies the named assumptions of the module; TLC evaluates
these assumptions in every run. All of them are facts about the model's encoding (numbers for what
the code sorts, markers outside the values they stand beside, finitely many files),
except where the following says otherwise. No theorem rests on a bound: records, columns, keys,
collections, bases, edits and goroutines may be as many as they like.

An invariant that a run checks is seldom inductive. Each proof module therefore states
an inductive one, `IInv` (`CacheInv` and `RulesInv` where modules are composed), as a
conjunction of named parts, proves that `Init` establishes it and that every action
keeps it, one lemma per action, and derives the properties from it.

`RecordMergeProofs` (integer keys, so that a map can be sorted; stages that are
sequences of rows):

- `TypeCorrect`, `DocumentedOrder` (`ResultInDocumentedOrder`), `Interchangeable`
  (`SidesAreInterchangeable`), `OptOutHolds` (`NoSpliceWhenOptedOut`).
- `Refinement`: `Spec => ImplementsThreeWayMerge`, the abstract specification as a
  whole: initial states map to initial states, every step to a step or a stutter.

A row of `result` says nothing on its own, so `IInv` ties each piece of state to the parsed
records. Keys that have been visited hold `MergedVersion` and were not `Unsafe`; keys
that have not hold nothing; every emitted row is the merged version of its key, once;
every merged key that the walk has passed is in `result`. `Swap` shows the per-key
decision symmetric, `RuleAgrees` that the code's case split (added, deleted, edited,
unchanged) is the abstract rule, in which absent is one more value, and `SameIndex`
that sorting a map, which the code does before it merges, does not change its index.
`IInv` and `RuleAgrees` meet in the `Return` step, where `orderedRecords` has walked every
row. `OrderInv` adds that of two emitted records the first was walked over before any
row of the second; `WalkedInOrder` turns this, a fact about the walk over three
slices that repeat keys, into the documented order of base, ours and theirs.

`FormulaCacheProofs` (every source has its free names; `NoProgram` is no program):

- `CacheTypeCorrect`, `VerdictsAreTheirOwn`, `AllHoldOneProgram`, `RecordsShareAnEntry`.

`CacheInv` adds to the types what each stage of a call may rely on: whoever is about to
store has compiled its own request; what is cached compiles under its key and is a
program of the key's formula; keys are unique and hold no more of a request than they
need; whoever is done has an error of its own or the program that is cached.
`KeyOfRequest` is the fact behind it: two requests of one key compile or fail alike.

`RecordRulesProofs` (whatever `Evaluate` returns; column types are those that
`ValidateColumnType` accepts, and `"unknown"` for the rest; a whole number has an even
number of halves, lists and maps hold scalars):

- `RulesTypeCorrect`, and `RulesUseTheCache`: `Spec => UsesTheCache`, so that the
  theorems about the cache carry over (`RulesShareSafely`).
- `DefinitionsAreJudgedAlone` (`JudgedOnItsOwn`), `ConditionsStayResolved`
  (`LoadedConditionsResolve`), `RecordsAreJudgedExactly` (`ErrorsAreExact`). The first speaks of
  definitions whose constraints make sense (`Sensible`), the last of columns at which the
  code does what is documented: what it does at the others (`Disputed`) refutes
  `RecordsAreJudgedAsDocumented`.

`RulesInv` is `CacheInv` and, for each goroutine, `Progress`: the columns it has taken are
settled but for the expressions it still has to resolve, its call at the cache is for
the expression it is at, and it validates under a sound definition only. That a
condition stays resolved then follows from two facts: a verdict is the caller's own,
and the fields bound for a record are all stored columns, whatever the record holds.
`ExactInv` says of each name whether its column is still to be judged, and then nothing
has been said of it, or has been judged, exactly unless it is `Disputed`; `ComplaintsAreRight` and `OutcomeIsRight`
show that the code's checks, in its order, agree with what the column means. (The
attempt showed the property to be wrong at first: it took a condition to fail
because of a time in a field, but not because of one inside a list.)

`IncrementalValidationProofs` (a collection whose records share a file has only that one;
files and their keys are finitely many):

- `TypeCorrect`, `CountsAreRight` (`CountsMatchFindings`), `NothingIsMadeUp`
  (`FindingsAreFaults`), `NothingElseIsRead` (`OnlyTheRange`).
- `NothingIsLost`: `NewFaultsAreFound`, if each record file has one owner (`OneOwner`) and no
  definition has a base (`NoBases`). Both are needed: the code takes one of several owners
  (a hazard listed without a property), and misses a changed base
  (incremental_validator.go:113).
- `OwnedFaults` says what holds without them: a fault in a file of one owner is found if no base of
  its collection changed in the range.

`IInv` says that the definition is the one on disk when it was loaded, that the changes are the
range but for what was edited since, that affected files have not been read, that what was
found stands in the files nobody has edited, and that what is wrong with a file is
found once it is read.

`MaterializerProofs` (finitely many integer ids):

- `TypeCorrect`, `BooksBalance` (`ResultAddsUp`), `RebuildChangesNothing` (`RebuildIsNoOp`).
- `CleanBuildStands`: `CleanBuildIsCurrent`, which speaks of a named view only if it shows the
  column that orders it.

`IInv` says that the rows read so far and the ids still to be read make up the records while
nobody edits them, that each file the build has reached holds what was planned for its path,
that two views never plan for one path, and that a build over records that have
not moved since a clean one plans what is on disk already. The lemmas about the operators are
the larger part: a finite ordered set can be ranked, sorting permutes the rows and orders them,
batches divide them without loss, and what two views write lies apart.

`DefinitionLoaderProofs` (distinct places for the roots, a parent's number below its
subdirectories', bases that are no directories: a file system gives all three):

- `TypeCorrect`, `ImportedExactly` (`ImportsAreExact`), `NearestWins`
  (`LoadedIsNearestWins`), `SoundLoad` (`LoadIsSound`).

Inheritance is a walk: a chain of distinct files, each the base of the one before. `IInv`
says that the frame at work has walked such a chain, that its overlay holds, from any
position on, the nearest value of each field, that the stack is nested as the
directories are, that nothing that should be loaded is left out on the way, that
whatever is loaded should be, and that each error has a reason in the files. That the
walk ends, since it cannot repeat a file and there are finitely many, is what makes the nearest value
unique and a cycle an error. For the configuration it says that what is held
while imports are resolved is what the files declare and what the resolved ones bring.

`DocsBuilderProofs` (collections are numbers, in which one comes before those below it):

- `TypeCorrect`, `TargetsOnce` (`EachTargetOnce`), `CleanUpdateStands`
  (`CleanUpdateIsCurrent`), `SecondUpdateWritesNothing` (`SecondUpdateIsNoOp`),
  `ConflictsGo` (`ConflictsAreResolved`).

Each collection has been processed, is being processed or waits in one frame, once: what is
waiting stands for all that is below it (`Reach`), and these parts neither overlap (`Apart`) nor
leave out anything the pattern means (`Covered`). The rest of `IInv` relates the READMEs to
what has been processed (`Written`), to the conflicts there were (`Unsolved`), and the
history variables to what is still on disk (`Idle`).

`ValidationProofs` (integer keys, so that instances can be sorted; a path's parent is a
path):

- `TypeCorrect`, `CountsAreRight` (`CountsMatchFindings`), `FindingsStandExactly`
  (`FindingsAreExact`).

`work` is a stack of tasks of which each leads to others, so `IInv` says that no two of
them lead to one instance (`Apart`) and that the walks keep to instances whose parents
exist, but for what was edited (`OnTheWay`). Instances that are still ahead have no
finding, those that are behind have exactly theirs (`Judgements`, `References`), and
the index of a root is its keys (`Indexed`).

Three devices carry most of this. Arguments by induction over data (a tree, a
chain, a walk) go through a least number of `Nat` that violates the claim, since the
provers cannot instantiate the library's induction theorems. A recursive
function is first shown, by the same argument, to satisfy its equation. And a count is a cardinality, with bijections
instead of sums.

Only model-checked: liveness (`BuildEnds`, `LoadEnds`, `ValidationEnds`, `UpdateEnds`), since
the prover handles neither fairness nor `ENABLED`; and the runs that end in a violation.

## Not modelled

- The bytes of a record in each format, and the rendering of a view: formatting
  without state. A file is its rows.
- What Starlark computes: an operator of the source and the bound fields. Where the
  validators need to know whether a record satisfies its columns (`fits`), it is one
  Boolean; `RecordRules` says what stands behind it.
- The names of record files, and the keys read back from them: a record is its key.
- The checks of a collection definition other than those of its columns and its id: whether
  a definition is complete is one fact in `DefinitionLoader`.
- Locale: pure functions on one record.
- Subscribers, triggers, progress and the terminal: declarations and interfaces
  that nothing in the repository runs.
- `where` of a view: it is printed in the header of the view and nothing applies it.
- Obsolete output files (nothing ever removes one), and two different views that
  render to one path; partitions of one view that share a path are modelled. `compareAny` is an order on
  integers: a column that mixes types is not modelled.
- Two builds at once, or two validations: the library starts none, and a caller
  that does shares only files, which `Edit` already changes at any time, and the formula
  cache, which `RecordRules` has.

## Plan

1. Output paths in `Materializer`: two views that render to one path, foreign-key
   values that no record has any more, columns of mixed types.
2. Overlapping collections, counts and subcollections across both validators:
   `IncrementalValidation` composed with `Validation`.
3. `RecordFileNames`: the name a record gets against the keys that the validator and
   the materializer read back; `Locale` as operators against a reference definition.
4. Proofs of what 1 to 3 add. A composed validator should be shown to use
   `Validation` as `RecordRules` uses the cache, so that its theorems carry over.
