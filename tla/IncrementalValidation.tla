----------------------- MODULE IncrementalValidation -----------------------
(***************************************************************************)
(* Validating only what changed between two git refs                       *)
(* (incrementalValidator.ValidateChanges).  The caller loads the           *)
(* definition; git lists the changed files; a changed definition file      *)
(* makes it a full pass; otherwise each changed record file is mapped to   *)
(* the collection that owns it, and read from the working tree.  The       *)
(* working tree may be edited between any two of these steps.              *)
(***************************************************************************)
EXTENDS Integers, FiniteSets

CONSTANTS Collections,
          DefinitionFiles,  \* definition.yaml, root-collections.yaml, .ingitdb
          Bases,            \* partial definitions that others inherit
          RecordFiles,      \* git prints the path of each as it is below the database
          DefinedBy,        \* by collection: its definition file and its bases
          Owners,           \* by record file: collections whose pattern matches it
          Shared,           \* collections with all their records in one file
          NoKey,            \* a finding about a whole file
          Contents,         \* by record file: what it may hold
          Garbage,          \* a record file that does not parse
          Loose, Strict,    \* what a definition, or a base, asks of records
          Absent,           \* there is no such file
          MaxEdits          \* bound: edits while the validation runs

\* a record fits every schema, only the loose one, or none
Records == {"fits", "loose", "bad"}
Schemas == {Loose, Strict}
SchemaFiles == DefinitionFiles \cup Bases
Files == SchemaFiles \cup RecordFiles

\* a parsed file maps the keys of its records to the records
Parsed(content) == content \notin {Garbage, Absent}
MayHold(f) == IF f \in SchemaFiles THEN Schemas ELSE Contents[f] \cup {Absent}
Trees == {t \in [Files -> UNION {MayHold(f) : f \in Files}] :
            \A f \in Files : t[f] \in MayHold(f)}

ASSUME FilesAssumption ==
  /\ DefinitionFiles \cap Bases = {} /\ SchemaFiles \cap RecordFiles = {}
  /\ IsFiniteSet(Collections) /\ IsFiniteSet(RecordFiles)
  /\ DefinedBy \in [Collections -> SUBSET SchemaFiles]
ASSUME OwnersAssumption ==
  /\ Owners \in [RecordFiles -> SUBSET Collections] /\ Shared \subseteq Collections
  /\ \A c \in Shared : \E f \in RecordFiles : \A g \in RecordFiles : c \in Owners[g] => g = f
ASSUME ContentsAssumption ==
  /\ Garbage # Absent /\ Loose # Strict /\ Absent \notin Schemas /\ MaxEdits \in Nat
  /\ \A f \in RecordFiles : \A content \in Contents[f] \ {Garbage} :
       /\ IsFiniteSet(DOMAIN content)
       /\ \A k \in DOMAIN content : k # NoKey /\ content[k] \in Records
       /\ \A c \in Owners[f] \ Shared : Cardinality(DOMAIN content) = 1

VARIABLES from, to,  \* the trees of the two refs
          worktree,  \* the files on disk
          untracked, \* files git was never told about
          against,   \* "ref" or, if the second ref is empty, "worktree"
          schema,    \* by collection: the definition as the caller loaded it
          phase,     \* "load", "diff", "resolve", "validate", "full", "done"
          changed,   \* the ChangedFiles, as [kind, path]
          affected,  \* AffectedRecords still to validate, as [col, file]
          wholeFileDone, \* shared collections already validated
          counts,    \* by collection: passed and total
          findings,
          edited     \* history: files edited since the definition was loaded

trees == <<from, to, untracked, against>>
vars  == <<trees, worktree, schema, phase, changed, affected, wholeFileDone,
           counts, findings, edited>>

Strictness(tree, c) ==
  IF \E f \in DefinedBy[c] : tree[f] = Strict THEN Strict ELSE Loose
Valid(record, level) == record = "fits" \/ (record = "loose" /\ level = Loose)

-----------------------------------------------------------------------------
(* git diff --name-status, and what parseNameStatus makes of it. *)

\* an untracked file is in no tree that git compares
Second(f) == IF against = "ref" THEN to[f]
             ELSE IF f \in untracked THEN Absent ELSE worktree[f]
Differing == {f \in Files : from[f] # Second(f)}
Deleted   == {f \in Differing : Second(f) = Absent}
Added     == {f \in Differing : from[f] = Absent}

\* git reports some pairs of a deleted and an added file as renames
Renamings == {r \in SUBSET (Deleted \X Added) :
                \A p, q \in r : p[1] = q[1] <=> p[2] = q[2]}
Gone(renaming)  == Deleted \ {p[1] : p \in renaming}
Moved(renaming) == {p[2] : p \in renaming}
Kind(f, renaming) == IF f \in Moved(renaming) THEN "renamed"
                     ELSE IF f \in Added THEN "added" ELSE "modified"
NameStatus(renaming) ==
  {[kind |-> "deleted", path |-> f] : f \in Gone(renaming)}
    \cup {[kind |-> Kind(f, renaming), path |-> f] : f \in Differing \ Deleted}

\* bug: a renamed file is taken for a deleted one
KeptButRenamed(change) == change.kind \notin {"deleted", "renamed"}

\* bug: deleted files are resolved too
KeptAnyway(change) == TRUE

Kept(change) == change.kind # "deleted"

ChangedDefinitionFile == \E change \in changed : change.path \in DefinitionFiles

\* the owner is the first match in a map's random order
CollectionForRecordFile(f) == Owners[f]

\* bug: one changed file of a collection makes all of its files affected
ResolutionsOfCollections ==
  LET owners == UNION {CollectionForRecordFile(change.path) :
                         change \in {ch \in changed : ch.path \in RecordFiles}}
  IN {{a \in [col : owners, file : RecordFiles] :
         a.col \in Owners[a.file] /\ worktree[a.file] # Absent}}

Resolutions ==
  LET paths == {change.path : change \in {ch \in changed : Kept(ch)}} \cap RecordFiles
      owned == {f \in paths : CollectionForRecordFile(f) # {}}
  IN {{[col |-> owner[f], file |-> f] : f \in owned} :
        owner \in {o \in [owned -> Collections] :
                     \A f \in owned : o[f] \in CollectionForRecordFile(f)}}

-----------------------------------------------------------------------------
(* Validating one file of the working tree. *)

Finding(kind, c, f, k) == [kind |-> kind, col |-> c, file |-> f, key |-> k]

Failing(c, f) == {k \in DOMAIN worktree[f] : ~Valid(worktree[f][k], schema[c])}
FileFindings(c, f) ==
  IF worktree[f] = Absent
  THEN IF c \in Shared THEN {} ELSE {Finding("missing", c, f, NoKey)}
  ELSE IF worktree[f] = Garbage THEN {Finding("file", c, f, NoKey)}
  ELSE {Finding("record", c, f, k) : k \in Failing(c, f)}
\* what counts as a record: a file that cannot be read counts as one
Counted(c, f) == IF Parsed(worktree[f]) THEN {<<f, k>> : k \in DOMAIN worktree[f]}
                 ELSE IF worktree[f] = Absent /\ c \in Shared THEN {} ELSE {<<f, NoKey>>}
Passing(c, f) == IF Parsed(worktree[f])
                 THEN {<<f, k>> : k \in DOMAIN worktree[f] \ Failing(c, f)} ELSE {}
Total(c, f)   == Cardinality(Counted(c, f))
Passed(c, f)  == Cardinality(Passing(c, f))

\* what a full pass lists are the files that exist
Listed == {a \in [col : Collections, file : RecordFiles] :
             a.col \in Owners[a.file] /\ worktree[a.file] # Absent}

-----------------------------------------------------------------------------
NoCounts == [c \in Collections |-> [passed |-> 0, total |-> 0]]

Init ==
  /\ from \in Trees /\ to \in Trees /\ worktree \in Trees
  /\ untracked \in SUBSET {f \in RecordFiles : from[f] = Absent /\ to[f] = Absent}
  /\ against \in {"ref", "worktree"}
  /\ against = "worktree" => to = from  \* there is no second tree
  /\ schema = [c \in Collections |-> Loose]
  /\ phase = "load"
  /\ changed = {} /\ affected = {} /\ wholeFileDone = {}
  /\ counts = NoCounts
  /\ findings = {} /\ edited = {}

LoadDefinition ==
  /\ phase = "load"
  /\ schema' = [c \in Collections |-> Strictness(worktree, c)]
  /\ phase' = "diff"
  /\ UNCHANGED <<trees, worktree, changed, affected, wholeFileDone, counts,
                 findings, edited>>

DiffFiles ==
  /\ phase = "diff"
  /\ \E renaming \in Renamings : changed' = NameStatus(renaming)
  /\ phase' = "resolve"
  /\ UNCHANGED <<trees, worktree, schema, affected, wholeFileDone, counts,
                 findings, edited>>

Resolve ==
  /\ phase = "resolve"
  /\ ~ChangedDefinitionFile
  /\ affected' \in Resolutions
  /\ phase' = "validate"
  /\ UNCHANGED <<trees, worktree, schema, changed, wholeFileDone, counts,
                 findings, edited>>

FallBack ==
  /\ phase = "resolve"
  /\ ChangedDefinitionFile
  /\ phase' = "full"
  /\ UNCHANGED <<trees, worktree, schema, changed, affected, wholeFileDone,
                 counts, findings, edited>>

\* bug: only the last file validated is counted
ValidateAffectedAfresh ==
  /\ phase = "validate"
  /\ \E a \in affected :
       /\ affected' = affected \ {a}
       /\ IF a.col \in wholeFileDone THEN UNCHANGED <<wholeFileDone, counts, findings>>
          ELSE /\ wholeFileDone' = wholeFileDone \cup ({a.col} \cap Shared)
               /\ counts' = [counts EXCEPT ![a.col] =
                    [passed |-> Passed(a.col, a.file), total |-> Total(a.col, a.file)]]
               /\ findings' = findings \cup FileFindings(a.col, a.file)
  /\ UNCHANGED <<trees, worktree, schema, phase, changed, edited>>

\* bug: a collection is done after one file, shared or not
ValidateAffectedOnce ==
  /\ phase = "validate"
  /\ \E a \in affected :
       /\ affected' = affected \ {a}
       /\ IF a.col \in wholeFileDone THEN UNCHANGED <<wholeFileDone, counts, findings>>
          ELSE /\ wholeFileDone' = wholeFileDone \cup {a.col}
               /\ counts' = [counts EXCEPT ![a.col] =
                               [passed |-> @.passed + Passed(a.col, a.file),
                                total  |-> @.total + Total(a.col, a.file)]]
               /\ findings' = findings \cup FileFindings(a.col, a.file)
  /\ UNCHANGED <<trees, worktree, schema, phase, changed, edited>>

\* one AffectedRecord; a shared file is validated once for its collection
ValidateAffected ==
  /\ phase = "validate"
  /\ \E a \in affected :
       /\ affected' = affected \ {a}
       /\ IF a.col \in wholeFileDone THEN UNCHANGED <<wholeFileDone, counts, findings>>
          ELSE /\ wholeFileDone' = wholeFileDone \cup ({a.col} \cap Shared)
               /\ counts' = [counts EXCEPT ![a.col] =
                               [passed |-> @.passed + Passed(a.col, a.file),
                                total  |-> @.total + Total(a.col, a.file)]]
               /\ findings' = findings \cup FileFindings(a.col, a.file)
  /\ UNCHANGED <<trees, worktree, schema, phase, changed, edited>>

Return ==
  /\ phase = "validate" /\ affected = {}
  /\ phase' = "done"
  /\ UNCHANGED <<trees, worktree, schema, changed, affected, wholeFileDone,
                 counts, findings, edited>>

\* the record files of a full pass (module Validation has its steps)
FullValidation ==
  LET ListedOf(c) == {f \in RecordFiles : [col |-> c, file |-> f] \in Listed}
  IN /\ phase = "full"
     /\ findings' = UNION {FileFindings(a.col, a.file) : a \in Listed}
     /\ counts' = [c \in Collections |->
          [passed |-> Cardinality(UNION {Passing(c, f) : f \in ListedOf(c)}),
           total  |-> Cardinality(UNION {Counted(c, f) : f \in ListedOf(c)})]]
     /\ phase' = "done"
     /\ UNCHANGED <<trees, worktree, schema, changed, affected, wholeFileDone, edited>>

\* somebody edits the working tree
Edit ==
  /\ phase \notin {"load", "done"}
  /\ Cardinality(edited) < MaxEdits
  /\ \E f \in Files \ edited : \E content \in MayHold(f) \ {worktree[f]} :
       /\ worktree' = [worktree EXCEPT ![f] = content]
       /\ edited' = edited \cup {f}
  /\ UNCHANGED <<trees, schema, phase, changed, affected, wholeFileDone, counts, findings>>

Step ==
  \/ LoadDefinition
  \/ DiffFiles
  \/ Resolve
  \/ FallBack
  \/ ValidateAffected
  \/ Return
  \/ FullValidation

Next == Step \/ Edit

Spec == Init /\ [][Next]_vars /\ WF_vars(Step)

-----------------------------------------------------------------------------
(* Properties. *)

\* The variables range over the values the Go types allow.
TypeOK ==
  /\ {from, to, worktree} \subseteq Trees
  /\ untracked \subseteq RecordFiles /\ against \in {"ref", "worktree"}
  /\ schema \in [Collections -> Schemas]
  /\ phase \in {"load", "diff", "resolve", "validate", "full", "done"}
  /\ changed \subseteq [kind : {"added", "modified", "deleted", "renamed"}, path : Files]
  /\ affected \subseteq [col : Collections, file : RecordFiles]
  /\ wholeFileDone \subseteq Shared
  /\ counts \in [Collections -> [passed : Nat, total : Nat]]
  /\ \A f \in findings :
       /\ f.kind \in {"record", "file", "missing"}
       /\ f.col \in Owners[f.file]
       /\ f.kind # "record" => f.key = NoKey
  /\ edited \subseteq Files

\* what the columns find wrong with the record files of a tree, under its own
\* definitions; foreign keys, bounds on counts and subcollections are left out
Faults(tree) ==
  UNION {LET level == Strictness(tree, a.col)
         IN IF tree[a.file] = Garbage THEN {Finding("file", a.col, a.file, NoKey)}
            ELSE IF tree[a.file] = Absent THEN {}
            ELSE {Finding("record", a.col, a.file, k) :
                    k \in {l \in DOMAIN tree[a.file] : ~Valid(tree[a.file][l], level)}} :
         a \in {b \in [col : Collections, file : RecordFiles] : b.col \in Owners[b.file]}}

\* nothing that a finding depends on was edited since the definition was loaded
Still(finding) == ({finding.file} \cup DefinedBy[finding.col]) \cap edited = {}

\* A record at fault with its columns, or a broken file, that the first ref does
\* not have is found, whether the record brought it or its definition file did:
\* checking only the changed records loses no such fault.  The working tree must
\* hold what git compared.  A base that a definition inherits is no definition
\* file (changedDefinitionFile): with bases that change this does not hold.
NewFaultsAreFound ==
  phase = "done" =>
    \A fault \in Faults(worktree) \ Faults(from) :
      /\ Still(fault)
      /\ \A f \in {fault.file} \cup DefinedBy[fault.col] : worktree[f] = Second(f)
      => fault \in findings

\* Whatever is found is wrong with the files on disk, and a file that the range
\* deletes is not missed: deletions are nothing to open.
FindingsAreFaults ==
  phase = "done" =>
    \A f \in findings : Still(f) =>
      IF f.kind = "missing" THEN worktree[f.file] = Absent /\ Second(f.file) # Absent
      ELSE f \in Faults(worktree)

\* Unless a definition changed, no file outside the range is opened: an old
\* fault in a file that nobody touched is not reported.
OnlyTheRange ==
  phase = "done" /\ (\A f \in DefinitionFiles : f \notin edited /\ from[f] = Second(f)) =>
    \A f \in findings : f.file \in edited \/ from[f.file] # Second(f.file)

\* The counts of a collection and its findings tell one story.
CountsMatchFindings ==
  \A c \in Collections :
    counts[c].total - counts[c].passed = Cardinality({f \in findings : f.col = c})
=============================================================================
