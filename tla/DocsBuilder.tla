----------------------------- MODULE DocsBuilder -----------------------------
(***************************************************************************)
(* The README.md of each collection (ingitdb/docsbuilder).  UpdateDocs     *)
(* resolves a pattern to collections of the tree, renders each of them and *)
(* writes the file when its content differs.  Several collections may keep *)
(* their data, and so their README, in one directory.  After a merge, the  *)
(* READMEs in conflict are rendered afresh.  Records may be edited in      *)
(* between, calls fail, and the process may die.                           *)
(***************************************************************************)
EXTENDS Integers, Sequences, FiniteSets, SequencesExt

CONSTANTS Collections, \* numbers: a collection is greater than its parent
          NoCollection,
          DirPaths,    \* directories: some hold the data of collections
          Columns,     \* names of columns
          Locales,     \* locales of titles; "en" is one
          Rows,        \* records
          Unordered,   \* a preview is ordered by no column
          Definitions, \* by collection: its parent, directory and what is shown
          Patterns,    \* what UpdateDocs is asked for
          MaxUpdates, MaxEdits, MaxFaults \* bounds

\* order: columns_order, <<>> if there is none; fromMap: are the records read
\* from one file, in random order?; preview: is a data_preview of them shown?
\* orderBy: what the column that it is ordered by holds, the negative for desc;
\* orderShown: is that column among those that it shows?; top: 0 is unbounded
CollectionDef ==
  [parent : Collections \cup {NoCollection}, dir : DirPaths, titles : SUBSET Locales,
   columns : SUBSET Columns, order : Seq(Columns), hideColumns : BOOLEAN,
   fromMap : BOOLEAN, preview : BOOLEAN, orderBy : {Unordered} \cup [Rows -> Int],
   orderShown : BOOLEAN, top : Nat]

\* a README: there is none, what an interrupted os.WriteFile leaves, and what
\* git leaves of two READMEs it could not merge; else it is "rendered"
NoFile     == [is |-> "absent"]
Torn       == [is |-> "torn"]
Conflicted == [is |-> "conflicted"]

\* kind: "one" collection, with its "direct" subcollections, with "all" that is
\* below it, or "everything" in the database; a kind of "conflicts" is not a
\* pattern: the collections of READMEs in conflict
Pattern == [kind : {"one", "direct", "all", "everything"},
            of : Collections]

ASSUME CollectionAssumption == Collections \subseteq Nat /\ NoCollection \notin Collections
ASSUME PatternAssumption    == Patterns \subseteq Pattern
ASSUME DefinitionAssumption ==
  \A defs \in Definitions :
    /\ DOMAIN defs \subseteq Collections
    /\ \A c \in DOMAIN defs :
         /\ defs[c] \in CollectionDef
         /\ defs[c].parent # NoCollection =>
              defs[c].parent \in DOMAIN defs /\ defs[c].parent < c

VARIABLES defs,     \* the definition of the database
          source,   \* the records of each collection with a preview
          readmes,  \* the README.md of each directory
          asked,    \* what the running or last update was asked for
          frames,   \* collections still to be processed, the innermost last
          current,  \* the collection whose README has been rendered, if any
          content,  \* what was rendered
          done,     \* collections the running or last update has processed
          result,   \* the MaterializeResult of the running or last update
          status,   \* "running", or how the last update ended
          updates, edits, faults, \* used up of each bound
          fresh,    \* history: have records and READMEs been left alone?
          settled,  \* history: did the last update leave nothing to do?
          noop      \* history: has this update had nothing to do?

bounds  == <<updates, edits, faults>>
history == <<fresh, settled, noop>>
vars == <<defs, source, readmes, asked, frames, current, content, done, result, status,
          bounds, history>>

All == DOMAIN defs
Previewed == {c \in All : defs[c].preview}
Subs(c) == {d \in All : defs[d].parent = c}
Roots   == Subs(NoCollection)

-----------------------------------------------------------------------------
(* Rendering. *)

Orders(S) == SetToSeqs(S)

\* the English title, else any, else the id
Titles(def) ==
  IF def.titles = {} THEN {"id"} ELSE IF "en" \in def.titles THEN {"en"} ELSE def.titles

ColumnTables(def) ==
  IF def.hideColumns THEN {<<>>}
  ELSE IF def.order # <<>> THEN {SelectSeq(def.order, LAMBDA x : x \in def.columns)}
  ELSE Orders(def.columns)

\* the directory is globbed in the order of names
Listings(def, records) ==
  IF def.fromMap THEN Orders(records) ELSE {SetToSortSeq(records, LAMBDA x, y : x < y)}

\* rows of equal value stay as they were read
StableSort(value, s) ==
  LET positions == SetToSortSeq(DOMAIN s, LAMBDA i, j :
                     \/ value[s[i]] < value[s[j]]
                     \/ value[s[i]] = value[s[j]] /\ i < j)
  IN [k \in DOMAIN s |-> s[positions[k]]]

\* the columns that are not shown are dropped first: to sort by one of them
\* leaves the rows as they were read
Preview(def, s) ==
  LET ordered == IF def.orderBy = Unordered \/ ~def.orderShown THEN s
                 ELSE StableSort(def.orderBy, s)
  IN IF def.top \in 1..Len(s) THEN SubSeq(ordered, 1, def.top) ELSE ordered
Previews(def, records) ==
  IF def.preview THEN {Preview(def, s) : s \in Listings(def, records)} ELSE {<<>>}

Renderings(c, records) ==
  {[is |-> "rendered", id |-> c, title |-> t, columns |-> cols, preview |-> p] :
     t \in Titles(defs[c]), cols \in ColumnTables(defs[c]),
     p \in Previews(defs[c], records)}

RenderingsNow(c) == Renderings(c, IF c \in Previewed THEN source[c] ELSE {})

\* is nothing of a rendering left to chance?
Settled(c) ==
  \A records \in SUBSET Rows : \A x, y \in Renderings(c, records) : x = y

-----------------------------------------------------------------------------
(* An update. *)

NoResult == [updated |-> 0, unchanged |-> 0, errors |-> 0]

Init ==
  /\ defs \in Definitions
  /\ source \in [Previewed -> SUBSET Rows]
  /\ readmes = [d \in DirPaths |-> NoFile]
  /\ asked = [kind |-> "none", of |-> NoCollection]
  /\ frames = <<>> /\ current = NoCollection /\ content = NoFile /\ done = {}
  /\ result = NoResult
  /\ status = "none"
  /\ updates = 0 /\ edits = 0 /\ faults = 0
  /\ fresh = TRUE /\ settled = FALSE /\ noop = FALSE

\* FindCollectionByDir: a parent is found before what is below it
Ancestors(c) ==
  LET up[d \in All] == IF defs[d].parent = NoCollection THEN {}
                       ELSE up[defs[d].parent] \cup {defs[d].parent}
  IN up[c]
FoundByDir(dir) ==
  {c \in All : /\ defs[c].dir = dir
               /\ \A d \in Ancestors(c) : defs[d].dir # dir}

\* bug: a path to no collection is not noticed
UncheckedTargets(pattern) == IF pattern.kind = "everything" THEN Roots ELSE {pattern.of}

\* where ResolveCollections starts from
Targets(pattern) ==
  IF pattern.kind = "everything" THEN Roots ELSE {pattern.of} \cap All

Start(pattern, frame) ==
  /\ status # "running"
  /\ updates < MaxUpdates
  /\ updates' = updates + 1
  /\ asked' = pattern
  /\ frames' = <<frame>>
  /\ done' = {}
  /\ result' = NoResult
  /\ status' = "running"
  /\ fresh' = TRUE /\ settled' = FALSE
  /\ UNCHANGED <<defs, source, readmes, current, content, edits, faults>>

UpdateDocs ==
  \E pattern \in Patterns :
    /\ Start(pattern, Targets(pattern))
    /\ noop' = (settled /\ pattern = asked)

\* the READMEs that git could not merge, each of the collection found for it
ResolveConflicts ==
  LET dirs == {d \in DirPaths : readmes[d] = Conflicted /\ FoundByDir(d) # {}}
  IN /\ dirs # {}
     /\ \E found \in [dirs -> All] :
          /\ \A d \in dirs : found[d] \in FoundByDir(d)
          /\ Start([kind |-> "conflicts", of |-> NoCollection], {found[d] : d \in dirs})
     /\ noop' = FALSE

Here == frames[Len(frames)]
Drop == SubSeq(frames, 1, Len(frames) - 1)
Frame(S) == IF S = {} THEN <<>> ELSE <<S>>

\* bug: what is below a subcollection is left out
BelowOnce(c) ==
  IF asked.kind # "one" /\ (c = asked.of \/ c \in Roots) THEN Subs(c) ELSE {}

\* what collectSub lists after a collection
Below(c) ==
  IF asked.kind \in {"all", "everything"} \/ (asked.kind = "direct" /\ c = asked.of)
  THEN Subs(c) ELSE {}

\* the next collection of the list, in the random order of the maps it was
\* collected from; the records are read now
RenderReadme ==
  /\ status = "running"
  /\ current = NoCollection
  /\ frames # <<>>
  /\ \E c \in Here :
       /\ \E rendering \in RenderingsNow(c) : content' = rendering
       /\ current' = c
       /\ frames' = Drop \o Frame(Here \ {c}) \o Frame(Below(c))
  /\ UNCHANGED <<defs, source, readmes, asked, done, result, status, bounds, history>>

Counted(c, field) ==
  /\ done' = done \cup {c}
  /\ result' = [result EXCEPT ![field] = @ + 1]
  /\ current' = NoCollection /\ content' = NoFile
  /\ UNCHANGED <<defs, source, asked, status, updates, edits, settled>>

Readme(c) == readmes[defs[c].dir]
Rendered(c) == status = "running" /\ current = c

KeepReadme ==
  \E c \in All :
    /\ Rendered(c)
    /\ Readme(c) = content
    /\ Counted(c, "unchanged")
    /\ UNCHANGED <<readmes, frames, faults, fresh, noop>>

\* bug: the README is written without a look at what it holds
WriteAlways ==
  \E c \in All :
    /\ Rendered(c)
    /\ readmes' = [readmes EXCEPT ![defs[c].dir] = content]
    /\ Counted(c, "updated")
    /\ UNCHANGED <<frames, faults, fresh, noop>>

\* bug: a README that exists is left to whoever wrote it
WriteMissingReadme ==
  \E c \in All :
    /\ Rendered(c)
    /\ Readme(c) # content
    /\ readmes' = [readmes EXCEPT ![defs[c].dir] = IF @ = NoFile THEN content ELSE @]
    /\ Counted(c, "updated")
    /\ UNCHANGED <<frames, faults, fresh, noop>>

WriteReadme ==
  \E c \in All :
    /\ Rendered(c)
    /\ Readme(c) # content
    /\ readmes' = [readmes EXCEPT ![defs[c].dir] = content]
    /\ Counted(c, "updated")
    /\ UNCHANGED <<frames, faults, fresh, noop>>

Fault == faults < MaxFaults /\ faults' = faults + 1 /\ noop' = FALSE

\* the preview cannot be read, or the file not written, which may truncate it
ProcessFails ==
  /\ Fault
  /\ \E c \in All :
       /\ Rendered(c)
       /\ \/ (c \in Previewed \/ Readme(c) # content) /\ UNCHANGED readmes
          \/ Readme(c) # content /\ readmes' = [readmes EXCEPT ![defs[c].dir] = Torn]
       /\ Counted(c, "errors")
  /\ UNCHANGED <<frames, fresh>>

\* a README that cannot be read is written
RewriteUnreadable ==
  /\ Fault
  /\ \E c \in All :
       /\ Rendered(c)
       /\ Readme(c) # NoFile
       /\ readmes' = [readmes EXCEPT ![defs[c].dir] = content]
       /\ Counted(c, "updated")
  /\ UNCHANGED <<frames, fresh>>

End(how) ==
  /\ status' = how
  /\ frames' = <<>> /\ current' = NoCollection /\ content' = NoFile
  /\ UNCHANGED <<defs, source, asked, done, result, updates, edits, fresh, noop>>

\* bug: with an error the update goes on and on
ReturnWithoutErrors ==
  /\ status = "running"
  /\ current = NoCollection
  /\ frames \in {<<>>, <<{}>>}
  /\ result.errors = 0
  /\ End("returned")
  /\ settled' = fresh
  /\ UNCHANGED <<readmes, faults>>

Return ==
  /\ status = "running"
  /\ current = NoCollection
  /\ frames \in {<<>>, <<{}>>}
  /\ End("returned")
  /\ settled' = (fresh /\ result.errors = 0)
  /\ UNCHANGED <<readmes, faults>>

Crash ==
  /\ status = "running"
  /\ faults < MaxFaults
  /\ faults' = faults + 1
  /\ \/ UNCHANGED readmes
     \/ \E c \in All : /\ Rendered(c) /\ Readme(c) # content
                       /\ readmes' = [readmes EXCEPT ![defs[c].dir] = Torn]
  /\ End("crashed")
  /\ UNCHANGED settled

Disturb ==
  /\ edits < MaxEdits /\ edits' = edits + 1
  /\ fresh' = FALSE /\ settled' = FALSE /\ noop' = FALSE

\* somebody edits a record, or merges branches whose READMEs differ
Edit ==
  /\ Disturb
  /\ \/ /\ \E c \in Previewed, row \in Rows :
             source' = [source EXCEPT ![c] = IF row \in @ THEN @ \ {row} ELSE @ \cup {row}]
        /\ UNCHANGED readmes
     \/ /\ \E d \in DirPaths :
             /\ readmes[d] \notin {NoFile, Conflicted}
             /\ readmes' = [readmes EXCEPT ![d] = Conflicted]
        /\ UNCHANGED source
  /\ UNCHANGED <<defs, asked, frames, current, content, done, result, status,
                 updates, faults>>

UpdateStep == RenderReadme \/ KeepReadme \/ WriteReadme \/ Return

Next == UpdateDocs \/ ResolveConflicts \/ UpdateStep \/ ProcessFails \/ RewriteUnreadable
        \/ Crash \/ Edit

\* an update that has started runs to its end unless the process dies
Spec == Init /\ [][Next]_vars /\ WF_vars(UpdateStep)

-----------------------------------------------------------------------------
(* Properties. *)

\* The variables range over the values the Go types allow.
IsRendering(x) ==
  \E c \in All, records \in SUBSET Rows : x.id = c /\ x \in Renderings(c, records)
TypeOK ==
  /\ defs \in Definitions
  /\ source \in [Previewed -> SUBSET Rows]
  /\ DOMAIN readmes = DirPaths
  /\ \A d \in DirPaths :
       readmes[d] \notin {NoFile, Torn, Conflicted} => IsRendering(readmes[d])
  /\ frames \in Seq(SUBSET All)
  /\ current \in All \cup {NoCollection} /\ (current # NoCollection => IsRendering(content))
  /\ done \subseteq All
  /\ result \in [{"updated", "unchanged", "errors"} -> Nat]
  /\ status \in {"none", "running", "returned", "crashed"}

\* An update processes exactly the collections that its pattern means, each of
\* them once, however deep they are and whichever of them fail.
Meant(pattern) ==
  {c \in All : CASE pattern.kind = "one"    -> c = pattern.of
                 [] pattern.kind = "direct" -> pattern.of \in {c, defs[c].parent}
                 [] pattern.kind = "all"    -> pattern.of \in Ancestors(c) \cup {c}
                 [] OTHER                   -> TRUE}
EachTargetOnce ==
  status = "returned" /\ asked.kind # "conflicts" =>
    /\ done = Meant(asked)
    /\ result.updated + result.unchanged + result.errors = Cardinality(done)

\* After an update that returned without errors over records that stood still,
\* each directory it wrote to holds the README of a collection that was asked
\* for, with its records as they are: nothing torn or in conflict survives.
CleanUpdateIsCurrent ==
  settled =>
    \A c \in done : \E d \in done : /\ defs[d].dir = defs[c].dir
                                    /\ Readme(c) \in RenderingsNow(d)

\* Updating again what the last update left complete and current writes
\* nothing, unless something of a README is left to chance or two collections
\* share a directory: README rendering is "write-only-on-change".
Alone(c) == \A d \in Meant(asked) \ {c} : defs[d].dir # defs[c].dir
SecondUpdateIsNoOp ==
  noop /\ (\A c \in Meant(asked) : Settled(c) /\ Alone(c)) =>
    result.updated + result.errors = 0

\* The same of every collection that has a directory of its own: README rendering
\* is deterministic (collection_readme.go:107-109), and a preview lists the records
\* ordered by the column it names (view_header_test.go:33).
ReadmesAreStable ==
  noop /\ (\A c \in Meant(asked) : Alone(c)) => result.updated + result.errors = 0

\* When the conflicts have been resolved without an error, no collection's
\* README is left in conflict.
ConflictsAreResolved ==
  settled /\ asked.kind = "conflicts" => \A c \in All : Readme(c) # Conflicted

\* Every update comes to its end, whatever fails.
UpdateEnds == status = "running" ~> status # "running"
=============================================================================
