---------------------------- MODULE Materializer ----------------------------
(***************************************************************************)
(* Materializing the views of one collection (ingitdb/materializer).       *)
(* BuildViews takes the views in the random order of a Go map, re-reads    *)
(* all records for each of them, and writes one or more files per view:    *)
(* the default view in batches, followed by one file per foreign-key       *)
(* value; a parameterized view as one file per field value; a named view   *)
(* as one file, sorted and cut to its top rows.  A file is written only    *)
(* when its content differs.  Records may be edited while they are read,   *)
(* reads and writes fail, and the process may die.                         *)
(***************************************************************************)
EXTENDS Integers, Sequences, FiniteSets

CONSTANTS Ids,         \* record keys, in the order in which files are globbed
          FieldValues, \* values of the field that refers, partitions and sorts
          NoValue,     \* the field is absent or nil
          NoRecord,    \* there is no record with the key
          NoFile,      \* nothing at a path
          Torn,        \* what an interrupted os.WriteFile leaves
          Setups,      \* how the collection and its views may be defined
          MaxEdits,    \* bound: edits of the records
          MaxFaults    \* bound: failed calls and crashes

ASSUME IdsAssumption    == Ids \subseteq Int /\ IsFiniteSet(Ids) /\ FieldValues \subseteq Int
ASSUME AbsentAssumption == NoValue \notin FieldValues
\* views: those of the collection, of the three kinds; batchSize: the
\* max_batch_size of the default view, 0 is unbounded; top: that of the named
\* view, 0 is unbounded; orderShown: does that view show the column it is
\* ordered by?; desc: is it ordered downwards?; placed: has the file name of the
\* partitioned view a place for the value?; resolved: does the foreign key of the
\* field lead to a collection?  Without validation it need not; fromMap: are
\* records read from a map, in random order?; builds: bound on the builds
Setup == [views : SUBSET {"default", "named", "partitioned"},
          batchSize : Nat, top : Nat, orderShown : BOOLEAN, desc : BOOLEAN,
          placed : BOOLEAN, resolved : BOOLEAN, fromMap : BOOLEAN, builds : Nat]
ASSUME SetupAssumption  == Setups \subseteq Setup
ASSUME BoundsAssumption == MaxEdits \in Nat /\ MaxFaults \in Nat

FieldContents == FieldValues \cup {NoValue}
Row     == [id : Ids, val : FieldContents]
Sources == [Ids -> FieldContents \cup {NoRecord}]
Paths   == [kind : {"default", "named", "part"}, key : {0}]
             \cup [kind : {"batch"}, key : 1..Cardinality(Ids)]
             \cup [kind : {"fk", "part"}, key : FieldValues]
Writes  == [path : Paths, content : Seq(Row), rank : Nat]
ASSUME FilesAssumption == NoFile \notin Seq(Row) /\ Torn \notin Seq(Row)

VARIABLES setup,    \* how the collection and its views are defined
          source,   \* the records, as their files hold them
          disk,     \* the generated files
          phase,    \* "idle", "building", "reading" a view's records
          todo,     \* views the running build has not reached
          view,     \* the view the build is at
          globbed,  \* record files still to be read for it
          rows,     \* records read so far for it
          plan,     \* files the current view still has to write
          result,   \* the MaterializeResult of the running or last build
          planned,  \* how many files the running or last build planned
          status,   \* how the last build ended
          edits, faults, builds,  \* used up of each bound
          fresh,    \* history: have the records stood still in this build?
          settled,  \* history: did the last build leave nothing to do?
          noop      \* history: has this build had nothing to do so far?

reading  == <<view, globbed, rows>>
progress == <<todo, plan, planned>>
bounds   == <<edits, faults, builds>>
history  == <<fresh, settled, noop>>
vars == <<setup, source, disk, phase, reading, progress, result, status, bounds,
          history>>

-----------------------------------------------------------------------------
(* Reading and rendering. *)

Present(src) == {i \in Ids : src[i] # NoRecord}
RowsOf(src)  == {[id |-> i, val |-> src[i]] : i \in Present(src)}

Enumerations(S) ==
  {s \in [1..Cardinality(S) -> S] : \A i, j \in DOMAIN s : s[i] = s[j] => i = j}

\* nil sorts first
Below(a, b) == IF a = NoValue \/ b = NoValue THEN a = NoValue /\ b # NoValue
               ELSE a < b
Before(a, b) == IF setup.desc THEN Below(b, a) ELSE Below(a, b)
Rank(s, i) == Cardinality({j \in DOMAIN s : \/ Before(s[j].val, s[i].val)
                                            \/ s[j].val = s[i].val /\ j <= i})
StableSort(s) ==
  [r \in DOMAIN s |-> s[CHOOSE i \in DOMAIN s : Rank(s, i) = r]]

Least(a, b) == IF a < b THEN a ELSE b

Path(kind, key)           == [kind |-> kind, key |-> key]
WriteOf(path, s, rank)    == [path |-> path, content |-> s, rank |-> rank]

\* bug: the batches are counted without rounding up
BatchesRoundedDown(s) == IF setup.batchSize > 0 /\ Len(s) > setup.batchSize
                         THEN Len(s) \div setup.batchSize ELSE 1
TotalBatches(s) == IF setup.batchSize > 0 /\ Len(s) > setup.batchSize
                   THEN (Len(s) + setup.batchSize - 1) \div setup.batchSize ELSE 1
BatchRows(s, n) ==
  SubSeq(s, (n - 1) * setup.batchSize + 1, Least(n * setup.batchSize, Len(s)))
\* bug: batches are numbered from zero
BatchesFromZero(s) ==
  IF TotalBatches(s) = 1 THEN {WriteOf(Path("default", 0), s, 0)}
  ELSE {WriteOf(Path("batch", n - 1), BatchRows(s, n), n) : n \in 1..TotalBatches(s)}
DefaultWrites(s) ==
  IF TotalBatches(s) = 1 THEN {WriteOf(Path("default", 0), s, 0)}
  ELSE {WriteOf(Path("batch", n), BatchRows(s, n), n) : n \in 1..TotalBatches(s)}

\* the rows at these positions, in the order of s
Place(i, positions) == Cardinality({j \in positions : j <= i})
RowsAt(s, positions) ==
  [k \in 1..Cardinality(positions) |-> s[CHOOSE i \in positions : Place(i, positions) = k]]
WithValue(s, v) == RowsAt(s, {i \in DOMAIN s : s[i].val = v})
ValuesIn(s)     == {s[i].val : i \in DOMAIN s} \ {NoValue}
\* without a place for the value, all partitions go to one path
GroupPath(kind, v) == Path(kind, IF kind = "part" /\ ~setup.placed THEN 0 ELSE v)
GroupWrites(kind, s, rank) ==
  {WriteOf(GroupPath(kind, v), WithValue(s, v), rank) : v \in ValuesIn(s)}

FilterColumns(s) ==
  IF setup.orderShown THEN s ELSE [i \in DOMAIN s |-> [s[i] EXCEPT !.val = NoValue]]
NamedRows(s) == SubSeq(s, 1, IF setup.top > 0 THEN Least(setup.top, Len(s)) ELSE Len(s))

\* a foreign key that leads nowhere groups nothing, and is an error in the result
FKWrites(s) == IF setup.resolved THEN GroupWrites("fk", s, TotalBatches(s) + 1) ELSE {}
Refused(v)  == IF v = "default" /\ ~setup.resolved THEN 1 ELSE 0

\* batches go out in order, the groups after them in the order of a map
WritesOf(v, s) ==
  CASE v = "default"     -> DefaultWrites(s) \cup FKWrites(s)
    [] v = "partitioned" -> GroupWrites("part", StableSort(s), 0)
    [] v = "named" ->
         {WriteOf(Path("named", 0), NamedRows(StableSort(FilterColumns(s))), 0)}

-----------------------------------------------------------------------------
NoResult == [created |-> 0, updated |-> 0, unchanged |-> 0, errors |-> 0]

Init ==
  /\ setup \in Setups
  /\ source \in Sources
  /\ disk = [p \in Paths |-> NoFile]
  /\ phase = "idle"
  /\ view = "none" /\ globbed = {} /\ rows = <<>>
  /\ todo = {} /\ plan = {} /\ planned = 0
  /\ result = NoResult
  /\ status = "none"
  /\ edits = 0 /\ faults = 0 /\ builds = 0
  /\ fresh = TRUE /\ settled = FALSE /\ noop = FALSE

StartBuild ==
  /\ phase = "idle"
  /\ builds < setup.builds
  /\ builds' = builds + 1
  /\ phase' = "building"
  /\ todo' = setup.views /\ planned' = 0
  /\ result' = NoResult
  /\ status' = "none"
  /\ fresh' = TRUE /\ noop' = settled /\ settled' = FALSE
  /\ UNCHANGED <<setup, source, disk, reading, plan, edits, faults>>

\* the next view of the map; a map file is read at once, in random order,
\* a directory is globbed first
StartView ==
  /\ phase = "building"
  /\ plan = {}
  /\ \E v \in todo : view' = v /\ todo' = todo \ {v}
  /\ IF setup.fromMap
     THEN globbed' = {} /\ \E s \in Enumerations(RowsOf(source)) : rows' = s
     ELSE globbed' = Present(source) /\ rows' = <<>>
  /\ phase' = "reading"
  /\ UNCHANGED <<setup, source, disk, plan, planned, result, status, bounds, history>>

NextFile == CHOOSE i \in globbed : \A j \in globbed : i <= j

ReadRecord ==
  /\ phase = "reading"
  /\ globbed # {}
  /\ source[NextFile] # NoRecord
  /\ rows' = Append(rows, [id |-> NextFile, val |-> source[NextFile]])
  /\ globbed' = globbed \ {NextFile}
  /\ UNCHANGED <<setup, source, disk, phase, view, progress, result, status, bounds,
                 history>>

PlanView ==
  /\ phase = "reading"
  /\ globbed = {}
  /\ plan' = WritesOf(view, rows)
  /\ planned' = planned + Cardinality(WritesOf(view, rows))
  /\ result' = [result EXCEPT !.errors = @ + Refused(view)]
  /\ rows' = <<>>
  /\ phase' = "building"
  /\ UNCHANGED <<setup, source, disk, view, globbed, todo, status, bounds, history>>

EndBuild(how) ==
  /\ phase' = "idle"
  /\ status' = how
  /\ globbed' = {} /\ rows' = <<>>
  /\ todo' = {} /\ plan' = {}
  /\ UNCHANGED <<setup, source, view, result, planned, edits, builds, fresh, noop>>

\* bug: a record that is gone is tried again
RecordAwaited ==
  /\ phase = "reading"
  /\ globbed # {}
  /\ source[NextFile] = NoRecord
  /\ UNCHANGED vars

\* a record deleted after the glob ends the build: what it wrote stays, the
\* result is dropped
RecordVanished ==
  /\ phase = "reading"
  /\ globbed # {}
  /\ source[NextFile] = NoRecord
  /\ EndBuild("failed")
  /\ UNCHANGED <<disk, faults, settled>>

ReadFails ==
  /\ phase = "reading"
  /\ faults < MaxFaults
  /\ faults' = faults + 1
  /\ EndBuild("failed")
  /\ UNCHANGED <<disk, settled>>

NextWrite(w) ==
  /\ phase = "building"
  /\ w \in plan
  /\ \A u \in plan : w.rank <= u.rank

Counted(w, field) ==
  /\ plan' = plan \ {w}
  /\ result' = [result EXCEPT ![field] = @ + 1]
  /\ UNCHANGED <<setup, source, phase, reading, todo, planned, status, edits, builds,
                 fresh, settled>>

KeepFile(w) ==
  /\ NextWrite(w)
  /\ disk[w.path] = w.content
  /\ Counted(w, "unchanged")
  /\ UNCHANGED <<disk, faults, noop>>

\* bug: the file is written without a look at what it holds
WriteAlways(w) ==
  /\ NextWrite(w)
  /\ disk' = [disk EXCEPT ![w.path] = w.content]
  /\ Counted(w, IF disk[w.path] = NoFile THEN "created" ELSE "updated")
  /\ UNCHANGED <<faults, noop>>

WriteFile(w) ==
  /\ NextWrite(w)
  /\ disk[w.path] # w.content
  /\ disk' = [disk EXCEPT ![w.path] = w.content]
  /\ Counted(w, IF disk[w.path] = NoFile THEN "created" ELSE "updated")
  /\ UNCHANGED <<faults, noop>>

Fault == faults < MaxFaults /\ faults' = faults + 1 /\ noop' = FALSE

\* a file that cannot be read counts as missing
RewriteUnreadable(w) ==
  /\ NextWrite(w)
  /\ Fault
  /\ disk[w.path] # NoFile
  /\ disk' = [disk EXCEPT ![w.path] = w.content]
  /\ Counted(w, "created")

\* bug: a failed write is logged and forgotten
WriteFailureDropped(w) ==
  /\ NextWrite(w)
  /\ Fault
  /\ plan' = plan \ {w}
  /\ UNCHANGED <<setup, source, disk, phase, reading, todo, planned, result, status,
                 edits, builds, fresh, settled>>

\* the default view makes the directory before it looks at the file, the view
\* writer only once it has to write; a failed write may have truncated
WriteFails(w) ==
  /\ NextWrite(w)
  /\ Fault
  /\ w.path.kind \in {"named", "part"} => disk[w.path] # w.content
  /\ \/ UNCHANGED disk
     \/ disk[w.path] # w.content /\ disk' = [disk EXCEPT ![w.path] = Torn]
  /\ Counted(w, "errors")

ReturnResult ==
  /\ phase = "building"
  /\ plan = {}
  /\ todo = {}
  /\ EndBuild("returned")
  /\ settled' = (fresh /\ result.errors = 0)
  /\ UNCHANGED <<disk, faults>>

\* the process dies, perhaps in the middle of a write
Crash ==
  /\ phase # "idle"
  /\ faults < MaxFaults
  /\ faults' = faults + 1
  /\ \/ UNCHANGED disk
     \/ \E w \in plan : /\ NextWrite(w)
                        /\ disk[w.path] # w.content
                        /\ disk' = [disk EXCEPT ![w.path] = Torn]
  /\ EndBuild("crashed")
  /\ UNCHANGED settled

Edit ==
  /\ edits < MaxEdits
  /\ edits' = edits + 1
  /\ \E i \in Ids, v \in FieldContents \cup {NoRecord} :
       /\ source[i] # v
       /\ source' = [source EXCEPT ![i] = v]
  /\ fresh' = FALSE /\ settled' = FALSE /\ noop' = FALSE
  /\ UNCHANGED <<setup, disk, phase, reading, progress, result, status, faults, builds>>

BuildStep ==
  \/ StartView
  \/ ReadRecord
  \/ PlanView
  \/ RecordVanished
  \/ \E w \in plan : KeepFile(w) \/ WriteFile(w)
  \/ ReturnResult

Next ==
  \/ StartBuild
  \/ BuildStep
  \/ ReadFails
  \/ \E w \in plan : RewriteUnreadable(w) \/ WriteFails(w)
  \/ Crash
  \/ Edit

\* a build that has started runs to its end unless the process dies
Spec == Init /\ [][Next]_vars /\ WF_vars(BuildStep)

-----------------------------------------------------------------------------
(* Properties. *)

\* The variables range over the values the Go types allow.
TypeOK ==
  /\ setup \in Setups
  /\ source \in Sources
  /\ \A p \in Paths : disk[p] \in Seq(Row) \/ disk[p] \in {NoFile, Torn}
  /\ phase \in {"idle", "building", "reading"}
  /\ todo \subseteq setup.views
  /\ globbed \subseteq Ids
  /\ rows \in Seq(Row)
  /\ plan \subseteq Writes
  /\ result \in [{"created", "updated", "unchanged", "errors"} -> Nat]
  /\ status \in {"none", "returned", "failed", "crashed"}

\* No file is lost from the books: what the MaterializeResult counts and what
\* the current view still has to write add up to what the build planned, and one
\* error more once the default view had a foreign key that leads nowhere.
Handled  == setup.views \ (todo \cup IF phase = "reading" THEN {view} ELSE {})
Refusals == IF "default" \in Handled THEN Refused("default") ELSE 0
ResultAddsUp ==
  phase # "idle" \/ status = "returned" =>
    result.created + result.updated + result.unchanged + result.errors
      + Cardinality(plan) = planned + Refusals

\* After a build that returned without errors over records that stood still,
\* the files say what the records say, whatever an earlier failure or crash
\* left behind: each record is in exactly one batch of the default view, each
\* foreign-key and partition file holds exactly the records with its value,
\* and the named view holds the first records in order, as long as it shows the
\* column that it is ordered by.  Partitions that share a path are not mixed up:
\* the file holds one of them.
CleanBuild == status = "returned" /\ result.errors = 0 /\ fresh

Holds(p, row) == \E j \in DOMAIN disk[p] : disk[p][j] = row
Written(p)    == disk[p] \notin {NoFile, Torn}
Exactly(p, S) == /\ Written(p)
                 /\ Len(disk[p]) = Cardinality(S)
                 /\ \A row \in S : Holds(p, row)

SourceRows  == RowsOf(source)
Grouped(v)  == {row \in SourceRows : row.val = v}
UsedValues  == {row.val : row \in SourceRows} \ {NoValue}
OneFile     == setup.batchSize = 0 \/ Cardinality(SourceRows) <= setup.batchSize
BatchCount  == CHOOSE n \in 1..Cardinality(Ids) :
                 /\ n * setup.batchSize >= Cardinality(SourceRows)
                 /\ (n - 1) * setup.batchSize < Cardinality(SourceRows)

DefaultCurrent ==
  IF OneFile THEN Exactly(Path("default", 0), SourceRows)
  ELSE /\ \A n \in 1..BatchCount : /\ Written(Path("batch", n))
                                    /\ Len(disk[Path("batch", n)]) \in 1..setup.batchSize
       /\ \A row \in SourceRows :
            Cardinality({n \in 1..BatchCount : Holds(Path("batch", n), row)}) = 1
Listed(row)  == \E j \in DOMAIN disk[Path("named", 0)] :
                  disk[Path("named", 0)][j].id = row.id
NamedCurrent ==
  LET p == Path("named", 0)
  IN /\ Written(p)
     /\ Len(disk[p]) = IF setup.top = 0 THEN Cardinality(SourceRows)
                       ELSE Least(setup.top, Cardinality(SourceRows))
     /\ \A i, j \in DOMAIN disk[p] :
          i < j => disk[p][i].id # disk[p][j].id
                   /\ ~Before(source[disk[p][j].id], source[disk[p][i].id])
     /\ \A i \in DOMAIN disk[p], row \in SourceRows :
          Before(row.val, source[disk[p][i].id]) => Listed(row)

CleanBuildIsCurrent ==
  CleanBuild =>
    /\ "default" \in setup.views =>
         DefaultCurrent /\ \A v \in UsedValues : Exactly(Path("fk", v), Grouped(v))
    /\ "partitioned" \in setup.views /\ setup.placed =>
         \A v \in UsedValues : Exactly(Path("part", v), Grouped(v))
    /\ "partitioned" \in setup.views /\ ~setup.placed /\ UsedValues # {} =>
         \E v \in UsedValues : Exactly(Path("part", 0), Grouped(v))
    /\ "named" \in setup.views /\ setup.orderShown => NamedCurrent

\* Building again what the last build left complete and current creates and
\* updates nothing, at any point of the second build: the outputs are
\* write-only-on-change.  Partitions that share a path overwrite each other, and
\* records from a map come in another order each time.
RebuildIsNoOp ==
  noop /\ phase # "idle" /\ ~setup.fromMap
    /\ ("partitioned" \in setup.views => setup.placed) =>
    result.created + result.updated + result.errors = 0

\* Every build comes to its end, whichever reads and writes fail.
BuildEnds == phase # "idle" ~> phase = "idle"
=============================================================================
