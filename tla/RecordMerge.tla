---------------------------- MODULE RecordMerge ----------------------------
(***************************************************************************)
(* The record-aware three-way merge of a conflicted record file            *)
(* (ingitdb/recordmerge).  MergeFiles parses the three stages of the file  *)
(* into keyed records; Merge then visits the union of the keys in the      *)
(* random order of a Go map, escalates at the first unsafe one, and writes *)
(* the survivors out: base order, then ours, then theirs.                  *)
(*                                                                         *)
(* A field map is a total function that sends a field the record lacks to  *)
(* NoValue; an index of records is a total function that sends a key the   *)
(* side lacks to NoRecord.                                                 *)
(***************************************************************************)
EXTENDS Integers, Sequences, FiniteSets

CONSTANTS Keys,      \* record keys; integers, so that parseMap can sort them
          Fields,    \* field names
          Values,    \* parsed field values
          NoValue,   \* the field is not in the map
          NoRecord,  \* the key is not in the index
          NoKey,     \* a row that carries none of its key columns
          NilKey,    \* the key "<nil>" that fmt.Sprintf gives such a row
          Cases      \* conflicts: a layout, its settings and three stages

FieldMaps == [Fields -> Values \cup {NoValue}]
AllKeys   == Keys \cup {NilKey}
Versions  == FieldMaps \cup {NoRecord}
RawRow    == [key : Keys \cup {NoKey}, fields : FieldMaps]
Record    == [key : AllKeys, fields : FieldMaps]
Sides     == {"base", "ours", "theirs"}
Stage     == [ok : BOOLEAN, rows : Seq(RawRow)]
Scopes    == {"unset", "true", "false"}
Layouts   == {"noRecordFile", "map", "single", "csv", "csvWithoutKey",
              "sequence", "sequencePK", "unsupported"}
Conflicts == [layout   : Layouts,
              settings : [db : Scopes, col : Scopes],
              files    : [Sides -> Stage]]

\* a single-record file holds one record; every row of a CSV file has the
\* columns of the header, which all sides share
Consistent(c) ==
  /\ c.layout = "single" => \A s \in Sides : Len(c.files[s].rows) <= 1
  /\ c.layout = "csv" =>
       \/ \A s \in Sides : \A i \in DOMAIN c.files[s].rows : c.files[s].rows[i].key # NoKey
       \/ \A s \in Sides : \A i \in DOMAIN c.files[s].rows : c.files[s].rows[i].key = NoKey

ASSUME KeysAssumption   == AllKeys \subseteq Int /\ NoKey \notin Keys
ASSUME AbsentAssumption == NoRecord \notin FieldMaps /\ NoValue \notin Values
ASSUME CaseAssumption   == Cases \subseteq Conflicts /\ \A c \in Cases : Consistent(c)

VARIABLES layout,    \* col.RecordFile: its record type, format, key columns
          settings,  \* explicit same_record of the database and collection
          files,     \* the raw content of each stage
          records,   \* the records parsed from each stage
          pending,   \* keys of the union that the loop has not visited
          merged,    \* the map of merged records, by key
          cursor,    \* position of orderedRecords in the rows it walks
          result,    \* Outcome.Merged under construction
          outcome    \* "parsing", "comparing", then "escalated" or "merged"

vars == <<layout, settings, files, records, pending, merged, cursor, result,
          outcome>>

-----------------------------------------------------------------------------
(* Configuration. *)

\* bug: the database setting wins over the collection's
SameRecordOfDatabase ==
  CASE settings.db # "unset" -> settings.db = "true"
    [] settings.db = "unset" /\ settings.col # "unset" -> settings.col = "true"
    [] OTHER -> FALSE

\* app default, overlaid by the database settings, then by the collection's
SameRecord ==
  CASE settings.col # "unset" -> settings.col = "true"
    [] settings.col = "unset" /\ settings.db # "unset" -> settings.db = "true"
    [] OTHER -> FALSE

-----------------------------------------------------------------------------
(* Parsing a stage. *)

\* bug: the key of a row is taken as it stands
RawRowKey(row) == row.key

\* the primary key is formatted whether or not the row has it; without one
\* the row must carry an identity column
RowKey(row) == IF row.key = NoKey THEN NilKey ELSE row.key
Keyed(rows) == \A i \in DOMAIN rows : rows[i].key # NoKey
DistinctKeys(rows) ==
  \A i, j \in DOMAIN rows : rows[i].key = rows[j].key => i = j

\* a map rejects rows without a key and duplicate keys
Parses(f) ==
  /\ f.ok
  /\ layout = "map" => Keyed(f.rows) /\ DistinctKeys(f.rows)
  /\ layout = "sequence" => Keyed(f.rows)

RowRecord(row) == [key    |-> IF layout = "single" THEN NilKey ELSE RowKey(row),
                   fields |-> row.fields]
InFileOrder(rows) == [i \in DOMAIN rows |-> RowRecord(rows[i])]

RecordSet(rows)   == {RowRecord(rows[i]) : i \in DOMAIN rows}

\* a map has no order of its own: parseMap sorts by key
SortedByKey(rows) ==
  {s \in [DOMAIN rows -> RecordSet(rows)] :
     /\ RecordSet(rows) \subseteq {s[i] : i \in DOMAIN rows}
     /\ \A i, j \in DOMAIN rows : i < j => s[i].key < s[j].key}

ParsedRecords(rows) ==
  IF layout = "map" THEN SortedByKey(rows) ELSE {InFileOrder(rows)}

\* mergeable layouts; csvKeyColumns wants a primary key, $id or id column
Mergeable == layout \notin {"noRecordFile", "unsupported", "csvWithoutKey"}

-----------------------------------------------------------------------------
(* Deciding one key. *)

KeysOf(rows) == {rows[i].key : i \in DOMAIN rows}

\* later rows with the same key overwrite earlier ones
Index(rows) ==
  [k \in AllKeys |->
     IF k \in KeysOf(rows)
     THEN rows[CHOOSE i \in DOMAIN rows :
                 /\ rows[i].key = k
                 /\ \A j \in DOMAIN rows : rows[j].key = k => j <= i].fields
     ELSE NoRecord]

\* bug: two equal edits of a field count as a conflict
ContestedEvenIfEqual(b, o, t, f) == o[f] # b[f] /\ t[f] # b[f]

Contested(b, o, t, f) == o[f] # b[f] /\ t[f] # b[f] /\ o[f] # t[f]
MergeFields(b, o, t) ==
  [f \in Fields |-> IF o[f] # b[f] THEN o[f]
                    ELSE IF t[f] # b[f] THEN t[f] ELSE b[f]]

Collision(b, o, t) ==
  b = NoRecord /\ o # NoRecord /\ t # NoRecord /\ o # t
\* bug: only ours is looked at for a deletion
DeleteOursModifyTheirs(b, o, t) ==
  b # NoRecord /\ o = NoRecord /\ t # NoRecord /\ t # b

DeleteModify(b, o, t) ==
  b # NoRecord /\ \/ o = NoRecord /\ t # NoRecord /\ t # b
                  \/ t = NoRecord /\ o # NoRecord /\ o # b
BothEdited(b, o, t) ==
  /\ NoRecord \notin {b, o, t}
  /\ o # b /\ t # b /\ o # t

Unsafe(b, o, t, sameRecord) ==
  \/ Collision(b, o, t)
  \/ DeleteModify(b, o, t)
  \/ /\ BothEdited(b, o, t)
     /\ sameRecord => \E f \in Fields : Contested(b, o, t, f)

\* what the loop stores under the key when nothing escalates
MergedVersion(b, o, t) ==
  CASE b = NoRecord -> IF o # NoRecord THEN o ELSE t
    [] b # NoRecord /\ NoRecord \in {o, t} -> NoRecord
    [] BothEdited(b, o, t) -> MergeFields(b, o, t)
    [] OTHER -> IF o # b THEN o ELSE IF t # b THEN t ELSE b

Version(s, k) == Index(records[s])[k]

-----------------------------------------------------------------------------
Init ==
  /\ \E c \in Cases : layout = c.layout /\ settings = c.settings /\ files = c.files
  /\ records = [s \in Sides |-> <<>>]
  /\ pending = {}
  /\ merged = [k \in AllKeys |-> NoRecord]
  /\ cursor = 1
  /\ result = <<>>
  /\ outcome = "parsing"

Inputs == <<layout, settings, files>>

Escalate ==
  /\ outcome' = "escalated"
  /\ result' = <<>>
  /\ UNCHANGED <<Inputs, records, pending, merged, cursor>>

\* an unusable definition or a stage that does not parse ends the merge
RejectFiles ==
  /\ outcome = "parsing"
  /\ ~Mergeable \/ \E s \in Sides : ~Parses(files[s])
  /\ Escalate

ParseFiles ==
  /\ outcome = "parsing"
  /\ Mergeable
  /\ \A s \in Sides : Parses(files[s])
  /\ \E b \in ParsedRecords(files["base"].rows),
        o \in ParsedRecords(files["ours"].rows),
        t \in ParsedRecords(files["theirs"].rows) :
       /\ records' = [s \in Sides |-> CASE s = "base" -> b
                                        [] s = "ours" -> o
                                        [] s = "theirs" -> t]
       /\ pending' = KeysOf(b) \cup KeysOf(o) \cup KeysOf(t)
  /\ outcome' = "comparing"
  /\ UNCHANGED <<Inputs, merged, cursor, result>>

EscalateKey ==
  /\ outcome = "comparing"
  /\ \E k \in pending :
       Unsafe(Version("base", k), Version("ours", k), Version("theirs", k),
              SameRecord)
  /\ Escalate

MergeKey(k) ==
  LET b == Version("base", k)
      o == Version("ours", k)
      t == Version("theirs", k)
  IN /\ outcome = "comparing"
     /\ k \in pending
     /\ ~Unsafe(b, o, t, SameRecord)
     /\ merged' = [merged EXCEPT ![k] = MergedVersion(b, o, t)]
     /\ pending' = pending \ {k}
     /\ UNCHANGED <<Inputs, records, cursor, result, outcome>>

\* the rows orderedRecords walks
Walk == records["base"] \o records["ours"] \o records["theirs"]

\* bug: orderedRecords does not remember what it has emitted
EmitRowAgain ==
  LET k == Walk[cursor].key
  IN /\ outcome = "comparing"
     /\ pending = {}
     /\ cursor <= Len(Walk)
     /\ result' = IF merged[k] = NoRecord THEN result
                  ELSE Append(result, [key |-> k, fields |-> merged[k]])
     /\ cursor' = cursor + 1
     /\ UNCHANGED <<Inputs, records, pending, merged, outcome>>

EmitRow ==
  LET k == Walk[cursor].key
  IN /\ outcome = "comparing"
     /\ pending = {}
     /\ cursor <= Len(Walk)
     /\ result' = IF k \in KeysOf(result) \/ merged[k] = NoRecord
                  THEN result
                  ELSE Append(result, [key |-> k, fields |-> merged[k]])
     /\ cursor' = cursor + 1
     /\ UNCHANGED <<Inputs, records, pending, merged, outcome>>

\* a single-record file must come out of the merge with one record
Finishing == outcome = "comparing" /\ pending = {} /\ cursor > Len(Walk)

RejectSingle ==
  /\ Finishing
  /\ layout = "single" /\ Len(result) # 1
  /\ Escalate

Return ==
  /\ Finishing
  /\ layout = "single" => Len(result) = 1
  /\ outcome' = "merged"
  /\ UNCHANGED <<Inputs, records, pending, merged, cursor, result>>

Next ==
  \/ RejectFiles
  \/ ParseFiles
  \/ EscalateKey
  \/ \E k \in AllKeys : MergeKey(k)
  \/ EmitRow
  \/ RejectSingle
  \/ Return

Spec == Init /\ [][Next]_vars

-----------------------------------------------------------------------------
(* Properties. *)

\* The variables range over the values the Go types allow.
TypeOK ==
  /\ layout \in Layouts
  /\ settings \in [db : Scopes, col : Scopes]
  /\ files \in [Sides -> Stage]
  /\ records \in [Sides -> Seq(Record)]
  /\ pending \subseteq AllKeys
  /\ merged \in [AllKeys -> Versions]
  /\ cursor \in Nat \ {0}
  /\ result \in Seq(Record)
  /\ outcome \in {"parsing", "comparing", "escalated", "merged"}

\* However the loop of Merge visits the keys, the merge ends in the one
\* outcome the three-way rule allows: escalated exactly when the files cannot
\* be merged, and otherwise holding precisely the union, key by key.
Abstract == INSTANCE ThreeWayMerge WITH
  Keys    <- AllKeys,
  base    <- Index(InFileOrder(files["base"].rows)),
  ours    <- Index(InFileOrder(files["ours"].rows)),
  theirs  <- Index(InFileOrder(files["theirs"].rows)),
  splice  <- SameRecord,
  single  <- (layout = "single"),
  usable  <- (Mergeable /\ \A s \in Sides : Parses(files[s])),
  verdict <- (IF outcome \in {"escalated", "merged"} THEN outcome ELSE "open"),
  union   <- (IF outcome = "merged" THEN Index(result)
              ELSE [k \in AllKeys |-> NoRecord])
ImplementsThreeWayMerge == Abstract!Spec

\* Outcome.Merged never repeats a key, is complete once returned, and is
\* ordered as Merge documents: base records in base order, then the records
\* added by ours and those added by theirs, each in the order of their side.
Side == <<"base", "ours", "theirs">>
Rank(k) == CASE k \in KeysOf(records["base"]) -> 1
             [] k \in KeysOf(records["ours"]) \ KeysOf(records["base"]) -> 2
             [] OTHER -> 3
Precedes(rows, k, l) ==
  \E m \in DOMAIN rows : rows[m].key = k /\ \A n \in 1..m : rows[n].key # l
InOrder(k, l) ==
  \/ Rank(k) < Rank(l)
  \/ Rank(k) = Rank(l) /\ Precedes(records[Side[Rank(k)]], k, l)
ResultInDocumentedOrder ==
  /\ DistinctKeys(result)
  /\ \A i, j \in DOMAIN result : i < j => InOrder(result[i].key, result[j].key)
  /\ outcome = "merged" =>
       KeysOf(result) = {k \in AllKeys : merged[k] # NoRecord}

\* Swapping ours and theirs (a rebase sees the sides the other way round)
\* changes neither whether the conflict is merged nor what any record becomes.
SidesAreInterchangeable ==
  \A k \in AllKeys :
    LET b == Version("base", k)
        o == Version("ours", k)
        t == Version("theirs", k)
    IN /\ Unsafe(b, o, t, SameRecord) <=> Unsafe(b, t, o, SameRecord)
       /\ (outcome = "merged" => merged[k] = MergedVersion(b, t, o))

\* A collection that says same_record: false gets no record that neither side
\* wrote, whatever the database setting says.
NoSpliceWhenOptedOut ==
  (outcome = "merged" /\ settings.col = "false") =>
    \A i \in DOMAIN result :
      \E s \in Sides : result[i].fields = Version(s, result[i].key)

\* A row that all three stages hold is still there after the merge: the union
\* of Merge's contract loses nothing that nobody touched.
HeldByAll(row) ==
  \A s \in Sides : \E i \in DOMAIN files[s].rows : files[s].rows[i] = row
UntouchedRowsSurvive ==
  outcome = "merged" =>
    \A i \in DOMAIN files["base"].rows :
      HeldByAll(files["base"].rows[i]) =>
        \E j \in DOMAIN result : result[j] = RowRecord(files["base"].rows[i])
=============================================================================
