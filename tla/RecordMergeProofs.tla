------------------------- MODULE RecordMergeProofs -------------------------
(* Machine-checked proofs about RecordMerge, for every set of keys, fields, *)
(* values and files, and files of any length.                              *)
EXTENDS RecordMerge, WellFoundedInduction, TLAPS

\* A key that occurs in a sequence of rows occurs in a last one.
LEMMA LastRow ==
  ASSUME NEW rows \in Seq(Record), NEW k \in KeysOf(rows)
  PROVE  \E i \in DOMAIN rows :
           /\ rows[i].key = k
           /\ \A j \in DOMAIN rows : rows[j].key = k => j <= i
<1> DEFINE Back == {n \in Nat : \E i \in DOMAIN rows : rows[i].key = k /\ n = Len(rows) - i}
<1>1. DOMAIN rows = 1..Len(rows) /\ Len(rows) \in Nat
  OBVIOUS
<1>2. PICK i0 \in DOMAIN rows : rows[i0].key = k
  BY DEF KeysOf
<1>3. Len(rows) - i0 \in Nat
  BY <1>1, <1>2
<1>4. Back \subseteq Nat /\ Back # {}
  BY <1>2, <1>3
<1>a. PICK n \in Back : \A m \in Back : <<m, n>> \notin OpToRel(<, Nat)
  BY <1>4, WFMin, NatLessThanWellFounded, Zenon
<1>b. \A m \in Back : ~(m < n)
  BY <1>4, <1>a, Zenon DEF OpToRel
<1>5. \A m \in Back : n <= m
  BY <1>4, <1>b
<1>6. PICK i \in DOMAIN rows : rows[i].key = k /\ n = Len(rows) - i
  BY <1>5
<1>7. ASSUME NEW j \in DOMAIN rows, rows[j].key = k
      PROVE  j <= i
  <2>1. Len(rows) - j \in Back
    BY <1>1, <1>7
  <2>2. n <= Len(rows) - j
    BY <1>5, <2>1
  <2> QED
    BY <1>1, <1>6, <2>2, i \in Int, j \in Int
<1> QED
  BY <1>6, <1>7

\* An index holds, for each key, the fields of a row with that key, and
\* NoRecord for the keys no row has.
LEMMA IndexFacts ==
  ASSUME NEW rows \in Seq(Record)
  PROVE  /\ Index(rows) \in [AllKeys -> Versions]
         /\ \A k \in KeysOf(rows) :
              \E i \in DOMAIN rows : /\ rows[i].key = k
                                     /\ Index(rows)[k] = rows[i].fields
         /\ \A k \in AllKeys : k \notin KeysOf(rows) => Index(rows)[k] = NoRecord
<1>0. \A i \in DOMAIN rows : rows[i] \in Record
  OBVIOUS
<1>1. KeysOf(rows) \subseteq AllKeys
  BY <1>0 DEF KeysOf, Record
<1>2. ASSUME NEW k \in KeysOf(rows)
      PROVE  \E i \in DOMAIN rows : /\ rows[i].key = k
                                    /\ Index(rows)[k] = rows[i].fields
  BY <1>1, LastRow DEF Index
<1>3. \A k \in AllKeys : k \notin KeysOf(rows) => Index(rows)[k] = NoRecord
  BY DEF Index
<1>4. \A i \in DOMAIN rows : rows[i].fields \in Versions
  BY <1>0 DEF Record, Versions
<1>5. \A k \in AllKeys : Index(rows)[k] \in Versions
  BY <1>2, <1>3, <1>4 DEF Versions
<1> QED
  BY <1>2, <1>3, <1>5 DEF Index

\* The keys of records are record keys.
LEMMA KeysInRange ==
  ASSUME NEW rows \in Seq(Record)
  PROVE  KeysOf(rows) \subseteq AllKeys
<1>1. \A i \in DOMAIN rows : rows[i] \in Record
  OBVIOUS
<1> QED
  BY <1>1 DEF KeysOf, Record

\* Merging three versions of a record yields a version.
LEMMA MergedVersionType ==
  ASSUME NEW b \in Versions, NEW o \in Versions, NEW t \in Versions
  PROVE  MergedVersion(b, o, t) \in Versions
<1>1. CASE BothEdited(b, o, t)
  <2>1. b \in FieldMaps /\ o \in FieldMaps /\ t \in FieldMaps
    BY <1>1 DEF BothEdited, Versions
  <2>2. MergeFields(b, o, t) \in FieldMaps
    BY <2>1 DEF MergeFields, FieldMaps
  <2> QED
    BY <1>1, <2>2 DEF MergedVersion, Versions, BothEdited
<1>2. CASE ~BothEdited(b, o, t)
  BY <1>2 DEF MergedVersion, Versions
<1> QED
  BY <1>1, <1>2

\* Parsing a stage yields records.
LEMMA ParsedType ==
  ASSUME NEW f \in Stage, NEW s \in ParsedRecords(f.rows)
  PROVE  s \in Seq(Record)
<1>1. f.rows \in Seq(RawRow)
  BY DEF Stage
<1>2. \A row \in RawRow : RowRecord(row) \in Record
  BY DEF RowRecord, RowKey, RawRow, Record, AllKeys
<1>3. RecordSet(f.rows) \subseteq Record
  BY <1>1, <1>2 DEF RecordSet
<1>4. s \in [1..Len(f.rows) -> Record]
  BY <1>1, <1>2, <1>3 DEF ParsedRecords, SortedByKey, InFileOrder
<1> QED
  BY <1>1, <1>4

-----------------------------------------------------------------------------
\* Every step keeps the variables in their types.
LEMMA TypeStep ==
  ASSUME TypeOK, [Next]_vars
  PROVE  TypeOK'
<1> USE DEF TypeOK
<1>1. CASE RejectFiles
  BY <1>1 DEF RejectFiles, Escalate, Inputs
<1>2. CASE ParseFiles
  <2>1. PICK b \in ParsedRecords(files["base"].rows),
             o \in ParsedRecords(files["ours"].rows),
             t \in ParsedRecords(files["theirs"].rows) :
               /\ records' = [s \in Sides |-> CASE s = "base" -> b
                                                [] s = "ours" -> o
                                                [] s = "theirs" -> t]
               /\ pending' = KeysOf(b) \cup KeysOf(o) \cup KeysOf(t)
    BY <1>2 DEF ParseFiles
  <2>2. \A s \in Sides : files[s] \in Stage
    OBVIOUS
  <2>3. b \in Seq(Record) /\ o \in Seq(Record) /\ t \in Seq(Record)
    BY <2>2, ParsedType DEF Sides
  <2>4. pending' \subseteq AllKeys
    BY <2>1, <2>3, KeysInRange
  <2>5. records' \in [Sides -> Seq(Record)]
    BY <2>1, <2>3 DEF Sides
  <2> QED
    BY <1>2, <2>4, <2>5 DEF ParseFiles, Inputs
<1>3. CASE EscalateKey
  BY <1>3 DEF EscalateKey, Escalate, Inputs
<1>4. ASSUME NEW k \in AllKeys, MergeKey(k)
      PROVE  TypeOK'
  <2>1. \A s \in Sides : Version(s, k) \in Versions
    BY IndexFacts DEF Version
  <2>2. merged'[k] \in Versions
    BY <1>4, <2>1, MergedVersionType DEF MergeKey, Sides
  <2> QED
    BY <1>4, <2>2 DEF MergeKey, Inputs
<1>5. CASE EmitRow
  <2>1. Walk \in Seq(Record)
    BY DEF Walk, Sides
  <2>2. Walk[cursor] \in Record
    BY <1>5, <2>1 DEF EmitRow
  <2> DEFINE k == Walk[cursor].key
             row == [key |-> k, fields |-> merged[k]]
  <2>a. k \in AllKeys /\ merged[k] \in Versions
    BY <2>2 DEF Record
  <2>b. merged[k] # NoRecord => row \in Record
    BY <2>a DEF Record, Versions
  <2>3. result' \in Seq(Record)
    BY <1>5, <2>b DEF EmitRow
  <2> QED
    BY <1>5, <2>3 DEF EmitRow, Inputs
<1>6. CASE RejectSingle
  BY <1>6 DEF RejectSingle, Escalate, Inputs
<1>7. CASE Return
  BY <1>7 DEF Return, Inputs
<1>8. CASE UNCHANGED vars
  BY <1>8 DEF vars
<1> QED
  BY <1>1, <1>2, <1>3, <1>4, <1>5, <1>6, <1>7, <1>8 DEF Next

\* The merge only ever holds well-typed records, whatever the files contain.
THEOREM TypeCorrect == Spec => []TypeOK
<1>1. Init => TypeOK
  BY CaseAssumption DEF Init, TypeOK, Versions, Conflicts
<1> QED
  BY <1>1, TypeStep, PTL DEF Spec

-----------------------------------------------------------------------------
(* The inductive invariant behind the safety properties. *)

\* Every key the loop has visited was safe and holds its merged version.
VisitedInv ==
  \A k \in AllKeys \ pending :
    /\ ~Unsafe(Version("base", k), Version("ours", k), Version("theirs", k),
               SameRecord)
    /\ merged[k] = MergedVersion(Version("base", k), Version("ours", k),
                                 Version("theirs", k))

\* Before the files are parsed nothing has happened.
ParsingInv ==
  outcome = "parsing" =>
    /\ pending = {} /\ cursor = 1 /\ result = <<>>
    /\ records = [s \in Sides |-> <<>>]
    /\ merged = [k \in AllKeys |-> NoRecord]

\* The emitted rows are merged records under distinct keys, and every survivor
\* of the part of the walk behind the cursor has been emitted.
EmittedInv ==
  /\ result # <<>> => pending = {}
  /\ cursor # 1 => pending = {}
  /\ cursor <= Len(Walk) + 1
  /\ DistinctKeys(result)
  /\ \A i \in DOMAIN result : merged[result[i].key] = result[i].fields
  /\ outcome # "escalated" =>
       \A j \in 1..(cursor - 1) :
         merged[Walk[j].key] = NoRecord \/ Walk[j].key \in KeysOf(result)
  /\ outcome = "merged" => pending = {} /\ cursor = Len(Walk) + 1

IInv == TypeOK /\ VisitedInv /\ ParsingInv /\ EmittedInv

\* A key no side has is safe and stays absent.
LEMMA AbsentEverywhere ==
  ASSUME NEW sameRecord
  PROVE  /\ ~Unsafe(NoRecord, NoRecord, NoRecord, sameRecord)
         /\ MergedVersion(NoRecord, NoRecord, NoRecord) = NoRecord
BY DEF Unsafe, Collision, DeleteModify, BothEdited, MergedVersion

\* Parsing replaces the records and puts every key they have on the to-do list.
LEMMA ParsedKeys ==
  ASSUME TypeOK, ParseFiles, NEW k \in AllKeys
  PROVE  /\ records' \in [Sides -> Seq(Record)]
         /\ k \notin pending' => \A s \in Sides : Version(s, k)' = NoRecord
<1>1. PICK b \in ParsedRecords(files["base"].rows),
           o \in ParsedRecords(files["ours"].rows),
           t \in ParsedRecords(files["theirs"].rows) :
             /\ records' = [s \in Sides |-> CASE s = "base" -> b
                                              [] s = "ours" -> o
                                              [] s = "theirs" -> t]
             /\ pending' = KeysOf(b) \cup KeysOf(o) \cup KeysOf(t)
  BY DEF ParseFiles
<1>2. b \in Seq(Record) /\ o \in Seq(Record) /\ t \in Seq(Record)
  BY ParsedType DEF Sides, TypeOK
<1>3. records'["base"] = b /\ records'["ours"] = o /\ records'["theirs"] = t
  BY <1>1 DEF Sides
<1> QED
  BY <1>1, <1>2, <1>3, IndexFacts DEF Sides, Version

LEMMA VisitedStep ==
  ASSUME TypeOK, VisitedInv, ParsingInv, [Next]_vars
  PROVE  VisitedInv'
<1>1. CASE UNCHANGED <<settings, records, pending, merged>>
  BY <1>1 DEF VisitedInv, Version, SameRecord
<1>2. CASE ParseFiles
  <2>1. merged' = [k \in AllKeys |-> NoRecord]
    BY <1>2 DEF ParsingInv, ParseFiles
  <2>2. \A k \in AllKeys \ pending' : \A s \in Sides : Version(s, k)' = NoRecord
    BY <1>2, ParsedKeys
  <2> QED
    BY <2>1, <2>2, AbsentEverywhere DEF VisitedInv, Sides
<1>3. ASSUME NEW k \in AllKeys, MergeKey(k)
      PROVE  VisitedInv'
  <2>1. \A s \in Sides, j \in AllKeys : Version(s, j)' = Version(s, j)
    BY <1>3 DEF MergeKey, Version
  <2>2. SameRecord' = SameRecord
    BY <1>3 DEF MergeKey, SameRecord, Inputs
  <2>3. \A j \in AllKeys \ pending' : j = k \/ j \in AllKeys \ pending
    BY <1>3 DEF MergeKey
  <2>4. \A j \in AllKeys : j # k => merged'[j] = merged[j]
    BY <1>3 DEF MergeKey, TypeOK
  <2>5. merged'[k] = MergedVersion(Version("base", k), Version("ours", k),
                                   Version("theirs", k))
    BY <1>3 DEF MergeKey, TypeOK
  <2>6. ~Unsafe(Version("base", k), Version("ours", k), Version("theirs", k),
                SameRecord)
    BY <1>3 DEF MergeKey
  <2> QED
    BY <2>1, <2>2, <2>3, <2>4, <2>5, <2>6 DEF VisitedInv, Sides
<1> QED
  BY <1>1, <1>2, <1>3
     DEF Next, vars, RejectFiles, EscalateKey, Escalate, EmitRow, RejectSingle,
         Return, Inputs

LEMMA ParsingStep ==
  ASSUME ParsingInv, [Next]_vars
  PROVE  ParsingInv'
BY DEF ParsingInv, Next, vars, RejectFiles, ParseFiles, EscalateKey, Escalate,
       MergeKey, EmitRow, RejectSingle, Return, Inputs

\* The concatenation of the three sides is a sequence of records.
LEMMA ConcatType ==
  ASSUME NEW b \in Seq(Record), NEW o \in Seq(Record), NEW t \in Seq(Record)
  PROVE  b \o o \o t \in Seq(Record) /\ Len(b \o o \o t) \in Nat
OBVIOUS

\* and it has the keys of all three.
LEMMA KeysOfConcat ==
  ASSUME NEW b \in Seq(Record), NEW o \in Seq(Record), NEW t \in Seq(Record)
  PROVE  KeysOf(b \o o \o t) = KeysOf(b) \cup KeysOf(o) \cup KeysOf(t)
<1>1. ASSUME NEW r \in Seq(Record), NEW q \in Seq(Record)
      PROVE  KeysOf(r \o q) = KeysOf(r) \cup KeysOf(q)
  <2> DEFINE rq == r \o q
  <2>1. /\ Len(rq) = Len(r) + Len(q) /\ DOMAIN rq = 1..Len(rq)
        /\ \A i \in 1..Len(r) : rq[i] = r[i]
        /\ \A i \in 1..Len(q) : rq[Len(r) + i] = q[i]
        /\ \A i \in 1..Len(rq) : i \in 1..Len(r) \/ i - Len(r) \in 1..Len(q)
    OBVIOUS
  <2>2. ASSUME NEW i \in 1..Len(rq)
        PROVE  rq[i].key \in KeysOf(r) \cup KeysOf(q)
    <3>1. CASE i \in 1..Len(r)
      BY <2>1, <3>1 DEF KeysOf
    <3>2. CASE i - Len(r) \in 1..Len(q)
      <4>1. rq[Len(r) + (i - Len(r))] = q[i - Len(r)]
        BY <2>1, <3>2
      <4>2. Len(r) + (i - Len(r)) = i
        OBVIOUS
      <4> QED
        BY <3>2, <4>1, <4>2 DEF KeysOf
    <3> QED
      BY <2>1, <3>1, <3>2
  <2>3. ASSUME NEW i \in 1..Len(r)
        PROVE  r[i].key \in KeysOf(rq)
    <3>1. i \in 1..Len(rq) /\ rq[i] = r[i]
      BY <2>1
    <3> QED
      BY <2>1, <3>1 DEF KeysOf
  <2>4. ASSUME NEW i \in 1..Len(q)
        PROVE  q[i].key \in KeysOf(rq)
    <3>1. Len(r) + i \in 1..Len(rq)
      BY <2>1
    <3> QED
      BY <2>1, <3>1 DEF KeysOf
  <2>5. KeysOf(rq) \subseteq KeysOf(r) \cup KeysOf(q)
    BY <2>1, <2>2 DEF KeysOf
  <2>6. KeysOf(r) \subseteq KeysOf(rq)
    BY <2>3, DOMAIN r = 1..Len(r) DEF KeysOf
  <2>7. KeysOf(q) \subseteq KeysOf(rq)
    BY <2>4, DOMAIN q = 1..Len(q) DEF KeysOf
  <2> QED
    BY <2>5, <2>6, <2>7
<1>2. b \o o \in Seq(Record)
  OBVIOUS
<1> QED
  BY <1>1, <1>2

LEMMA EmittedStep ==
  ASSUME TypeOK, ParsingInv, EmittedInv, [Next]_vars
  PROVE  EmittedInv'
<1> USE DEF EmittedInv
<1>1. Walk \in Seq(Record) /\ Len(Walk) \in Nat
  BY DEF Walk, TypeOK, Sides
<1>2. CASE RejectFiles \/ EscalateKey \/ RejectSingle
  <2>1. /\ outcome' = "escalated" /\ result' = <<>>
        /\ UNCHANGED <<records, pending, cursor>>
    BY <1>2 DEF RejectFiles, EscalateKey, RejectSingle, Escalate
  <2>2. Walk' = Walk
    BY <2>1 DEF Walk
  <2> QED
    BY <2>1, <2>2 DEF DistinctKeys
<1>3. CASE ParseFiles
  <2>1. outcome' = "comparing" /\ cursor' = 1 /\ result' = <<>>
    BY <1>3 DEF ParsingInv, ParseFiles
  <2>2. /\ records'["base"] \in Seq(Record)
        /\ records'["ours"] \in Seq(Record)
        /\ records'["theirs"] \in Seq(Record)
    BY <1>3, TypeStep DEF TypeOK, Next, Sides
  <2>3. Walk' \in Seq(Record) /\ Len(Walk') \in Nat
    BY <2>2, ConcatType DEF Walk
  <2> QED
    BY <2>1, <2>3 DEF DistinctKeys
<1>4. ASSUME NEW k \in AllKeys, MergeKey(k)
      PROVE  EmittedInv'
  <2>1. result = <<>> /\ cursor = 1 /\ outcome = "comparing"
    BY <1>4 DEF MergeKey
  <2>2. result' = <<>> /\ cursor' = 1 /\ outcome' = "comparing" /\ Walk' = Walk
    BY <1>4, <2>1 DEF MergeKey, Walk
  <2> QED
    BY <1>1, <2>2 DEF DistinctKeys
<1>5. CASE EmitRow
  <2> DEFINE k == Walk[cursor].key
             row == [key |-> k, fields |-> merged[k]]
  <2>1. /\ pending' = {} /\ Walk' = Walk /\ outcome' = "comparing"
        /\ cursor' = cursor + 1 /\ merged' = merged
    BY <1>5 DEF EmitRow, Walk
  <2>a. cursor \in Nat /\ cursor # 0 /\ cursor <= Len(Walk)
    BY <1>5 DEF EmitRow, TypeOK
  <2>b. \A j \in 1..(cursor' - 1) : j = cursor \/ j \in 1..(cursor - 1)
    BY <2>1, <2>a
  <2>2. CASE k \in KeysOf(result) \/ merged[k] = NoRecord
    <3>1. result' = result
      BY <1>5, <2>2 DEF EmitRow
    <3>2. \A j \in 1..(cursor' - 1) :
            merged'[Walk'[j].key] = NoRecord \/ Walk'[j].key \in KeysOf(result')
      BY <1>5, <2>1, <2>2, <2>b, <3>1 DEF EmitRow
    <3> QED
      BY <1>1, <2>1, <2>a, <3>1, <3>2
  <2>3. CASE k \notin KeysOf(result) /\ merged[k] # NoRecord
    <3>1. result' = Append(result, row)
      BY <1>5, <2>3 DEF EmitRow
    <3>2. result \in Seq(Record) /\ DOMAIN result = 1..Len(result)
          /\ Len(result) \in Nat
      BY DEF TypeOK
    <3>3. /\ DOMAIN result' = 1..(Len(result) + 1)
          /\ result'[Len(result) + 1] = row
          /\ \A i \in DOMAIN result : result'[i] = result[i]
      BY <3>1, <3>2
    <3>4. DistinctKeys(result')
      BY <2>3, <3>2, <3>3 DEF DistinctKeys, KeysOf
    <3>5. KeysOf(result) \subseteq KeysOf(result') /\ k \in KeysOf(result')
      BY <3>2, <3>3 DEF KeysOf
    <3>6. \A i \in DOMAIN result' : merged'[result'[i].key] = result'[i].fields
      BY <2>1, <3>2, <3>3
    <3>7. \A j \in 1..(cursor' - 1) :
            merged'[Walk'[j].key] = NoRecord \/ Walk'[j].key \in KeysOf(result')
      BY <1>5, <2>1, <2>b, <3>5 DEF EmitRow
    <3> QED
      BY <1>1, <2>1, <2>a, <3>4, <3>6, <3>7
  <2> QED
    BY <2>2, <2>3
<1>6. CASE Return
  <2>1. Walk' = Walk /\ UNCHANGED <<records, pending, merged, cursor, result>>
    BY <1>6 DEF Return, Walk
  <2> QED
    BY <1>1, <1>6, <2>1 DEF Return, Finishing, TypeOK
<1>7. CASE UNCHANGED vars
  <2>1. Walk' = Walk
    BY <1>7 DEF vars, Walk
  <2> QED
    BY <1>7, <2>1 DEF vars
<1> QED
  BY <1>2, <1>3, <1>4, <1>5, <1>6, <1>7 DEF Next

LEMMA Invariant == Spec => []IInv
<1>1. Init => IInv
  <2> SUFFICES ASSUME Init PROVE IInv
    OBVIOUS
  <2>1. TypeOK
    BY CaseAssumption DEF Init, TypeOK, Versions, Conflicts
  <2>2. \A s \in Sides, k \in AllKeys : Version(s, k) = NoRecord
    BY DEF Init, Version, Index, KeysOf
  <2>3. VisitedInv
    BY <2>2, AbsentEverywhere DEF Init, VisitedInv, Sides
  <2>4. ParsingInv
    BY DEF Init, ParsingInv
  <2>5. Walk = <<>>
    BY DEF Init, Walk, Sides
  <2>6. EmittedInv
    BY <2>5 DEF Init, EmittedInv, DistinctKeys
  <2> QED
    BY <2>1, <2>3, <2>4, <2>6 DEF IInv
<1>2. IInv /\ [Next]_vars => IInv'
  BY TypeStep, VisitedStep, ParsingStep, EmittedStep DEF IInv
<1> QED
  BY <1>1, <1>2, PTL DEF Spec

-----------------------------------------------------------------------------
(* What the invariant gives. *)

\* The sides of a safe key can be swapped.
LEMMA Swap ==
  ASSUME NEW b \in Versions, NEW o \in Versions, NEW t \in Versions,
         NEW sameRecord \in BOOLEAN
  PROVE  /\ Unsafe(b, o, t, sameRecord) <=> Unsafe(b, t, o, sameRecord)
         /\ ~Unsafe(b, o, t, sameRecord) =>
              MergedVersion(b, o, t) = MergedVersion(b, t, o)
<1>1. Unsafe(b, o, t, sameRecord) <=> Unsafe(b, t, o, sameRecord)
  BY DEF Unsafe, Collision, DeleteModify, BothEdited, Contested
<1>2. ASSUME ~Unsafe(b, o, t, sameRecord), BothEdited(b, o, t)
      PROVE  MergedVersion(b, o, t) = MergedVersion(b, t, o)
  <2>1. \A f \in Fields : ~Contested(b, o, t, f)
    BY <1>2 DEF Unsafe
  <2>2. MergeFields(b, o, t) = MergeFields(b, t, o)
    BY <2>1 DEF MergeFields, Contested
  <2>3. MergedVersion(b, o, t) = MergeFields(b, o, t)
    BY <1>2 DEF MergedVersion, BothEdited
  <2>4. MergedVersion(b, t, o) = MergeFields(b, t, o)
    BY <1>2 DEF MergedVersion, BothEdited
  <2> QED
    BY <2>2, <2>3, <2>4
<1>3. ASSUME ~Unsafe(b, o, t, sameRecord), ~BothEdited(b, o, t)
      PROVE  MergedVersion(b, o, t) = MergedVersion(b, t, o)
  BY <1>3 DEF Unsafe, Collision, DeleteModify, BothEdited, MergedVersion
<1> QED
  BY <1>1, <1>2, <1>3

\* Each side sends every key to a version.
LEMMA VersionType ==
  ASSUME TypeOK, NEW s \in Sides, NEW k \in AllKeys
  PROVE  Version(s, k) \in Versions
BY IndexFacts DEF TypeOK, Version

LEMMA SameRecordType == SameRecord \in BOOLEAN
BY DEF SameRecord

\* Swapping ours and theirs changes neither whether a conflict is merged nor
\* what any record becomes, however the keys are visited.
THEOREM Interchangeable == Spec => []SidesAreInterchangeable
<1>1. IInv => SidesAreInterchangeable
  <2> SUFFICES ASSUME IInv, NEW k \in AllKeys
               PROVE  LET b == Version("base", k)
                          o == Version("ours", k)
                          t == Version("theirs", k)
                      IN /\ Unsafe(b, o, t, SameRecord) <=> Unsafe(b, t, o, SameRecord)
                         /\ (outcome = "merged" => merged[k] = MergedVersion(b, t, o))
    BY DEF SidesAreInterchangeable
  <2> DEFINE b == Version("base", k)
             o == Version("ours", k)
             t == Version("theirs", k)
  <2>1. b \in Versions /\ o \in Versions /\ t \in Versions
    BY VersionType DEF IInv, Sides
  <2>2. outcome = "merged" =>
          ~Unsafe(b, o, t, SameRecord) /\ merged[k] = MergedVersion(b, o, t)
    BY DEF IInv, EmittedInv, VisitedInv
  <2> HIDE DEF b, o, t
  <2>3. /\ Unsafe(b, o, t, SameRecord) <=> Unsafe(b, t, o, SameRecord)
        /\ ~Unsafe(b, o, t, SameRecord) =>
             MergedVersion(b, o, t) = MergedVersion(b, t, o)
    BY <2>1, Swap, SameRecordType
  <2> QED
    BY <2>2, <2>3 DEF b, o, t
<1> QED
  BY <1>1, Invariant, PTL

\* Once the walk is over the result holds exactly the surviving records, each
\* under its merged version.
LEMMA EmittedUnion ==
  ASSUME IInv, outcome # "escalated", pending = {}, cursor = Len(Walk) + 1
  PROVE  /\ Index(result) = merged
         /\ KeysOf(result) = {k \in AllKeys : merged[k] # NoRecord}
<1> USE DEF IInv
<1>1. \A j \in 1..(cursor - 1) :
        merged[Walk[j].key] = NoRecord \/ Walk[j].key \in KeysOf(result)
  BY DEF EmittedInv
<1>2. result \in Seq(Record) /\ \A i \in DOMAIN result : result[i] \in Record
  BY DEF TypeOK
<1>3. \A i \in DOMAIN result :
        /\ merged[result[i].key] = result[i].fields
        /\ merged[result[i].key] # NoRecord
        /\ result[i].key \in AllKeys
  BY <1>2, AbsentAssumption DEF EmittedInv, Record
<1>4. ASSUME NEW k \in AllKeys, merged[k] # NoRecord
      PROVE  k \in KeysOf(result)
  <2>1. \E s \in Sides : Version(s, k) # NoRecord
    BY <1>1, <1>4, AbsentEverywhere DEF VisitedInv, Sides
  <2>2. PICK s \in Sides : k \in KeysOf(records[s])
    BY <2>1, IndexFacts DEF Version, TypeOK
  <2>3. PICK j \in 1..Len(Walk) : Walk[j].key = k
    <3>1. /\ records["base"] \in Seq(Record)
          /\ records["ours"] \in Seq(Record)
          /\ records["theirs"] \in Seq(Record)
      BY DEF TypeOK, Sides
    <3>2. k \in KeysOf(records["base"] \o records["ours"] \o records["theirs"])
      BY <2>2, <3>1, KeysOfConcat DEF Sides
    <3>3. k \in KeysOf(Walk) /\ Walk \in Seq(Record)
      BY <3>1, <3>2, ConcatType DEF Walk
    <3>4. DOMAIN Walk = 1..Len(Walk)
      BY <3>3
    <3> QED
      BY <3>3, <3>4 DEF KeysOf
  <2>4. Len(Walk) \in Nat /\ j \in 1..(cursor - 1)
    <3>1. /\ records["base"] \in Seq(Record)
          /\ records["ours"] \in Seq(Record)
          /\ records["theirs"] \in Seq(Record)
      BY DEF TypeOK, Sides
    <3>2. Len(Walk) \in Nat
      BY <3>1, ConcatType DEF Walk
    <3> QED
      BY <2>3, <3>2
  <2> QED
    BY <1>1, <1>4, <2>3, <2>4
<1>5. KeysOf(result) = {k \in AllKeys : merged[k] # NoRecord}
  BY <1>3, <1>4 DEF KeysOf
<1>6. \A k \in AllKeys : Index(result)[k] = merged[k]
  BY <1>2, <1>3, <1>5, IndexFacts
<1>7. Index(result) = merged
  BY <1>2, <1>6, IndexFacts DEF TypeOK
<1> QED
  BY <1>5, <1>7

\* A collection that opted out of same-record merging never gets a record that
\* neither side wrote.
THEOREM OptOutHolds == Spec => []NoSpliceWhenOptedOut
<1>1. IInv => NoSpliceWhenOptedOut
  <2> SUFFICES ASSUME IInv, outcome = "merged", settings.col = "false",
                      NEW i \in DOMAIN result
               PROVE  \E s \in Sides : result[i].fields = Version(s, result[i].key)
    BY DEF NoSpliceWhenOptedOut
  <2> DEFINE k == result[i].key
             b == Version("base", k)
             o == Version("ours", k)
             t == Version("theirs", k)
  <2>1. result[i] \in Record
    BY DEF IInv, TypeOK
  <2>2. k \in AllKeys /\ merged[k] = result[i].fields /\ merged[k] # NoRecord
    BY <2>1, AbsentAssumption DEF IInv, EmittedInv, Record
  <2>3. ~Unsafe(b, o, t, SameRecord) /\ merged[k] = MergedVersion(b, o, t)
    BY <2>2 DEF IInv, EmittedInv, VisitedInv
  <2>4. SameRecord = FALSE
    BY DEF SameRecord
  <2>5. MergedVersion(b, o, t) \in {b, o, t} \/ MergedVersion(b, o, t) = NoRecord
    <3> HIDE DEF b, o, t
    <3> QED
      BY <2>3, <2>4 DEF Unsafe, MergedVersion
  <2> QED
    BY <2>2, <2>3, <2>5 DEF Sides
<1> QED
  BY <1>1, Invariant, PTL

-----------------------------------------------------------------------------
(* The order of the result. *)

\* Every emitted record has been walked over, and before any that follows it.
Walked(rows, end, k, l) ==
  \E m \in 1..(end - 1) : rows[m].key = k /\ \A n \in 1..m : rows[n].key # l
OrderInv ==
  /\ \A i \in DOMAIN result : \E m \in 1..(cursor - 1) : Walk[m].key = result[i].key
  /\ \A i, j \in DOMAIN result : i < j =>
       Walked(Walk, cursor, result[i].key, result[j].key)

LEMMA OrderStep ==
  ASSUME IInv, OrderInv, [Next]_vars
  PROVE  OrderInv'
<1>1. CASE result' = <<>>
  <2>1. DOMAIN result' = {}
    BY <1>1
  <2> QED BY <2>1 DEF OrderInv
<1>2. CASE UNCHANGED <<records, cursor, result>>
  <2>1. Walk' = Walk
    BY <1>2 DEF Walk
  <2> QED BY <1>2, <2>1 DEF OrderInv, Walked
<1>3. CASE EmitRow
  <2> DEFINE k == Walk[cursor].key
             row == [key |-> k, fields |-> merged[k]]
  <2>1. /\ Walk' = Walk /\ cursor' = cursor + 1 /\ cursor \in Nat \ {0}
        /\ outcome = "comparing" /\ pending = {}
        /\ result' = IF k \in KeysOf(result) \/ merged[k] = NoRecord
                     THEN result ELSE Append(result, row)
    BY <1>3 DEF EmitRow, Walk, IInv, TypeOK
  <2>2. \A m \in 1..(cursor - 1) : m \in 1..(cursor' - 1)
    BY <2>1
  <2>3. /\ \A i \in DOMAIN result : \E m \in 1..(cursor' - 1) : Walk'[m].key = result[i].key
        /\ \A i, j \in DOMAIN result : i < j =>
             Walked(Walk', cursor', result[i].key, result[j].key)
    BY <2>1, <2>2 DEF OrderInv, Walked
  <2>4. CASE k \in KeysOf(result) \/ merged[k] = NoRecord
    <3>1. result' = result
      BY <2>1, <2>4
    <3> QED BY <2>3, <3>1 DEF OrderInv
  <2>5. CASE k \notin KeysOf(result) /\ merged[k] # NoRecord
    <3>1. \A m \in 1..(cursor - 1) : Walk[m].key # k
      BY <2>1, <2>5 DEF IInv, EmittedInv
    <3>2. /\ Len(result) \in Nat /\ DOMAIN result = 1..Len(result)
          /\ DOMAIN result' = 1..(Len(result) + 1)
          /\ result'[Len(result) + 1] = row
          /\ \A i \in DOMAIN result : result'[i] = result[i]
      <4>1. result \in Seq(Record) /\ result' = Append(result, row)
        BY <2>1, <2>5 DEF IInv, TypeOK
      <4> HIDE DEF row
      <4> QED BY <4>1
    <3>3. row.key = k /\ Walk'[cursor].key = k /\ cursor \in 1..(cursor' - 1)
      BY <2>1
    <3>4. ASSUME NEW i \in DOMAIN result
          PROVE  Walked(Walk', cursor', result[i].key, k)
      <4>1. PICK m \in 1..(cursor - 1) : Walk[m].key = result[i].key
        BY DEF OrderInv
      <4>2. m \in 1..(cursor' - 1) /\ \A n \in 1..m : n \in 1..(cursor - 1)
        BY <2>1
      <4>3. \A n \in 1..m : Walk[n].key # k
        BY <3>1, <4>2
      <4> HIDE DEF k
      <4> QED BY <2>1, <4>1, <4>2, <4>3 DEF Walked
    <3> HIDE DEF k, row
    <3>5. \A i \in DOMAIN result' : i \in DOMAIN result \/ i = Len(result) + 1
      BY <3>2
    <3>6. \A i \in DOMAIN result' : \E m \in 1..(cursor' - 1) : Walk'[m].key = result'[i].key
      BY <2>3, <3>2, <3>3, <3>5
    <3>7. ASSUME NEW i \in DOMAIN result', NEW j \in DOMAIN result', i < j
          PROVE  Walked(Walk', cursor', result'[i].key, result'[j].key)
      <4>1. i \in DOMAIN result
        BY <3>2, <3>7
      <4>2. CASE j \in DOMAIN result
        BY <2>3, <3>2, <3>7, <4>1, <4>2
      <4>3. CASE j = Len(result) + 1
        BY <3>2, <3>3, <3>4, <4>1, <4>3
      <4> QED BY <3>5, <4>2, <4>3
    <3> QED BY <3>6, <3>7 DEF OrderInv
  <2> QED BY <2>4, <2>5
<1>4. result' = <<>> \/ UNCHANGED <<records, cursor, result>> \/ EmitRow
  BY DEF IInv, ParsingInv, Next, vars, RejectFiles, ParseFiles, EscalateKey, Escalate,
         MergeKey, RejectSingle, Return
<1> QED
  BY <1>1, <1>2, <1>3, <1>4

\* The rows of the three sides, one after the other.
LEMMA WalkIs ==
  ASSUME TypeOK
  PROVE  LET b == records["base"]
             o == records["ours"]
             t == records["theirs"]
         IN /\ Len(b) \in Nat /\ Len(o) \in Nat /\ Len(t) \in Nat
            /\ DOMAIN b = 1..Len(b) /\ DOMAIN o = 1..Len(o) /\ DOMAIN t = 1..Len(t)
            /\ Len(Walk) = Len(b) + Len(o) + Len(t)
            /\ \A m \in 1..Len(b) : Walk[m] = b[m]
            /\ \A m \in 1..Len(o) : Walk[Len(b) + m] = o[m]
            /\ \A m \in 1..Len(t) : Walk[Len(b) + Len(o) + m] = t[m]
<1> DEFINE b == records["base"]
           o == records["ours"]
           t == records["theirs"]
<1>1. b \in Seq(Record) /\ o \in Seq(Record) /\ t \in Seq(Record)
  BY DEF TypeOK, Sides
<1>2. Walk = b \o o \o t
  BY DEF Walk
<1> HIDE DEF b, o, t
<1> DEFINE bo == b \o o
<1>0. bo \in Seq(Record)
  BY <1>1
<1>3. /\ Len(bo) = Len(b) + Len(o)
      /\ \A m \in 1..Len(b) : bo[m] = b[m]
      /\ \A m \in 1..Len(o) : bo[Len(b) + m] = o[m]
  BY <1>1
<1>4. /\ Len(b) \in Nat /\ Len(o) \in Nat /\ Len(t) \in Nat
      /\ DOMAIN b = 1..Len(b) /\ DOMAIN o = 1..Len(o) /\ DOMAIN t = 1..Len(t)
  BY <1>1
<1> HIDE DEF bo
<1>5. /\ Len(bo \o t) = Len(bo) + Len(t)
      /\ \A m \in 1..Len(bo) : (bo \o t)[m] = bo[m]
      /\ \A m \in 1..Len(t) : (bo \o t)[Len(bo) + m] = t[m]
  BY <1>0, <1>1
<1>6. Walk = bo \o t
  BY <1>2 DEF bo
<1>7. /\ \A m \in 1..Len(b) : m \in 1..Len(bo)
      /\ \A m \in 1..Len(o) : Len(b) + m \in 1..Len(bo)
  BY <1>3, <1>4
<1> QED
  BY <1>3, <1>4, <1>5, <1>6, <1>7 DEF b, o, t

\* What is walked over first comes first in the documented order.
LEMMA WalkedInOrder ==
  ASSUME TypeOK, NEW k, NEW l, NEW m \in 1..Len(Walk), Walk[m].key = k,
         \A n \in 1..m : Walk[n].key # l
  PROVE  InOrder(k, l)
<1> DEFINE b == records["base"]
           o == records["ours"]
           t == records["theirs"]
           B == Len(b)
           O == Len(o)
           T == Len(t)
<1>1. /\ B \in Nat /\ O \in Nat /\ T \in Nat
      /\ DOMAIN b = 1..B /\ DOMAIN o = 1..O /\ DOMAIN t = 1..T
      /\ Len(Walk) = B + O + T
      /\ \A i \in 1..B : Walk[i] = b[i]
      /\ \A i \in 1..O : Walk[B + i] = o[i]
      /\ \A i \in 1..T : Walk[B + O + i] = t[i]
  BY WalkIs
<1>2. \A key : /\ Rank(key) = 1 <=> key \in KeysOf(b)
               /\ Rank(key) = 2 <=> key \in KeysOf(o) \ KeysOf(b)
               /\ Rank(key) = 3 <=> key \notin KeysOf(b) \cup KeysOf(o)
               /\ Rank(key) \in 1..3
  BY DEF Rank
<1>3. records[Side[1]] = b /\ records[Side[2]] = o /\ records[Side[3]] = t
  BY DEF Side
<1> HIDE DEF b, o, t, B, O, T
<1>4. CASE m \in 1..B
  <2>1. b[m].key = k /\ \A n \in 1..m : n \in 1..B /\ b[n].key # l
    BY <1>1, <1>4
  <2>2. Rank(k) = 1 /\ Precedes(b, k, l)
    BY <1>1, <1>2, <1>4, <2>1 DEF KeysOf, Precedes
  <2> QED BY <1>2, <1>3, <2>2 DEF InOrder
<1>5. CASE m - B \in 1..O
  <2> DEFINE d == m - B
  <2>1. d \in 1..O /\ B + d = m /\ \A n \in 1..d : n \in 1..O /\ B + n \in 1..m
    BY <1>1, <1>5
  <2>2. o[d].key = k /\ \A n \in 1..d : o[n].key # l
    BY <1>1, <2>1
  <2>3. \A n \in 1..B : n \in 1..m /\ b[n].key # l
    BY <1>1, <1>5
  <2>4. l \notin KeysOf(b)
    BY <1>1, <2>3 DEF KeysOf
  <2>5. k \in KeysOf(o) /\ Precedes(o, k, l)
    BY <1>1, <2>1, <2>2 DEF KeysOf, Precedes
  <2>6. Rank(k) = 1 \/ Rank(k) = 2
    BY <1>2, <2>5
  <2>7. Rank(l) = 2 \/ Rank(l) = 3
    BY <1>2, <2>4
  <2> QED BY <1>3, <2>5, <2>6, <2>7 DEF InOrder
<1>6. CASE m - B - O \in 1..T
  <2> DEFINE d == m - B - O
  <2>1. d \in 1..T /\ B + O + d = m /\ \A n \in 1..d : n \in 1..T /\ B + O + n \in 1..m
    BY <1>1, <1>6
  <2>2. t[d].key = k /\ \A n \in 1..d : t[n].key # l
    BY <1>1, <2>1
  <2>3. \A n \in 1..B : n \in 1..m /\ b[n].key # l
    BY <1>1, <1>6
  <2>4. \A n \in 1..O : B + n \in 1..m /\ o[n].key # l
    BY <1>1, <1>6
  <2>5. l \notin KeysOf(b) /\ l \notin KeysOf(o)
    BY <1>1, <2>3, <2>4 DEF KeysOf
  <2>6. Precedes(t, k, l)
    BY <1>1, <2>1, <2>2 DEF Precedes
  <2>7. Rank(l) = 3
    BY <1>2, <2>5
  <2>8. Rank(k) = 1 \/ Rank(k) = 2 \/ Rank(k) = 3
    BY <1>2
  <2> QED BY <1>3, <2>6, <2>7, <2>8 DEF InOrder
<1>7. m \in 1..B \/ m - B \in 1..O \/ m - B - O \in 1..T
  BY <1>1
<1> QED
  BY <1>4, <1>5, <1>6, <1>7

\* The merged file repeats no key, is complete, and is in the order that Merge
\* documents: base, then what ours added, then what theirs added, each in its
\* own order (orderedRecords).
THEOREM DocumentedOrder == Spec => []ResultInDocumentedOrder
<1>1. Init => OrderInv
  BY DEF Init, OrderInv
<1>2. IInv /\ OrderInv => ResultInDocumentedOrder
  <2> SUFFICES ASSUME IInv, OrderInv
               PROVE  ResultInDocumentedOrder
    OBVIOUS
  <2>1. Len(Walk) \in Nat /\ cursor \in Nat \ {0} /\ cursor <= Len(Walk) + 1
    <3>1. Walk \in Seq(Record) /\ Len(Walk) \in Nat
      BY ConcatType DEF IInv, TypeOK, Walk, Sides
    <3> QED BY <3>1 DEF IInv, TypeOK, EmittedInv
  <2>2. ASSUME NEW i \in DOMAIN result, NEW j \in DOMAIN result, i < j
        PROVE  InOrder(result[i].key, result[j].key)
    <3>1. PICK m \in 1..(cursor - 1) :
            Walk[m].key = result[i].key /\ \A n \in 1..m : Walk[n].key # result[j].key
      BY <2>2 DEF OrderInv, Walked
    <3>2. m \in 1..Len(Walk)
      BY <2>1
    <3> QED BY <3>1, <3>2, WalkedInOrder DEF IInv
  <2>3. outcome = "merged" => KeysOf(result) = {k \in AllKeys : merged[k] # NoRecord}
    BY EmittedUnion DEF IInv, EmittedInv
  <2> QED BY <2>2, <2>3 DEF ResultInDocumentedOrder, IInv, EmittedInv
<1> QED
  BY <1>1, <1>2, OrderStep, Invariant, PTL DEF Spec

-----------------------------------------------------------------------------
(* Refinement of the abstract three-way merge. *)

\* The records under comparison are those of readable, mergeable files.
FilesInv ==
  outcome \in {"comparing", "merged"} =>
    /\ Mergeable
    /\ \A s \in Sides : /\ Parses(files[s])
                         /\ records[s] \in ParsedRecords(files[s].rows)

LEMMA FilesStep ==
  ASSUME FilesInv, [Next]_vars
  PROVE  FilesInv'
<1>1. CASE ParseFiles
  <2>1. PICK b \in ParsedRecords(files["base"].rows),
             o \in ParsedRecords(files["ours"].rows),
             t \in ParsedRecords(files["theirs"].rows) :
               records' = [s \in Sides |-> CASE s = "base" -> b
                                              [] s = "ours" -> o
                                              [] s = "theirs" -> t]
    BY <1>1 DEF ParseFiles
  <2>2. records'["base"] = b /\ records'["ours"] = o /\ records'["theirs"] = t
    BY <2>1 DEF Sides
  <2>3. \A s \in Sides : records'[s] \in ParsedRecords(files[s].rows)
    BY <2>2 DEF Sides
  <2>4. layout' = layout /\ files' = files
    BY <1>1 DEF ParseFiles, Inputs
  <2>5. Mergeable' /\ \A s \in Sides : Parses(files[s])'
    BY <1>1, <2>4 DEF ParseFiles, Mergeable, Parses
  <2>6. \A s \in Sides : ParsedRecords(files[s].rows)' = ParsedRecords(files[s].rows)
    BY <2>4 DEF ParsedRecords, SortedByKey, RecordSet, InFileOrder, RowRecord
  <2> QED
    BY <2>3, <2>5, <2>6 DEF FilesInv
<1>2. ASSUME outcome' \in {"comparing", "merged"}, ~ParseFiles
      PROVE  UNCHANGED <<layout, files, records>> /\ outcome \in {"comparing", "merged"}
  BY <1>2 DEF Next, vars, RejectFiles, EscalateKey, Escalate, MergeKey, EmitRow,
              RejectSingle, Return, Finishing, Inputs
<1>3. CASE UNCHANGED <<layout, files, records>> /\ outcome \in {"comparing", "merged"}
  <2>1. Mergeable' = Mergeable /\ \A s \in Sides : Parses(files[s])' = Parses(files[s])
    BY <1>3 DEF Mergeable, Parses
  <2>2. \A s \in Sides : ParsedRecords(files[s].rows)' = ParsedRecords(files[s].rows)
    BY <1>3 DEF ParsedRecords, SortedByKey, RecordSet, InFileOrder, RowRecord
  <2> QED
    BY <1>3, <2>1, <2>2 DEF FilesInv
<1> QED
  BY <1>1, <1>2, <1>3 DEF FilesInv

\* Sorting a readable stage does not change what it says about any key.
LEMMA SameIndex ==
  ASSUME NEW f \in Stage, Parses(f), NEW r \in ParsedRecords(f.rows)
  PROVE  Index(r) = Index(InFileOrder(f.rows))
<1> DEFINE q == InFileOrder(f.rows)
<1>1. CASE layout # "map"
  BY <1>1 DEF ParsedRecords
<1>2. CASE layout = "map"
  <2>1. f.rows \in Seq(RawRow) /\ DOMAIN f.rows = 1..Len(f.rows)
    BY DEF Stage
  <2>2. r \in Seq(Record)
    BY ParsedType
  <2>3. \A row \in RawRow : RowRecord(row) \in Record
    BY DEF RowRecord, RowKey, RawRow, Record, AllKeys
  <2>4. q \in [1..Len(f.rows) -> Record]
    BY <2>1, <2>3 DEF InFileOrder
  <2>5. q \in Seq(Record) /\ DOMAIN q = DOMAIN f.rows
    BY <2>1, <2>4
  <2>6. \A i, j \in DOMAIN q : q[i].key = q[j].key => i = j
    BY <1>2, <2>5 DEF Parses, Keyed, DistinctKeys, InFileOrder, RowRecord, RowKey
  <2>7. /\ \A i \in DOMAIN r : \E j \in DOMAIN q : q[j] = r[i]
        /\ \A j \in DOMAIN q : \E i \in DOMAIN r : q[j] = r[i]
    BY <1>2, <2>1, <2>5 DEF ParsedRecords, SortedByKey, RecordSet, InFileOrder
  <2>8. ASSUME NEW k \in AllKeys
        PROVE  Index(r)[k] = Index(q)[k]
    <3>1. CASE k \in KeysOf(r)
      <4>1. PICK i \in DOMAIN r : r[i].key = k /\ Index(r)[k] = r[i].fields
        BY <2>2, <3>1, IndexFacts
      <4>2. PICK j \in DOMAIN q : q[j] = r[i]
        BY <2>7
      <4>3. k \in KeysOf(q)
        BY <4>1, <4>2 DEF KeysOf
      <4>4. PICK m \in DOMAIN q : q[m].key = k /\ Index(q)[k] = q[m].fields
        BY <2>5, <4>3, IndexFacts
      <4> HIDE DEF q
      <4> QED
        BY <2>6, <4>1, <4>2, <4>4
    <3>2. CASE k \notin KeysOf(r)
      <4> HIDE DEF q
      <4>1. k \notin KeysOf(q)
        BY <2>7, <3>2 DEF KeysOf
      <4> QED
        BY <2>2, <2>5, <3>2, <4>1, IndexFacts
    <3> QED
      BY <3>1, <3>2
  <2> HIDE DEF q
  <2>9. Index(r) = Index(q)
    BY <2>2, <2>5, <2>8, IndexFacts
  <2> QED
    BY <2>9 DEF q
<1> QED
  BY <1>1, <1>2

\* The nested switch of Merge is the uniform three-way rule.
LEMMA RuleAgrees ==
  ASSUME NEW b \in Versions, NEW o \in Versions, NEW t \in Versions
  PROVE  /\ Unsafe(b, o, t, SameRecord) <=> ~Abstract!Safe(b, o, t)
         /\ ~Unsafe(b, o, t, SameRecord) =>
              MergedVersion(b, o, t) = Abstract!Rule(b, o, t)
<1> USE DEF Abstract!Safe, Abstract!OneSided, Abstract!CanSplice, Abstract!Rule,
            Abstract!Pick
<1>1. CASE BothEdited(b, o, t)
  <2>1. Unsafe(b, o, t, SameRecord) <=>
          (SameRecord => \E f \in Fields : Contested(b, o, t, f))
    BY <1>1 DEF Unsafe, BothEdited, Collision, DeleteModify
  <2>2. Abstract!Safe(b, o, t) <=>
          SameRecord /\ \A f \in Fields : ~Contested(b, o, t, f)
    BY <1>1 DEF BothEdited, Contested
  <2>3. MergedVersion(b, o, t) = MergeFields(b, o, t)
    BY <1>1 DEF MergedVersion, BothEdited
  <2>4. MergeFields(b, o, t) = Abstract!Rule(b, o, t)
    BY <1>1 DEF MergeFields, BothEdited
  <2> QED
    BY <2>1, <2>2, <2>3, <2>4
<1>2. CASE ~BothEdited(b, o, t)
  BY <1>2 DEF Unsafe, BothEdited, Collision, DeleteModify, MergedVersion
<1> QED
  BY <1>1, <1>2

\* The abstract merge of key k reads the files directly; behind the parser it
\* is the merge of the parsed versions.
FileVersion(s, k) == Index(InFileOrder(files[s].rows))[k]

LEMMA FileVersions ==
  ASSUME TypeOK, FilesInv, outcome \in {"comparing", "merged"},
         NEW s \in Sides, NEW k \in AllKeys
  PROVE  FileVersion(s, k) = Version(s, k)
BY SameIndex DEF TypeOK, FilesInv, FileVersion, Version

LEMMA AbstractMergeable ==
  Abstract!Mergeable <=>
    /\ Mergeable /\ \A s \in Sides : Parses(files[s])
    /\ \A k \in AllKeys :
         Abstract!Safe(FileVersion("base", k), FileVersion("ours", k),
                       FileVersion("theirs", k))
    /\ layout = "single" =>
         \E k \in AllKeys :
           Abstract!Rule(FileVersion("base", k), FileVersion("ours", k),
                         FileVersion("theirs", k)) # NoRecord
BY DEF Abstract!Mergeable, Abstract!Union, FileVersion

\* When the loop has visited every key the abstract conflict is mergeable
\* unless a single-record file would hold no record, and the union is merged.
LEMMA AllVisited ==
  ASSUME IInv, FilesInv, outcome = "comparing", pending = {}
  PROVE  /\ \A k \in AllKeys :
              /\ Abstract!Safe(FileVersion("base", k), FileVersion("ours", k),
                               FileVersion("theirs", k))
              /\ merged[k] = Abstract!Rule(FileVersion("base", k),
                                FileVersion("ours", k), FileVersion("theirs", k))
         /\ Abstract!Union = merged
<1>1. ASSUME NEW k \in AllKeys
      PROVE  /\ Abstract!Safe(FileVersion("base", k), FileVersion("ours", k),
                               FileVersion("theirs", k))
             /\ merged[k] = Abstract!Rule(FileVersion("base", k),
                               FileVersion("ours", k), FileVersion("theirs", k))
  <2> DEFINE b == Version("base", k)
             o == Version("ours", k)
             t == Version("theirs", k)
  <2>1. b \in Versions /\ o \in Versions /\ t \in Versions
    BY VersionType DEF IInv, Sides
  <2>2. ~Unsafe(b, o, t, SameRecord) /\ merged[k] = MergedVersion(b, o, t)
    BY DEF IInv, VisitedInv
  <2>3. /\ FileVersion("base", k) = b
        /\ FileVersion("ours", k) = o
        /\ FileVersion("theirs", k) = t
    BY FileVersions DEF IInv, Sides
  <2> HIDE DEF b, o, t
  <2>4. Abstract!Safe(b, o, t) /\ MergedVersion(b, o, t) = Abstract!Rule(b, o, t)
    BY <2>1, <2>2, RuleAgrees
  <2> QED
    BY <2>2, <2>3, <2>4
<1>2. Abstract!Union = [k \in AllKeys |-> Abstract!Rule(FileVersion("base", k),
                          FileVersion("ours", k), FileVersion("theirs", k))]
  BY DEF Abstract!Union, FileVersion
<1>3. merged \in [AllKeys -> Versions]
  BY DEF IInv, TypeOK
<1> QED
  BY <1>1, <1>2, <1>3

\* In a single-record file every parsed row has the same key.
LEMMA SingleKey ==
  ASSUME TypeOK, FilesInv, outcome = "comparing", layout = "single",
         NEW s \in Sides
  PROVE  KeysOf(records[s]) \subseteq {NilKey}
<1>1. records[s] = InFileOrder(files[s].rows)
  BY DEF FilesInv, ParsedRecords
<1>2. files[s].rows \in Seq(RawRow)
  BY DEF TypeOK, Stage
<1> QED
  BY <1>1, <1>2 DEF InFileOrder, RowRecord, KeysOf

\* A single-record file that was walked to the end without yielding exactly
\* one record would hold none.
LEMMA SingleResult ==
  ASSUME IInv, FilesInv, Finishing, layout = "single"
  PROVE  Len(result) = 1 <=> \E k \in AllKeys : merged[k] # NoRecord
<1>1. outcome = "comparing" /\ pending = {} /\ cursor = Len(Walk) + 1
  <2>1. Walk \in Seq(Record) /\ Len(Walk) \in Nat
    BY ConcatType DEF IInv, TypeOK, Walk, Sides
  <2> QED
    BY <2>1 DEF Finishing, IInv, EmittedInv, TypeOK
<1>2. KeysOf(result) = {k \in AllKeys : merged[k] # NoRecord}
  BY <1>1, EmittedUnion
<1>3. result \in Seq(Record) /\ DOMAIN result = 1..Len(result) /\ Len(result) \in Nat
  BY DEF IInv, TypeOK
<1>4. \A k \in AllKeys : merged[k] # NoRecord => k = NilKey
  <2> SUFFICES ASSUME NEW k \in AllKeys, merged[k] # NoRecord PROVE k = NilKey
    OBVIOUS
  <2>1. \E s \in Sides : Version(s, k) # NoRecord
    BY <1>1, AbsentEverywhere DEF IInv, VisitedInv, Sides
  <2>2. PICK s \in Sides : k \in KeysOf(records[s])
    BY <2>1, IndexFacts DEF Version, IInv, TypeOK
  <2> QED
    BY <1>1, <2>2, SingleKey DEF IInv
<1>5. ASSUME Len(result) = 1
      PROVE  \E k \in AllKeys : merged[k] # NoRecord
  <2>1. result[1].key \in KeysOf(result)
    BY <1>3, <1>5 DEF KeysOf
  <2> QED
    BY <1>2, <2>1
<1>6. ASSUME NEW k \in AllKeys, merged[k] # NoRecord
      PROVE  Len(result) = 1
  <2>1. PICK i \in 1..Len(result) : result[i].key = k
    BY <1>2, <1>3, <1>6 DEF KeysOf
  <2>2. \A j \in 1..Len(result) : result[j].key \in KeysOf(result)
    BY <1>3 DEF KeysOf
  <2>3. \A j \in 1..Len(result) : result[j].key = NilKey
    BY <1>2, <1>4, <2>2
  <2>4. \A j \in 1..Len(result) : j = i
    BY <1>3, <2>3 DEF IInv, EmittedInv, DistinctKeys
  <2>5. 1 \in 1..Len(result) /\ Len(result) \in 1..Len(result)
    BY <1>3, <2>1
  <2> QED
    BY <2>4, <2>5
<1> QED
  BY <1>5, <1>6

\* The merge of record files implements the abstract three-way merge, however
\* the map of keys is iterated.
THEOREM Refinement == Spec => ImplementsThreeWayMerge
<1>1. Init => Abstract!Init
  BY DEF Init, Abstract!Init
<1>2. ASSUME [Next]_vars
      PROVE  UNCHANGED Abstract!inputs
  <2>1. UNCHANGED Inputs
    BY <1>2 DEF Next, vars, Inputs, RejectFiles, ParseFiles, EscalateKey, Escalate,
            MergeKey, EmitRow, RejectSingle, Return
  <2>2. UNCHANGED <<layout, settings, files>>
    BY <2>1 DEF Inputs
  <2>3. Mergeable' = Mergeable
    BY <2>2 DEF Mergeable
  <2>4. \A s \in Sides : Parses(files[s])' = Parses(files[s])
    BY <2>2 DEF Parses
  <2>5. \A s \in Sides : InFileOrder(files[s].rows)' = InFileOrder(files[s].rows)
    BY <2>2 DEF InFileOrder, RowRecord
  <2>6. SameRecord' = SameRecord
    BY <2>2 DEF SameRecord
  <2> QED
    BY <2>2, <2>3, <2>4, <2>5, <2>6 DEF Abstract!inputs, Sides
<1>3. ASSUME IInv, FilesInv, [Next]_vars
      PROVE  [Abstract!Next]_(Abstract!vars)
  <2>1. CASE UNCHANGED outcome /\ (outcome # "merged" \/ UNCHANGED result)
    BY <1>2, <1>3, <2>1 DEF Abstract!vars
  <2>2. CASE RejectFiles
    <3>1. ~Abstract!Mergeable
      BY <2>2, AbstractMergeable DEF RejectFiles
    <3> QED
      BY <1>2, <1>3, <2>2, <3>1 DEF RejectFiles, Escalate, Abstract!Next, Abstract!Escalate
  <2>3. CASE EscalateKey
    <3>1. PICK k \in pending :
            Unsafe(Version("base", k), Version("ours", k), Version("theirs", k),
                   SameRecord)
      BY <2>3 DEF EscalateKey
    <3>2. k \in AllKeys /\ outcome = "comparing"
      BY <2>3, <1>3 DEF IInv, TypeOK, EscalateKey
    <3>3. ~Abstract!Safe(Version("base", k), Version("ours", k), Version("theirs", k))
      BY <1>3, <3>1, <3>2, VersionType, RuleAgrees DEF IInv, Sides
    <3>4. ~Abstract!Safe(FileVersion("base", k), FileVersion("ours", k),
                         FileVersion("theirs", k))
      BY <1>3, <3>2, <3>3, FileVersions DEF IInv, Sides
    <3>5. ~Abstract!Mergeable
      BY <3>2, <3>4, AbstractMergeable
    <3> QED
      BY <1>2, <1>3, <2>3, <3>5 DEF EscalateKey, Escalate, Abstract!Next, Abstract!Escalate
  <2>4. CASE RejectSingle
    <3>1. Finishing /\ layout = "single" /\ Len(result) # 1
      BY <2>4 DEF RejectSingle
    <3>2. outcome = "comparing" /\ pending = {}
      BY <3>1 DEF Finishing
    <3>3. \A k \in AllKeys : merged[k] = NoRecord
      BY <1>3, <3>1, SingleResult
    <3>4. ~Abstract!Mergeable
      BY <1>3, <3>1, <3>2, <3>3, AllVisited, AbstractMergeable
    <3> QED
      BY <1>2, <1>3, <2>4, <3>2, <3>4 DEF RejectSingle, Escalate, Abstract!Next, Abstract!Escalate
  <2>5. CASE Return
    <3>1. Finishing /\ (layout = "single" => Len(result) = 1)
      BY <2>5 DEF Return
    <3>2. outcome = "comparing" /\ pending = {} /\ cursor > Len(Walk)
      BY <3>1 DEF Finishing
    <3>3. /\ Abstract!Union = merged
          /\ \A k \in AllKeys :
               /\ Abstract!Safe(FileVersion("base", k), FileVersion("ours", k),
                                FileVersion("theirs", k))
               /\ merged[k] = Abstract!Rule(FileVersion("base", k),
                                 FileVersion("ours", k), FileVersion("theirs", k))
      BY <1>3, <3>2, AllVisited
    <3>4. Mergeable /\ \A s \in Sides : Parses(files[s])
      BY <1>3, <3>2 DEF FilesInv
    <3>5. layout = "single" => \E k \in AllKeys : merged[k] # NoRecord
      BY <1>3, <3>1, SingleResult
    <3>6. Abstract!Mergeable
      BY <3>3, <3>4, <3>5, AbstractMergeable
    <3>7. cursor = Len(Walk) + 1
      <4>1. Walk \in Seq(Record) /\ Len(Walk) \in Nat
        BY <1>3, ConcatType DEF IInv, TypeOK, Walk, Sides
      <4> QED
        BY <1>3, <3>2, <4>1 DEF IInv, EmittedInv, TypeOK
    <3>8. Index(result) = Abstract!Union
      BY <1>3, <3>2, <3>3, <3>7, EmittedUnion
    <3>9. outcome' = "merged" /\ Index(result)' = Index(result)
      BY <2>5 DEF Return
    <3> QED
      BY <1>2, <1>3, <3>2, <3>6, <3>8, <3>9 DEF Abstract!Next, Abstract!Merge
  <2>6. CASE ParseFiles \/ (\E k \in AllKeys : MergeKey(k)) \/ EmitRow
    <3>1. outcome \in {"parsing", "comparing"} /\ outcome' \in {"parsing", "comparing"}
      BY <2>6 DEF ParseFiles, MergeKey, EmitRow
    <3> QED
      BY <1>2, <1>3, <3>1 DEF Abstract!vars
  <2> QED
    BY <1>3, <2>1, <2>2, <2>3, <2>4, <2>5, <2>6 DEF Next, vars
<1>4. Spec => []FilesInv
  <2>1. Init => FilesInv
    BY DEF Init, FilesInv
  <2> QED
    BY <2>1, FilesStep, PTL DEF Spec
<1> QED
  BY <1>1, <1>3, <1>4, Invariant, PTL DEF Spec, ImplementsThreeWayMerge, Abstract!Spec
=============================================================================
