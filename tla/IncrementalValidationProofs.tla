--------------------- MODULE IncrementalValidationProofs ---------------------
(***************************************************************************)
(* Theorems about IncrementalValidation, for any collections, definitions, *)
(* record files and trees, and any number of edits.                        *)
(***************************************************************************)
EXTENDS IncrementalValidation, FunctionTheorems, FiniteSetTheorems, TLAPS

\* A record file that is not deleted is kept for resolving.
KeptFile(f) == \E change \in changed : Kept(change) /\ change.path = f

\* What holds of the steps before any record file is read.
NothingRead ==
  affected = {} /\ findings = {} /\ wholeFileDone = {} /\ counts = NoCounts

\* The definition is what the working tree said when it was loaded.
SchemaIsLoaded ==
  phase # "load" =>
    \A c \in Collections :
      DefinedBy[c] \cap edited = {} => schema[c] = Strictness(worktree, c)

\* The changes are those between the two refs, but for what was edited since.
ChangesAreTheRange ==
  /\ phase \in {"load", "diff"} => changed = {}
  /\ \A change \in changed :
       change.path \notin edited =>
         /\ from[change.path] # Second(change.path)
         /\ Kept(change) => Second(change.path) # Absent
  /\ phase \notin {"load", "diff"} =>
       \A f \in Files \ edited :
         from[f] # Second(f) /\ Second(f) # Absent => KeptFile(f)

\* The steps come in order, and a changed definition decides between them.
StepsInOrder ==
  /\ phase \in {"load", "diff", "resolve", "full"} => NothingRead
  /\ phase = "full" => ChangedDefinitionFile
  /\ phase = "validate" => ~ChangedDefinitionFile

\* Each affected file has one collection and has not been read before.
AffectedAreAhead ==
  /\ \A a \in affected : a.col \in Owners[a.file] /\ KeptFile(a.file)
  /\ \A a, b \in affected : a.file = b.file => a = b
  /\ \A a \in affected : \A x \in findings : x.file # a.file
  /\ \A a \in affected : a.col \notin wholeFileDone

\* What was found is still so in the files that nobody edited.
FindingsStand ==
  \A x \in findings :
    /\ x.file \in RecordFiles /\ x.col \in Collections
    /\ x.file \notin edited => x \in FileFindings(x.col, x.file)
    /\ ~ChangedDefinitionFile \/ x.kind = "missing" => KeptFile(x.file)

\* What is wrong is found once its file has been read.
FoundWhenRead ==
  /\ phase \in {"validate", "done"} /\ ~ChangedDefinitionFile =>
       \A f \in RecordFiles \ edited : \A c \in Collections :
         KeptFile(f) /\ Owners[f] = {c} =>
           \/ [col |-> c, file |-> f] \in affected
           \/ FileFindings(c, f) \subseteq findings
  /\ phase = "done" =>
       /\ affected = {}
       /\ ChangedDefinitionFile =>
            \A f \in RecordFiles \ edited : \A c \in Owners[f] :
              worktree[f] # Absent => FileFindings(c, f) \subseteq findings

IInv ==
  /\ TypeOK
  /\ SchemaIsLoaded
  /\ ChangesAreTheRange
  /\ StepsInOrder
  /\ AffectedAreAhead
  /\ FindingsStand
  /\ FoundWhenRead
  /\ IsFiniteSet(findings)
  /\ CountsMatchFindings

-----------------------------------------------------------------------------
(* Lemmas about what one file holds. *)

\* Two sets are equally large when each member of the one has a place of its
\* own in the other.
LEMMA OnePlaceEach ==
  ASSUME NEW F, NEW P, IsFiniteSet(P),
         \A x \in F : <<x.file, x.key>> \in P,
         \A x, y \in F : x.file = y.file /\ x.key = y.key => x = y,
         \A p \in P : \E x \in F : p = <<x.file, x.key>>
  PROVE  IsFiniteSet(F) /\ Cardinality(F) = Cardinality(P)
<1> DEFINE place == [x \in F |-> <<x.file, x.key>>]
<1>1. place \in [F -> P]
  OBVIOUS
<1>2. \A x, y \in F : place[x] = place[y] => x = y
  OBVIOUS
<1>3. \A p \in P : \E x \in F : place[x] = p
  OBVIOUS
<1>4. place \in Bijection(F, P)
  <2> HIDE DEF place
  <2> QED BY <1>1, <1>2, <1>3, Fun_IsBij
<1>5. ExistsBijection(P, F)
  BY <1>4, Fun_ExistsBij, Fun_ExistsBijSymmetric
<1> QED
  BY <1>5, FS_Bijection

\* A tree holds at each path what may be there.
LEMMA TreeHolds ==
  ASSUME NEW t \in Trees, NEW f \in Files
  PROVE  /\ t[f] \in MayHold(f)
         /\ f \in SchemaFiles => t[f] \in Schemas /\ t[f] # Absent
         /\ f \in RecordFiles => t[f] \in Contents[f] \cup {Absent}
<1>1. t[f] \in MayHold(f)
  BY DEF Trees
<1> QED
  BY <1>1, FilesAssumption, ContentsAssumption DEF MayHold

\* The records of a file are counted one by one, and each that does not pass
\* makes one finding.
LEMMA FileCounts ==
  ASSUME TypeOK, NEW c \in Collections, NEW f \in RecordFiles
  PROVE  /\ IsFiniteSet(Counted(c, f)) /\ Passing(c, f) \subseteq Counted(c, f)
         /\ \A x \in FileFindings(c, f) :
              /\ x.col = c /\ x.file = f /\ x.kind \in {"record", "file", "missing"}
              /\ x.kind # "record" => x.key = NoKey
              /\ x.kind = "missing" => worktree[f] = Absent
              /\ <<x.file, x.key>> \in Counted(c, f) \ Passing(c, f)
         /\ \A x, y \in FileFindings(c, f) : x.key = y.key => x = y
         /\ \A p \in Counted(c, f) \ Passing(c, f) :
              \E x \in FileFindings(c, f) : p = <<x.file, x.key>>
         /\ \A p \in Counted(c, f) : p[1] = f
<1>1. worktree[f] \in Contents[f] \cup {Absent}
  BY TreeHolds DEF TypeOK, Files
<1>2. CASE Parsed(worktree[f])
  <2>1. worktree[f] \in Contents[f] \ {Garbage} /\ worktree[f] # Absent /\ worktree[f] # Garbage
    BY <1>1, <1>2 DEF Parsed
  <2>2. IsFiniteSet(DOMAIN worktree[f])
    BY <2>1, ContentsAssumption
  <2> DEFINE keys == DOMAIN worktree[f]
             pair == [k \in keys |-> <<f, k>>]
  <2>3. Counted(c, f) = {<<f, k>> : k \in keys}
    BY <1>2 DEF Counted
  <2>4. pair \in Surjection(keys, Counted(c, f))
    <3>1. pair \in [keys -> Counted(c, f)]
      BY <2>3
    <3>2. \A p \in Counted(c, f) : \E k \in keys : pair[k] = p
      BY <2>3
    <3> HIDE DEF pair, keys
    <3> QED BY <3>1, <3>2, Fun_IsSurj
  <2>5. IsFiniteSet(Counted(c, f))
    BY <2>2, <2>4, FS_Surjection
  <2>6. Passing(c, f) = {<<f, k>> : k \in keys \ Failing(c, f)}
    BY <1>2 DEF Passing
  <2>7. FileFindings(c, f) = {Finding("record", c, f, k) : k \in Failing(c, f)}
    BY <2>1 DEF FileFindings
  <2>8. Failing(c, f) \subseteq keys
    BY DEF Failing
  <2> HIDE DEF keys, pair
  <2>9. \A x \in FileFindings(c, f) :
          /\ x.col = c /\ x.file = f /\ x.kind = "record"
          /\ x.key \in Failing(c, f)
    BY <2>7 DEF Finding
  <2>10. \A x \in FileFindings(c, f) : <<x.file, x.key>> \in Counted(c, f) \ Passing(c, f)
    BY <2>3, <2>6, <2>8, <2>9
  <2>11. \A x, y \in FileFindings(c, f) : x.key = y.key => x = y
    BY <2>7 DEF Finding
  <2>12. ASSUME NEW p \in Counted(c, f) \ Passing(c, f)
         PROVE  \E x \in FileFindings(c, f) : p = <<x.file, x.key>>
    <3>1. PICK k \in keys : p = <<f, k>>
      BY <2>3
    <3>2. k \in Failing(c, f)
      BY <2>6, <3>1
    <3>3. Finding("record", c, f, k) \in FileFindings(c, f)
      BY <2>7, <3>2
    <3> QED BY <3>1, <3>3 DEF Finding
  <2>13. Passing(c, f) \subseteq Counted(c, f) /\ \A p \in Counted(c, f) : p[1] = f
    BY <2>3, <2>6
  <2> QED
    BY <2>5, <2>9, <2>10, <2>11, <2>12, <2>13
<1>3. CASE ~Parsed(worktree[f])
  <2>1. Passing(c, f) = {}
    BY <1>3 DEF Passing
  <2>2. \/ worktree[f] = Absent /\ c \in Shared /\ Counted(c, f) = {} /\ FileFindings(c, f) = {}
        \/ worktree[f] = Absent /\ Counted(c, f) = {<<f, NoKey>>}
             /\ FileFindings(c, f) = {Finding("missing", c, f, NoKey)}
        \/ worktree[f] # Absent /\ Counted(c, f) = {<<f, NoKey>>}
             /\ FileFindings(c, f) = {Finding("file", c, f, NoKey)}
    BY <1>3 DEF Parsed, Counted, FileFindings
  <2>3. IsFiniteSet(Counted(c, f))
    BY <2>2, FS_EmptySet, FS_Singleton
  <2>4. \A x \in FileFindings(c, f) :
          /\ x.col = c /\ x.file = f /\ x.kind \in {"file", "missing"} /\ x.key = NoKey
          /\ x.kind = "missing" => worktree[f] = Absent
    BY <2>2 DEF Finding
  <2>5. \A x, y \in FileFindings(c, f) : x = y
    BY <2>2
  <2>6. FileFindings(c, f) # {} => Counted(c, f) = {<<f, NoKey>>}
    BY <2>2
  <2>7. Counted(c, f) # {} => FileFindings(c, f) # {}
    BY <2>2
  <2>8. \A p \in Counted(c, f) : p = <<f, NoKey>>
    BY <2>2
  <2> QED
    BY <2>1, <2>3, <2>4, <2>5, <2>6, <2>7, <2>8
<1> QED
  BY <1>2, <1>3

\* Finitely many finite sets are finite together.
LEMMA FiniteTogether ==
  ASSUME NEW S, IsFiniteSet(S), NEW g, \A s \in S : IsFiniteSet(g[s])
  PROVE  IsFiniteSet(UNION {g[s] : s \in S})
<1> DEFINE sets == {g[s] : s \in S}
           set == [s \in S |-> g[s]]
<1>1. set \in Surjection(S, sets)
  <2>1. set \in [S -> sets] /\ \A x \in sets : \E s \in S : set[s] = x
    OBVIOUS
  <2> HIDE DEF set, sets
  <2> QED BY <2>1, Fun_IsSurj
<1>2. IsFiniteSet(sets)
  BY <1>1, FS_Surjection
<1>3. \A x \in sets : IsFiniteSet(x)
  OBVIOUS
<1> HIDE DEF sets
<1>4. IsFiniteSet(UNION sets)
  BY <1>2, <1>3, FS_UNION
<1> QED
  BY <1>4 DEF sets

\* In particular the numbers add up.
LEMMA FileAddsUp ==
  ASSUME TypeOK, NEW c \in Collections, NEW f \in RecordFiles
  PROVE  /\ IsFiniteSet(FileFindings(c, f))
         /\ Total(c, f) \in Nat /\ Passed(c, f) \in Nat
         /\ Passed(c, f) + Cardinality(FileFindings(c, f)) = Total(c, f)
<1> DEFINE P == Counted(c, f) \ Passing(c, f)
<1>1. IsFiniteSet(P) /\ IsFiniteSet(Passing(c, f))
  BY FileCounts, FS_Subset, FS_Difference
<1>2. IsFiniteSet(FileFindings(c, f)) /\ Cardinality(FileFindings(c, f)) = Cardinality(P)
  <2>1. \A x \in FileFindings(c, f) : <<x.file, x.key>> \in P
    BY FileCounts
  <2>2. \A x, y \in FileFindings(c, f) : x.file = y.file /\ x.key = y.key => x = y
    BY FileCounts
  <2>3. \A p \in P : \E x \in FileFindings(c, f) : p = <<x.file, x.key>>
    BY FileCounts
  <2> HIDE DEF P
  <2> QED BY <1>1, <2>1, <2>2, <2>3, OnePlaceEach
<1>3. Cardinality(P) = Cardinality(Counted(c, f)) - Cardinality(Passing(c, f))
  <2>1. Counted(c, f) \cap Passing(c, f) = Passing(c, f)
    BY FileCounts
  <2>2. IsFiniteSet(Counted(c, f))
    BY FileCounts
  <2> QED BY <2>1, <2>2, FS_Difference
<1>4. Cardinality(Counted(c, f)) \in Nat /\ Cardinality(Passing(c, f)) \in Nat
  BY <1>1, FileCounts, FS_CardinalityType
<1> QED
  BY <1>2, <1>3, <1>4 DEF Total, Passed

-----------------------------------------------------------------------------
(* Each step keeps the invariant. *)

LEMMA StrictnessType ==
  ASSUME NEW t, NEW c \in Collections
  PROVE  Strictness(t, c) \in Schemas
BY DEF Strictness, Schemas

\* Nothing has been counted where nothing has been found.
LEMMA NothingCounted ==
  ASSUME findings = {}, counts = NoCounts
  PROVE  CountsMatchFindings /\ IsFiniteSet(findings)
<1>1. \A c \in Collections : {f \in findings : f.col = c} = {}
  OBVIOUS
<1>2. \A c \in Collections : counts[c].total - counts[c].passed = 0
  BY DEF NoCounts
<1> QED
  BY <1>1, <1>2, FS_EmptySet DEF CountsMatchFindings

LEMMA Starts == Init => IInv
<1> SUFFICES ASSUME Init PROVE IInv
  OBVIOUS
<1>1. TypeOK
  <2>1. schema \in [Collections -> Schemas] /\ counts \in [Collections -> [passed : Nat, total : Nat]]
    BY DEF Init, Schemas, NoCounts
  <2>2. untracked \subseteq RecordFiles
    BY DEF Init
  <2> QED
    BY <2>1, <2>2 DEF Init, TypeOK
<1>2. IsFiniteSet(findings) /\ CountsMatchFindings
  BY NothingCounted DEF Init
<1>3. SchemaIsLoaded /\ ChangesAreTheRange /\ StepsInOrder
  BY DEF Init, SchemaIsLoaded, ChangesAreTheRange, StepsInOrder, NothingRead
<1>4. AffectedAreAhead /\ FindingsStand /\ FoundWhenRead
  BY DEF Init, AffectedAreAhead, FindingsStand, FoundWhenRead
<1> QED
  BY <1>1, <1>2, <1>3, <1>4 DEF IInv

\* The numbers stay what they are where nothing is counted.
LEMMA SameCounts ==
  ASSUME IInv, UNCHANGED <<counts, findings>>
  PROVE  CountsMatchFindings' /\ IsFiniteSet(findings)'
BY DEF IInv, CountsMatchFindings

LEMMA Loads == IInv /\ LoadDefinition => IInv'
<1> SUFFICES ASSUME IInv, LoadDefinition PROVE IInv'
  OBVIOUS
<1>1. TypeOK'
  <2>1. schema' \in [Collections -> Schemas]
    BY StrictnessType DEF LoadDefinition
  <2> QED
    BY <2>1 DEF IInv, TypeOK, LoadDefinition, trees
<1>2. SchemaIsLoaded'
  BY DEF LoadDefinition, SchemaIsLoaded, Strictness
<1>3. NothingRead /\ changed = {}
  BY DEF IInv, LoadDefinition, StepsInOrder, ChangesAreTheRange
<1>4. ChangesAreTheRange' /\ StepsInOrder'
  BY <1>3 DEF LoadDefinition, ChangesAreTheRange, StepsInOrder, NothingRead, NoCounts
<1>5. AffectedAreAhead' /\ FindingsStand' /\ FoundWhenRead'
  BY <1>3 DEF LoadDefinition, AffectedAreAhead, FindingsStand, FoundWhenRead, NothingRead
<1>6. CountsMatchFindings' /\ IsFiniteSet(findings)'
  BY SameCounts DEF LoadDefinition
<1> QED
  BY <1>1, <1>2, <1>4, <1>5, <1>6 DEF IInv

LEMMA Diffs == IInv /\ DiffFiles => IInv'
<1> SUFFICES ASSUME IInv, DiffFiles PROVE IInv'
  OBVIOUS
<1>1. PICK renaming \in Renamings : changed' = NameStatus(renaming)
  BY DEF DiffFiles
<1>2. \A change \in changed' :
        /\ change.path \in Differing
        /\ change.kind \in {"added", "modified", "deleted", "renamed"}
        /\ change.kind # "deleted" => change.path \notin Deleted
        /\ change = [kind |-> change.kind, path |-> change.path]
  BY <1>1 DEF NameStatus, Gone, Deleted, Kind
<1>3. ASSUME NEW f \in Differing \ Deleted
      PROVE  \E change \in changed' : change.kind # "deleted" /\ change.path = f
  <2>1. [kind |-> Kind(f, renaming), path |-> f] \in changed'
    BY <1>1, <1>3 DEF NameStatus
  <2>2. Kind(f, renaming) # "deleted"
    BY DEF Kind
  <2> QED BY <2>1, <2>2
<1>4. TypeOK'
  <2>1. changed' \subseteq [kind : {"added", "modified", "deleted", "renamed"}, path : Files]
    BY <1>2 DEF Differing
  <2> QED
    BY <2>1 DEF IInv, TypeOK, DiffFiles, trees
<1>5. SchemaIsLoaded'
  BY DEF IInv, DiffFiles, SchemaIsLoaded, Strictness
<1>6. NothingRead
  BY DEF IInv, DiffFiles, StepsInOrder
<1>7. ChangesAreTheRange'
  <2>1. \A f \in Files : Second(f)' = Second(f)
    BY DEF DiffFiles, trees, Second
  <2>2. \A f \in Files : f \in Differing <=> from[f] # Second(f)
    BY DEF Differing
  <2>3. \A f \in Differing : f \in Files /\ (f \in Deleted <=> Second(f) = Absent)
    BY DEF Deleted, Differing
  <2>4. \A change \in changed' :
          /\ from'[change.path] # Second(change.path)'
          /\ Kept(change) => Second(change.path)' # Absent
    BY <1>2, <2>1, <2>2, <2>3 DEF Kept, DiffFiles, trees
  <2>5. \A f \in Files : from'[f] # Second(f)' /\ Second(f)' # Absent => KeptFile(f)'
    BY <1>3, <2>1, <2>2, <2>3 DEF Kept, KeptFile, DiffFiles, trees
  <2> QED
    BY <2>4, <2>5 DEF ChangesAreTheRange, DiffFiles
<1>8. StepsInOrder'
  BY <1>6 DEF DiffFiles, StepsInOrder, NothingRead, NoCounts
<1>9. AffectedAreAhead' /\ FindingsStand' /\ FoundWhenRead'
  BY <1>6 DEF DiffFiles, AffectedAreAhead, FindingsStand, FoundWhenRead, NothingRead
<1>10. CountsMatchFindings' /\ IsFiniteSet(findings)'
  BY SameCounts DEF DiffFiles
<1> QED
  BY <1>4, <1>5, <1>7, <1>8, <1>9, <1>10 DEF IInv

\* The ranges of a step that leaves the files alone.
LEMMA SameRange ==
  ASSUME ChangesAreTheRange, SchemaIsLoaded, phase' \notin {"load", "diff"},
         phase \notin {"load", "diff"},
         UNCHANGED <<trees, worktree, schema, changed, edited>>
  PROVE  ChangesAreTheRange' /\ SchemaIsLoaded'
<1>1. \A f : Second(f)' = Second(f)
  BY DEF trees, Second
<1>2. \A f : KeptFile(f)' <=> KeptFile(f)
  BY DEF KeptFile, Kept
<1>3. ChangesAreTheRange'
  <2>1. from' = from
    BY DEF trees
  <2> QED BY <1>1, <1>2, <2>1 DEF ChangesAreTheRange, Kept
<1>4. SchemaIsLoaded'
  BY DEF SchemaIsLoaded, Strictness
<1> QED
  BY <1>3, <1>4

LEMMA Resolves == IInv /\ Resolve => IInv'
<1> SUFFICES ASSUME IInv, Resolve PROVE IInv'
  OBVIOUS
<1> DEFINE paths == {change.path : change \in {ch \in changed : Kept(ch)}} \cap RecordFiles
           owned == {f \in paths : Owners[f] # {}}
<1>1. PICK owner \in [owned -> Collections] :
        /\ \A f \in owned : owner[f] \in Owners[f]
        /\ affected' = {[col |-> owner[f], file |-> f] : f \in owned}
  BY DEF Resolve, Resolutions, CollectionForRecordFile
<1>2. NothingRead
  BY DEF IInv, Resolve, StepsInOrder
<1>3. owned \subseteq RecordFiles /\ \A f \in owned : KeptFile(f)
  BY DEF KeptFile
<1>4. \A f \in RecordFiles : KeptFile(f) /\ Owners[f] # {} => f \in owned
  BY DEF KeptFile
<1> HIDE DEF owned, paths
<1>5. TypeOK'
  <2>1. affected' \subseteq [col : Collections, file : RecordFiles]
    BY <1>1, <1>3
  <2> QED
    BY <2>1 DEF IInv, TypeOK, Resolve, trees
<1>6. ChangesAreTheRange' /\ SchemaIsLoaded'
  BY SameRange DEF IInv, Resolve
<1>7. StepsInOrder'
  BY DEF Resolve, StepsInOrder, ChangedDefinitionFile
<1>8. \A f : KeptFile(f)' <=> KeptFile(f)
  BY DEF KeptFile, Kept, Resolve
<1>9. AffectedAreAhead'
  <2>1. \A a \in affected' : a.file \in owned /\ a = [col |-> owner[a.file], file |-> a.file]
    BY <1>1
  <2>2. findings' = {} /\ wholeFileDone' = {}
    BY <1>2 DEF NothingRead, Resolve
  <2>3. \A a \in affected' : a.col \in Owners[a.file] /\ KeptFile(a.file)'
    BY <1>1, <1>3, <1>8, <2>1
  <2>4. \A a, b \in affected' : a.file = b.file => a = b
    BY <2>1
  <2> QED BY <2>2, <2>3, <2>4 DEF AffectedAreAhead
<1>10. FindingsStand'
  BY <1>2 DEF NothingRead, Resolve, FindingsStand
<1>11. FoundWhenRead'
  <2>1. ASSUME NEW f \in RecordFiles, NEW c \in Collections, KeptFile(f)', Owners[f] = {c}
        PROVE  [col |-> c, file |-> f] \in affected'
    <3>1. f \in owned
      BY <1>4, <1>8, <2>1
    <3>2. owner[f] = c
      BY <1>1, <2>1, <3>1
    <3> QED BY <1>1, <3>1, <3>2
  <2> QED
    BY <2>1 DEF FoundWhenRead, Resolve
<1>12. CountsMatchFindings' /\ IsFiniteSet(findings)'
  BY SameCounts DEF Resolve
<1> QED
  BY <1>5, <1>6, <1>7, <1>9, <1>10, <1>11, <1>12 DEF IInv

LEMMA FallsBack == IInv /\ FallBack => IInv'
<1> SUFFICES ASSUME IInv, FallBack PROVE IInv'
  OBVIOUS
<1>1. NothingRead
  BY DEF IInv, FallBack, StepsInOrder
<1>2. TypeOK'
  BY DEF IInv, TypeOK, FallBack, trees
<1>3. ChangesAreTheRange' /\ SchemaIsLoaded'
  BY SameRange DEF IInv, FallBack
<1>4. StepsInOrder'
  BY <1>1 DEF FallBack, StepsInOrder, ChangedDefinitionFile, NothingRead, NoCounts
<1>5. AffectedAreAhead' /\ FindingsStand' /\ FoundWhenRead'
  BY <1>1 DEF FallBack, AffectedAreAhead, FindingsStand, FoundWhenRead, NothingRead
<1>6. CountsMatchFindings' /\ IsFiniteSet(findings)'
  BY SameCounts DEF FallBack
<1> QED
  BY <1>2, <1>3, <1>4, <1>5, <1>6 DEF IInv

\* A step that leaves the files and the schema alone finds the same in a file.
LEMMA SameFile ==
  ASSUME UNCHANGED <<worktree, schema>>
  PROVE  \A c, f : /\ FileFindings(c, f)' = FileFindings(c, f)
                   /\ Counted(c, f)' = Counted(c, f) /\ Passing(c, f)' = Passing(c, f)
BY DEF FileFindings, Failing, Counted, Passing

LEMMA Returns == IInv /\ Return => IInv'
<1> SUFFICES ASSUME IInv, Return PROVE IInv'
  OBVIOUS
<1>1. TypeOK'
  BY DEF IInv, TypeOK, Return, trees
<1>2. ChangesAreTheRange' /\ SchemaIsLoaded'
  BY SameRange DEF IInv, Return
<1>3. StepsInOrder'
  BY DEF Return, StepsInOrder
<1>4. \A f : KeptFile(f)' <=> KeptFile(f)
  BY DEF KeptFile, Kept, Return
<1>5. AffectedAreAhead'
  BY <1>4 DEF IInv, Return, AffectedAreAhead
<1>6. \A c, f : FileFindings(c, f)' = FileFindings(c, f)
  BY SameFile DEF Return
<1>7. FindingsStand'
  BY <1>4, <1>6 DEF IInv, Return, FindingsStand, ChangedDefinitionFile
<1>8. FoundWhenRead'
  <2>1. ~ChangedDefinitionFile /\ ~ChangedDefinitionFile'
    BY DEF IInv, Return, StepsInOrder, ChangedDefinitionFile
  <2> QED
    BY <1>4, <1>6, <2>1 DEF IInv, Return, FoundWhenRead
<1>9. CountsMatchFindings' /\ IsFiniteSet(findings)'
  BY SameCounts DEF Return
<1> QED
  BY <1>1, <1>2, <1>3, <1>5, <1>7, <1>8, <1>9 DEF IInv

\* One more file is validated: its findings are new, for no finding is about an
\* affected file, and its collection is not done, for a shared file is one file.
LEMMA ValidatesAffected == IInv /\ ValidateAffected => IInv'
<1> SUFFICES ASSUME IInv, ValidateAffected PROVE IInv'
  OBVIOUS
<1>1. PICK a \in affected :
        /\ affected' = affected \ {a}
        /\ IF a.col \in wholeFileDone THEN UNCHANGED <<wholeFileDone, counts, findings>>
           ELSE /\ wholeFileDone' = wholeFileDone \cup ({a.col} \cap Shared)
                /\ counts' = [counts EXCEPT ![a.col] =
                                [passed |-> @.passed + Passed(a.col, a.file),
                                 total  |-> @.total + Total(a.col, a.file)]]
                /\ findings' = findings \cup FileFindings(a.col, a.file)
  BY DEF ValidateAffected
<1>2. a \in [col : Collections, file : RecordFiles] /\ a.col \in Owners[a.file] /\ KeptFile(a.file)
  BY DEF IInv, TypeOK, AffectedAreAhead
<1>3. a.col \notin wholeFileDone
  BY DEF IInv, AffectedAreAhead
<1> DEFINE new == FileFindings(a.col, a.file)
<1>4. /\ wholeFileDone' = wholeFileDone \cup ({a.col} \cap Shared)
      /\ counts' = [counts EXCEPT ![a.col] =
                      [passed |-> counts[a.col].passed + Passed(a.col, a.file),
                       total  |-> counts[a.col].total + Total(a.col, a.file)]]
      /\ findings' = findings \cup new
  BY <1>1, <1>3
<1>5. /\ IsFiniteSet(new)
      /\ Total(a.col, a.file) \in Nat /\ Passed(a.col, a.file) \in Nat
      /\ Passed(a.col, a.file) + Cardinality(new) = Total(a.col, a.file)
  BY <1>2, FileAddsUp DEF IInv
<1>6. \A x \in new : /\ x.col = a.col /\ x.file = a.file
                     /\ x.kind \in {"record", "file", "missing"}
                     /\ x.kind # "record" => x.key = NoKey
  BY DEF FileFindings, Finding
<1> HIDE DEF new
<1>7. phase = "validate" /\ phase' = "validate" /\ ~ChangedDefinitionFile /\ ~ChangedDefinitionFile'
  BY DEF IInv, ValidateAffected, StepsInOrder, ChangedDefinitionFile
<1>8. \A f : KeptFile(f)' <=> KeptFile(f)
  BY DEF KeptFile, Kept, ValidateAffected
<1>9. \A c, f : FileFindings(c, f)' = FileFindings(c, f)
  BY SameFile DEF ValidateAffected
<1>10. TypeOK'
  <2>1. counts' \in [Collections -> [passed : Nat, total : Nat]]
    BY <1>2, <1>4, <1>5 DEF IInv, TypeOK
  <2>2. wholeFileDone' \subseteq Shared
    BY <1>4 DEF IInv, TypeOK
  <2>3. \A f \in findings' : /\ f.kind \in {"record", "file", "missing"}
                             /\ f.col \in Owners[f.file]
                             /\ f.kind # "record" => f.key = NoKey
    BY <1>2, <1>4, <1>6 DEF IInv, TypeOK
  <2>4. affected' \subseteq [col : Collections, file : RecordFiles]
    BY <1>1 DEF IInv, TypeOK
  <2> QED
    BY <2>1, <2>2, <2>3, <2>4 DEF IInv, TypeOK, ValidateAffected, trees
<1>11. ChangesAreTheRange' /\ SchemaIsLoaded'
  BY <1>7, SameRange DEF IInv, ValidateAffected
<1>12. StepsInOrder'
  BY <1>7 DEF StepsInOrder
<1>13. AffectedAreAhead'
  <2>1. \A b \in affected' : b \in affected /\ b # a /\ b.file # a.file
    BY <1>1 DEF IInv, AffectedAreAhead
  <2>2. \A b \in affected' : \A x \in findings' : x.file # b.file
    BY <1>4, <1>6, <2>1 DEF IInv, AffectedAreAhead
  <2>3. ASSUME NEW b \in affected' PROVE b.col \notin wholeFileDone'
    <3>1. b \in affected /\ b.col \in Owners[b.file] /\ b.file \in RecordFiles /\ b.col \notin wholeFileDone
      BY <2>1 DEF IInv, AffectedAreAhead, TypeOK
    <3>2. CASE b.col = a.col /\ a.col \in Shared
      <4>1. a.file = b.file
        BY <1>2, <3>1, <3>2, OwnersAssumption
      <4> QED BY <2>1, <4>1
    <3> QED BY <1>4, <3>1, <3>2
  <2>4. \A b \in affected' : b.col \in Owners[b.file] /\ KeptFile(b.file)'
    BY <1>8, <2>1 DEF IInv, AffectedAreAhead
  <2>5. \A b, d \in affected' : b.file = d.file => b = d
    BY <2>1 DEF IInv, AffectedAreAhead
  <2> QED BY <2>2, <2>3, <2>4, <2>5 DEF AffectedAreAhead
<1>14. FindingsStand'
  <2>1. \A x \in findings : /\ x.file \in RecordFiles /\ x.col \in Collections
                            /\ x.file \notin edited => x \in FileFindings(x.col, x.file)
                            /\ KeptFile(x.file)
    BY <1>7 DEF IInv, FindingsStand
  <2>2. \A x \in new : /\ x.file \in RecordFiles /\ x.col \in Collections
                       /\ x \in FileFindings(x.col, x.file) /\ KeptFile(x.file)
    BY <1>2, <1>6 DEF new
  <2>3. edited' = edited
    BY DEF ValidateAffected
  <2> QED
    BY <1>4, <1>8, <1>9, <2>1, <2>2, <2>3 DEF FindingsStand
<1>15. FoundWhenRead'
  <2>1. ASSUME NEW f \in RecordFiles \ edited, NEW c \in Collections,
               KeptFile(f), Owners[f] = {c}
        PROVE  [col |-> c, file |-> f] \in affected' \/ FileFindings(c, f) \subseteq findings'
    <3>1. [col |-> c, file |-> f] \in affected \/ FileFindings(c, f) \subseteq findings
      BY <1>7, <2>1 DEF IInv, FoundWhenRead
    <3>2. CASE [col |-> c, file |-> f] = a
      <4>1. FileFindings(c, f) = new
        BY <3>2 DEF new
      <4> QED BY <1>4, <4>1
    <3> QED BY <1>1, <1>4, <3>1, <3>2
  <2>2. edited' = edited
    BY DEF ValidateAffected
  <2> QED
    BY <1>7, <1>8, <1>9, <2>1, <2>2 DEF FoundWhenRead
<1>16. IsFiniteSet(findings)'
  BY <1>4, <1>5, FS_Union DEF IInv
<1>17. CountsMatchFindings'
  <2>1. ASSUME NEW c \in Collections
        PROVE  counts'[c].total - counts'[c].passed = Cardinality({f \in findings' : f.col = c})
    <3> DEFINE old == {f \in findings : f.col = c}
    <3>1. counts[c].total - counts[c].passed = Cardinality(old)
      BY DEF IInv, CountsMatchFindings
    <3>2. IsFiniteSet(old)
      BY FS_Subset DEF IInv
    <3>3. CASE c # a.col
      <4>1. {f \in findings' : f.col = c} = old
        BY <1>4, <1>6, <3>3
      <4>2. counts'[c] = counts[c]
        BY <1>4, <3>3 DEF IInv, TypeOK
      <4> QED BY <3>1, <4>1, <4>2
    <3>4. CASE c = a.col
      <4>1. {f \in findings' : f.col = c} = old \cup new
        BY <1>4, <1>6, <3>4
      <4>2. old \cap new = {}
        BY <1>6 DEF IInv, AffectedAreAhead
      <4>3. Cardinality(old \cup new) = Cardinality(old) + Cardinality(new)
        <5>1. Cardinality(old) \in Nat /\ Cardinality(new) \in Nat
          BY <1>5, <3>2, FS_CardinalityType
        <5>2. Cardinality(old \cup new) = Cardinality(old) + Cardinality(new) - Cardinality(old \cap new)
          BY <1>5, <3>2, FS_Union
        <5>3. Cardinality(old \cap new) = 0
          BY <4>2, FS_EmptySet
        <5> HIDE DEF old
        <5> QED BY <5>1, <5>2, <5>3
      <4>4. /\ counts'[c].passed = counts[c].passed + Passed(a.col, a.file)
            /\ counts'[c].total = counts[c].total + Total(a.col, a.file)
        BY <1>4, <3>4 DEF IInv, TypeOK
      <4>5. /\ counts[c].passed \in Nat /\ counts[c].total \in Nat
            /\ Cardinality(old) \in Nat /\ Cardinality(new) \in Nat
        BY <1>5, <3>2, FS_CardinalityType DEF IInv, TypeOK
      <4>6. Cardinality({f \in findings' : f.col = c}) = Cardinality(old) + Cardinality(new)
        BY <4>1, <4>3
      <4>7. Passed(a.col, a.file) + Cardinality(new) = Total(a.col, a.file)
        BY <1>5
      <4> HIDE DEF old
      <4> QED BY <1>5, <3>1, <4>4, <4>5, <4>6, <4>7
    <3> QED BY <3>3, <3>4
  <2> QED BY <2>1 DEF CountsMatchFindings
<1> QED
  BY <1>10, <1>11, <1>12, <1>13, <1>14, <1>15, <1>16, <1>17 DEF IInv

LEMMA ListedIsFinite == IsFiniteSet(Listed)
<1> DEFINE pairs == Collections \X RecordFiles
           all == [col : Collections, file : RecordFiles]
           as == [p \in pairs |-> [col |-> p[1], file |-> p[2]]]
<1>1. IsFiniteSet(pairs)
  BY FilesAssumption, FS_Product
<1>2. as \in Surjection(pairs, all)
  <2>1. as \in [pairs -> all]
    OBVIOUS
  <2>2. ASSUME NEW a \in all PROVE \E p \in pairs : as[p] = a
    <3>1. <<a.col, a.file>> \in pairs /\ as[<<a.col, a.file>>] = a
      OBVIOUS
    <3> QED BY <3>1
  <2> HIDE DEF as, pairs, all
  <2> QED BY <2>1, <2>2, Fun_IsSurj
<1>3. IsFiniteSet(all)
  BY <1>1, <1>2, FS_Surjection
<1>4. Listed \subseteq all
  BY DEF Listed
<1> QED
  BY <1>3, <1>4, FS_Subset

\* A full pass counts the files of a collection together: no two files share a
\* record, so what does not pass is one finding each.
LEMMA FullCounts ==
  ASSUME TypeOK, NEW c \in Collections, NEW files \in SUBSET RecordFiles,
         NEW found, found = UNION {FileFindings(c, f) : f \in files}
  PROVE  LET passing == UNION {Passing(c, f) : f \in files}
             counted == UNION {Counted(c, f) : f \in files}
         IN /\ Cardinality(counted) \in Nat /\ Cardinality(passing) \in Nat
            /\ Cardinality(counted) - Cardinality(passing) = Cardinality(found)
<1> DEFINE passing == UNION {Passing(c, f) : f \in files}
           counted == UNION {Counted(c, f) : f \in files}
           P == counted \ passing
           each == [f \in files |-> Counted(c, f)]
<1>1. IsFiniteSet(counted)
  <2>1. IsFiniteSet(files)
    BY FilesAssumption, FS_Subset
  <2>2. \A f \in files : IsFiniteSet(each[f])
    BY FileCounts
  <2>3. counted = UNION {each[f] : f \in files}
    OBVIOUS
  <2> HIDE DEF each, counted
  <2> QED BY <2>1, <2>2, <2>3, FiniteTogether
<1>2. passing \subseteq counted
  <2>1. \A f \in files : Passing(c, f) \subseteq Counted(c, f)
    BY FileCounts
  <2> QED BY <2>1
<1>3. IsFiniteSet(P) /\ IsFiniteSet(passing)
  BY <1>1, <1>2, FS_Subset, FS_Difference
<1>4. \A f \in files : \A p \in Counted(c, f) : p[1] = f
  BY FileCounts
<1>5. ASSUME NEW x \in found PROVE <<x.file, x.key>> \in P
  <2>1. PICK f \in files : x \in FileFindings(c, f)
    BY <1>5
  <2>2. x.file = f /\ <<x.file, x.key>> \in Counted(c, f) \ Passing(c, f)
    BY <2>1, FileCounts
  <2>3. ASSUME NEW g \in files, <<x.file, x.key>> \in Passing(c, g) PROVE FALSE
    <3>1. <<x.file, x.key>> \in Counted(c, g)
      BY <2>3, FileCounts
    <3>2. g = x.file
      BY <1>4, <3>1
    <3> QED BY <2>2, <2>3, <3>2
  <2> QED BY <2>2, <2>3
<1>6. ASSUME NEW x \in found, NEW y \in found, x.file = y.file, x.key = y.key
      PROVE  x = y
  <2>1. PICK f \in files : x \in FileFindings(c, f)
    BY <1>6
  <2>2. PICK g \in files : y \in FileFindings(c, g)
    BY <1>6
  <2>3. f = g
    BY <1>6, <2>1, <2>2 DEF FileFindings, Finding
  <2> QED BY <1>6, <2>1, <2>2, <2>3, FileCounts
<1>7. ASSUME NEW p \in P PROVE \E x \in found : p = <<x.file, x.key>>
  <2>1. PICK f \in files : p \in Counted(c, f)
    BY <1>7
  <2>2. p \notin Passing(c, f)
    BY <1>7
  <2>3. \E x \in FileFindings(c, f) : p = <<x.file, x.key>>
    BY <2>1, <2>2, FileCounts
  <2> QED BY <2>3
<1> HIDE DEF P
<1>8. Cardinality(found) = Cardinality(P)
  BY <1>3, <1>5, <1>6, <1>7, OnePlaceEach
<1>9. Cardinality(P) = Cardinality(counted) - Cardinality(passing)
  <2>1. counted \cap passing = passing
    BY <1>2
  <2>2. Cardinality(P) = Cardinality(counted) - Cardinality(counted \cap passing)
    <3> HIDE DEF counted, passing
    <3> QED BY <1>1, FS_Difference DEF P
  <2> QED BY <2>1, <2>2
<1>10. Cardinality(counted) \in Nat /\ Cardinality(passing) \in Nat
  BY <1>1, <1>3, FS_CardinalityType
<1>11. Cardinality(counted) - Cardinality(passing) = Cardinality(found)
  BY <1>8, <1>9
<1> QED
  BY <1>10, <1>11

LEMMA ValidatesFully == IInv /\ FullValidation => IInv'
<1> SUFFICES ASSUME IInv, FullValidation PROVE IInv'
  OBVIOUS
<1> DEFINE listedOf(c) == {f \in RecordFiles : [col |-> c, file |-> f] \in Listed}
<1>1. NothingRead /\ ChangedDefinitionFile /\ ChangedDefinitionFile'
  BY DEF IInv, FullValidation, StepsInOrder, ChangedDefinitionFile
<1>2. findings' = UNION {FileFindings(a.col, a.file) : a \in Listed}
  BY DEF FullValidation
<1>3. counts' = [c \in Collections |->
        [passed |-> Cardinality(UNION {Passing(c, f) : f \in listedOf(c)}),
         total  |-> Cardinality(UNION {Counted(c, f) : f \in listedOf(c)})]]
  BY DEF FullValidation
<1>4. \A a \in Listed : /\ a \in [col : Collections, file : RecordFiles]
                        /\ a.col \in Owners[a.file] /\ worktree[a.file] # Absent
  BY DEF Listed
<1>5. \A a \in Listed : \A x \in FileFindings(a.col, a.file) :
        /\ x.col = a.col /\ x.file = a.file /\ x.kind \in {"record", "file"}
        /\ x.kind # "record" => x.key = NoKey
  BY <1>4 DEF FileFindings, Finding
<1>6. ASSUME NEW c \in Collections
      PROVE  /\ counts'[c].total \in Nat /\ counts'[c].passed \in Nat
             /\ counts'[c].total - counts'[c].passed = Cardinality({x \in findings' : x.col = c})
  <2> DEFINE found == {x \in findings' : x.col = c}
             files == listedOf(c)
  <2>1. found = UNION {FileFindings(c, f) : f \in files}
    <3>1. ASSUME NEW x \in found PROVE \E f \in files : x \in FileFindings(c, f)
      <4>1. PICK a \in Listed : x \in FileFindings(a.col, a.file)
        BY <1>2
      <4>2. a.col = c
        BY <1>5, <4>1
      <4>3. a = [col |-> c, file |-> a.file] /\ a.file \in RecordFiles
        BY <1>4, <4>2
      <4> QED BY <4>1, <4>2, <4>3
    <3>2. ASSUME NEW f \in files, NEW x \in FileFindings(c, f) PROVE x \in found
      <4>1. [col |-> c, file |-> f] \in Listed
        OBVIOUS
      <4>2. x \in findings'
        BY <1>2, <4>1
      <4> QED BY <1>5, <4>1, <4>2
    <3> QED BY <3>1, <3>2
  <2>2. files \in SUBSET RecordFiles
    OBVIOUS
  <2>3. TypeOK
    BY DEF IInv
  <2>4. /\ counts'[c].passed = Cardinality(UNION {Passing(c, f) : f \in files})
        /\ counts'[c].total = Cardinality(UNION {Counted(c, f) : f \in files})
    BY <1>3
  <2> HIDE DEF found, files
  <2>5. LET passing == UNION {Passing(c, f) : f \in files}
            counted == UNION {Counted(c, f) : f \in files}
        IN /\ Cardinality(counted) \in Nat /\ Cardinality(passing) \in Nat
           /\ Cardinality(counted) - Cardinality(passing) = Cardinality(found)
    BY <2>1, <2>2, <2>3, FullCounts
  <2>6. /\ counts'[c].total \in Nat /\ counts'[c].passed \in Nat
        /\ counts'[c].total - counts'[c].passed = Cardinality(found)
    BY <2>4, <2>5
  <2> QED BY <2>6 DEF found
<1>7. TypeOK'
  <2>1. counts' \in [Collections -> [passed : Nat, total : Nat]]
    BY <1>3, <1>6
  <2>2. \A x \in findings' : /\ x.kind \in {"record", "file", "missing"}
                             /\ x.col \in Owners[x.file]
                             /\ x.kind # "record" => x.key = NoKey
    BY <1>2, <1>4, <1>5
  <2> QED
    BY <2>1, <2>2 DEF IInv, TypeOK, FullValidation, trees
<1>8. ChangesAreTheRange' /\ SchemaIsLoaded'
  BY SameRange DEF IInv, FullValidation
<1>9. StepsInOrder'
  BY DEF FullValidation, StepsInOrder
<1>10. AffectedAreAhead'
  BY <1>1 DEF NothingRead, FullValidation, AffectedAreAhead
<1>11. \A c, f : FileFindings(c, f)' = FileFindings(c, f)
  BY SameFile DEF FullValidation
<1>12. FindingsStand'
  <2>1. ASSUME NEW x \in findings'
        PROVE  /\ x.file \in RecordFiles /\ x.col \in Collections /\ x.kind # "missing"
               /\ x \in FileFindings(x.col, x.file)
    <3>1. PICK a \in Listed : x \in FileFindings(a.col, a.file)
      BY <1>2
    <3>2. x.col = a.col /\ x.file = a.file /\ x.kind # "missing"
      BY <1>5, <3>1
    <3> QED BY <1>4, <3>1, <3>2
  <2> QED BY <1>1, <1>11, <2>1 DEF FindingsStand
<1>13. FoundWhenRead'
  <2>1. ASSUME NEW f \in RecordFiles, NEW c \in Owners[f], worktree[f] # Absent
        PROVE  FileFindings(c, f) \subseteq findings'
    <3>1. [col |-> c, file |-> f] \in Listed
      BY <2>1, OwnersAssumption DEF Listed
    <3> QED BY <1>2, <3>1
  <2>2. phase' = "done" /\ affected' = {} /\ worktree' = worktree
    BY <1>1 DEF NothingRead, FullValidation
  <2> QED BY <1>1, <1>11, <2>1, <2>2 DEF FoundWhenRead
<1>14. IsFiniteSet(findings)'
  <2> DEFINE g == [a \in Listed |-> FileFindings(a.col, a.file)]
  <2>1. ASSUME NEW a \in Listed PROVE IsFiniteSet(g[a])
    <3>1. a.col \in Collections /\ a.file \in RecordFiles /\ TypeOK
      BY <1>4 DEF IInv
    <3>2. IsFiniteSet(FileFindings(a.col, a.file))
      BY <3>1, FileAddsUp
    <3> QED BY <3>2
  <2>2. findings' = UNION {g[a] : a \in Listed}
    BY <1>2
  <2> HIDE DEF g
  <2> QED BY <2>1, <2>2, ListedIsFinite, FiniteTogether
<1>15. CountsMatchFindings'
  BY <1>6 DEF CountsMatchFindings
<1> QED
  BY <1>7, <1>8, <1>9, <1>10, <1>12, <1>13, <1>14, <1>15 DEF IInv

\* An edit disturbs only what is said of the file that is edited.
LEMMA Edits == IInv /\ Edit => IInv'
<1> SUFFICES ASSUME IInv, Edit PROVE IInv'
  OBVIOUS
<1>1. PICK e \in Files \ edited : \E content \in MayHold(e) :
        /\ worktree' = [worktree EXCEPT ![e] = content]
        /\ edited' = edited \cup {e}
  BY DEF Edit
<1>2. PICK content \in MayHold(e) :
        /\ worktree' = [worktree EXCEPT ![e] = content]
        /\ edited' = edited \cup {e}
  BY <1>1
<1>3. UNCHANGED <<trees, schema, phase, changed, affected, wholeFileDone, counts, findings>>
  BY DEF Edit
<1>4. worktree \in Trees
  BY DEF IInv, TypeOK
<1>5. \A f \in Files \ {e} : worktree'[f] = worktree[f]
  BY <1>2, <1>4 DEF Trees
<1>6. TypeOK'
  <2>1. worktree' \in Trees
    <3>1. worktree' \in [Files -> UNION {MayHold(f) : f \in Files}]
      BY <1>1, <1>2, <1>4 DEF Trees
    <3>2. \A f \in Files : worktree'[f] \in MayHold(f)
      BY <1>2, <1>4 DEF Trees
    <3> QED BY <3>1, <3>2 DEF Trees
  <2>2. edited' \subseteq Files
    BY <1>1, <1>2 DEF IInv, TypeOK
  <2> QED
    BY <1>3, <2>1, <2>2 DEF IInv, TypeOK, trees
<1>7. SchemaIsLoaded'
  <2>1. ASSUME NEW c \in Collections, DefinedBy[c] \cap edited' = {}
        PROVE  Strictness(worktree, c)' = Strictness(worktree, c)
    <3>1. \A f \in DefinedBy[c] : f \in Files \ {e}
      BY <1>2, <2>1, FilesAssumption DEF Files
    <3> QED BY <1>5, <3>1 DEF Strictness
  <2> QED
    BY <1>2, <1>3, <2>1 DEF IInv, SchemaIsLoaded, Strictness
<1>8. \A f \in Files \ {e} : Second(f)' = Second(f)
  BY <1>3, <1>5 DEF Second, trees
<1>9. \A f : KeptFile(f)' <=> KeptFile(f)
  BY <1>3 DEF KeptFile, Kept
<1>10. from' = from /\ phase' = phase /\ changed' = changed
  BY <1>3 DEF trees
<1>11. ChangesAreTheRange'
  <2>1. \A change \in changed : change.path \in Files
    BY DEF IInv, TypeOK
  <2>2. ASSUME NEW change \in changed', change.path \notin edited'
        PROVE  /\ from'[change.path] # Second(change.path)'
               /\ Kept(change) => Second(change.path)' # Absent
    <3>1. change.path \in Files \ {e} /\ change.path \notin edited
      BY <1>2, <1>10, <2>1, <2>2
    <3> QED BY <1>8, <1>10, <3>1 DEF IInv, ChangesAreTheRange
  <2>3. ASSUME NEW f \in Files \ edited', phase \notin {"load", "diff"},
               from'[f] # Second(f)' /\ Second(f)' # Absent
        PROVE  KeptFile(f)'
    <3>1. f \in Files \ edited /\ f \in Files \ {e}
      BY <1>2
    <3> QED BY <1>8, <1>9, <1>10, <2>3, <3>1 DEF IInv, ChangesAreTheRange
  <2> QED
    BY <1>10, <2>2, <2>3 DEF IInv, ChangesAreTheRange, Kept
<1>12. StepsInOrder'
  BY <1>3 DEF IInv, StepsInOrder, NothingRead, NoCounts, ChangedDefinitionFile
<1>13. AffectedAreAhead'
  BY <1>3, <1>9 DEF IInv, AffectedAreAhead
<1>14. \A c : \A f \in Files \ {e} : FileFindings(c, f)' = FileFindings(c, f)
  BY <1>3, <1>5 DEF FileFindings, Failing
<1>15. FindingsStand'
  <2>1. ASSUME NEW x \in findings, x.file \notin edited'
        PROVE  x \in FileFindings(x.col, x.file)'
    <3>1. x.file \in Files \ {e} /\ x.file \notin edited
      BY <1>2, <2>1 DEF IInv, FindingsStand, Files
    <3> QED BY <1>14, <3>1 DEF IInv, FindingsStand
  <2> QED
    BY <1>3, <1>9, <2>1 DEF IInv, FindingsStand, ChangedDefinitionFile
<1>16. FoundWhenRead'
  <2>1. phase' # "done"
    BY <1>10 DEF Edit
  <2>2. ASSUME ~ChangedDefinitionFile, phase = "validate",
               NEW f \in RecordFiles \ edited', NEW c \in Collections,
               KeptFile(f), Owners[f] = {c}
        PROVE  [col |-> c, file |-> f] \in affected \/ FileFindings(c, f)' \subseteq findings
    <3>1. f \in Files \ {e} /\ f \in RecordFiles \ edited
      BY <1>2 DEF Files
    <3> QED BY <1>14, <2>2, <3>1 DEF IInv, FoundWhenRead
  <2> QED
    BY <1>3, <1>9, <2>1, <2>2 DEF FoundWhenRead, ChangedDefinitionFile
<1>17. CountsMatchFindings' /\ IsFiniteSet(findings)'
  BY <1>3, SameCounts
<1> QED
  BY <1>6, <1>7, <1>11, <1>12, <1>13, <1>15, <1>16, <1>17 DEF IInv

\* A step that changes nothing.
LEMMA Stutters == IInv /\ UNCHANGED vars => IInv'
<1> SUFFICES ASSUME IInv, UNCHANGED vars PROVE IInv'
  OBVIOUS
<1>1. UNCHANGED <<from, to, untracked, against, worktree, schema, phase, changed,
                  affected, wholeFileDone, counts, findings, edited>>
  BY DEF vars, trees
<1>2. TypeOK' /\ StepsInOrder'
  BY <1>1 DEF IInv, TypeOK, StepsInOrder, NothingRead, NoCounts, ChangedDefinitionFile
<1>3. \A f : Second(f)' = Second(f) /\ (KeptFile(f)' <=> KeptFile(f))
  BY <1>1 DEF Second, KeptFile, Kept
<1>4. \A c, f : FileFindings(c, f)' = FileFindings(c, f)
  BY <1>1, SameFile
<1>5. SchemaIsLoaded' /\ ChangesAreTheRange' /\ AffectedAreAhead'
  BY <1>1, <1>3 DEF IInv, SchemaIsLoaded, Strictness, ChangesAreTheRange, Kept, AffectedAreAhead
<1>6. FindingsStand' /\ FoundWhenRead'
  BY <1>1, <1>3, <1>4 DEF IInv, FindingsStand, FoundWhenRead, ChangedDefinitionFile
<1>7. CountsMatchFindings' /\ IsFiniteSet(findings)'
  BY <1>1, SameCounts
<1> QED
  BY <1>2, <1>5, <1>6, <1>7 DEF IInv

LEMMA Invariant == Spec => []IInv
<1>1. IInv /\ [Next]_vars => IInv'
  BY Loads, Diffs, Resolves, FallsBack, ValidatesAffected, Returns, ValidatesFully, Edits,
     Stutters DEF Next, Step
<1> QED
  BY <1>1, Starts, PTL DEF Spec

-----------------------------------------------------------------------------
(* What the invariant says of the result. *)

\* Every record file matches the pattern of at most one collection.  Where two
\* match, the code validates under one of them, whichever the map yields first.
OneOwner == \A f \in RecordFiles : \A c, d \in Owners[f] : c = d

\* Every definition stands on its own.  The code does not look for the bases of
\* a definition among the changed files.
NoBases == \A c \in Collections : DefinedBy[c] \subseteq DefinitionFiles

\* A fault in an existing file is what reading the file finds, provided that the
\* definition is still what was loaded.
LEMMA FaultIsFinding ==
  ASSUME IInv, phase # "load", NEW x, x.file \in RecordFiles, x.col \in Owners[x.file],
         x.col \in Collections, DefinedBy[x.col] \cap edited = {}, x.kind # "missing",
         x \in FileFindings(x.col, x.file)
  PROVE  x \in Faults(worktree)
<1> DEFINE a == [col |-> x.col, file |-> x.file]
           level == Strictness(worktree, a.col)
<1>1. a \in {b \in [col : Collections, file : RecordFiles] : b.col \in Owners[b.file]}
  OBVIOUS
<1>2. schema[x.col] = level
  BY DEF IInv, SchemaIsLoaded
<1>3. x \in IF worktree[a.file] = Garbage THEN {Finding("file", a.col, a.file, NoKey)}
            ELSE IF worktree[a.file] = Absent THEN {}
            ELSE {Finding("record", a.col, a.file, k) :
                    k \in {l \in DOMAIN worktree[a.file] : ~Valid(worktree[a.file][l], level)}}
  <2>1. worktree[x.file] = Absent => x.kind = "missing"
    BY ContentsAssumption DEF FileFindings, Finding
  <2> QED BY <1>2, <2>1 DEF FileFindings, Failing
<1> QED
  BY <1>1, <1>3 DEF Faults

LEMMA KeptFilesDiffer ==
  ASSUME IInv, NEW f, KeptFile(f), f \notin edited
  PROVE  from[f] # Second(f) /\ Second(f) # Absent
<1>1. PICK change \in changed : Kept(change) /\ change.path = f
  BY DEF KeptFile
<1> QED
  BY <1>1 DEF IInv, ChangesAreTheRange

LEMMA FaultsAreOfFiles ==
  ASSUME NEW t, NEW x \in Faults(t)
  PROVE  /\ x.file \in RecordFiles /\ x.col \in Collections /\ x.col \in Owners[x.file]
         /\ t[x.file] # Absent
         /\ x \in IF t[x.file] = Garbage THEN {Finding("file", x.col, x.file, NoKey)}
                  ELSE {Finding("record", x.col, x.file, k) :
                          k \in {l \in DOMAIN t[x.file] :
                                   ~Valid(t[x.file][l], Strictness(t, x.col))}}
<1>1. PICK a \in [col : Collections, file : RecordFiles] :
        /\ a.col \in Owners[a.file]
        /\ x \in IF t[a.file] = Garbage THEN {Finding("file", a.col, a.file, NoKey)}
                 ELSE IF t[a.file] = Absent THEN {}
                 ELSE {Finding("record", a.col, a.file, k) :
                         k \in {l \in DOMAIN t[a.file] :
                                  ~Valid(t[a.file][l], Strictness(t, a.col))}}
  BY DEF Faults
<1>2. x.col = a.col /\ x.file = a.file
  BY <1>1 DEF Finding
<1>3. t[a.file] # Absent
  BY <1>1, ContentsAssumption
<1> QED
  BY <1>1, <1>2, <1>3

\* The same file under the same definitions has the same faults.
LEMMA SameFaults ==
  ASSUME NEW t, NEW u, NEW x \in Faults(t),
         \A f \in {x.file} \cup DefinedBy[x.col] : t[f] = u[f]
  PROVE  x \in Faults(u)
<1> DEFINE a == [col |-> x.col, file |-> x.file]
<1>1. a \in {b \in [col : Collections, file : RecordFiles] : b.col \in Owners[b.file]}
  BY FaultsAreOfFiles
<1>2. Strictness(u, x.col) = Strictness(t, x.col)
  BY DEF Strictness
<1>3. t[x.file] # Absent
  BY FaultsAreOfFiles
<1>4. x \in IF t[x.file] = Garbage THEN {Finding("file", x.col, x.file, NoKey)}
            ELSE {Finding("record", x.col, x.file, k) :
                    k \in {l \in DOMAIN t[x.file] :
                             ~Valid(t[x.file][l], Strictness(t, x.col))}}
  BY FaultsAreOfFiles
<1>5. x \in IF u[a.file] = Garbage THEN {Finding("file", a.col, a.file, NoKey)}
            ELSE IF u[a.file] = Absent THEN {}
            ELSE {Finding("record", a.col, a.file, k) :
                    k \in {l \in DOMAIN u[a.file] :
                             ~Valid(u[a.file][l], Strictness(u, a.col))}}
  BY <1>2, <1>3, <1>4
<1> QED
  BY <1>1, <1>5 DEF Faults

\* A fault of the range is found in a file with one owner, under a definition
\* whose bases the range leaves alone.
LEMMA NewFaultIsFound ==
  ASSUME IInv, phase = "done", NEW x \in Faults(worktree), x \notin Faults(from),
         Still(x), \A f \in {x.file} \cup DefinedBy[x.col] : worktree[f] = Second(f),
         Owners[x.file] = {x.col},
         \A b \in DefinedBy[x.col] \cap Bases : from[b] = Second(b)
  PROVE  x \in findings
<1>1. /\ x.file \in RecordFiles /\ x.col \in Collections /\ x.col \in Owners[x.file]
      /\ worktree[x.file] # Absent
  BY FaultsAreOfFiles
<1>2. x \in FileFindings(x.col, x.file)
  <2>1. schema[x.col] = Strictness(worktree, x.col)
    BY <1>1 DEF IInv, SchemaIsLoaded, Still
  <2>2. x \in IF worktree[x.file] = Garbage THEN {Finding("file", x.col, x.file, NoKey)}
              ELSE {Finding("record", x.col, x.file, k) :
                      k \in {l \in DOMAIN worktree[x.file] :
                               ~Valid(worktree[x.file][l], Strictness(worktree, x.col))}}
    BY FaultsAreOfFiles
  <2> QED BY <1>1, <2>1, <2>2 DEF FileFindings, Failing
<1>3. x.file \notin edited /\ DefinedBy[x.col] \cap edited = {}
  BY DEF Still
<1>4. ChangedDefinitionFile => x \in findings
  BY <1>1, <1>2, <1>3 DEF IInv, FoundWhenRead
<1>5. CASE from[x.file] # worktree[x.file]
  <2>1. KeptFile(x.file)
    BY <1>1, <1>3, <1>5 DEF IInv, ChangesAreTheRange, Files
  <2> QED
    BY <1>1, <1>2, <1>3, <1>4, <2>1 DEF IInv, FoundWhenRead
<1>6. CASE from[x.file] = worktree[x.file]
  <2>1. PICK d \in DefinedBy[x.col] : from[d] # worktree[d]
    BY <1>6, SameFaults
  <2>2. d \in SchemaFiles /\ d \notin Bases
    BY <1>1, <2>1, FilesAssumption
  <2>3. d \in DefinitionFiles /\ d \in Files \ edited
    BY <1>3, <2>2 DEF SchemaFiles, Files
  <2>4. Second(d) # Absent
    BY <2>1, <2>2, <2>3, TreeHolds DEF IInv, TypeOK
  <2>5. KeptFile(d)
    BY <2>1, <2>3, <2>4 DEF IInv, ChangesAreTheRange
  <2>6. ChangedDefinitionFile
    BY <2>3, <2>5 DEF KeptFile, ChangedDefinitionFile
  <2> QED BY <1>4, <2>6
<1> QED
  BY <1>5, <1>6

-----------------------------------------------------------------------------
(* The theorems. *)

\* ValidateChanges keeps its variables within the values of their Go types.
THEOREM TypeCorrect == Spec => []TypeOK
<1>1. IInv => TypeOK
  BY DEF IInv
<1> QED
  BY <1>1, Invariant, PTL

\* Whatever is validated, in part or in full, and whatever is edited meanwhile:
\* the counts that ValidateChanges reports for a collection and the findings it
\* reports for it tell one story.
THEOREM CountsAreRight == Spec => []CountsMatchFindings
<1>1. IInv => CountsMatchFindings
  BY DEF IInv
<1> QED
  BY <1>1, Invariant, PTL

\* What ValidateChanges reports of files that nobody edits meanwhile is wrong
\* with them on disk, under the definitions on disk; it misses no deleted file.
THEOREM NothingIsMadeUp == Spec => []FindingsAreFaults
<1>1. ASSUME IInv, phase = "done", NEW f \in findings, Still(f)
      PROVE  IF f.kind = "missing" THEN worktree[f.file] = Absent /\ Second(f.file) # Absent
             ELSE f \in Faults(worktree)
  <2>1. f \in FileFindings(f.col, f.file) /\ f.file \in RecordFiles /\ f.col \in Collections
    BY <1>1 DEF IInv, FindingsStand, Still
  <2>2. CASE f.kind = "missing"
    <3>1. worktree[f.file] = Absent
      BY <2>1, <2>2 DEF FileFindings, Finding
    <3>2. KeptFile(f.file)
      BY <1>1, <2>2 DEF IInv, FindingsStand
    <3>3. Second(f.file) # Absent
      BY <1>1, <3>2, KeptFilesDiffer DEF Still
    <3> QED BY <2>2, <3>1, <3>3
  <2>3. CASE f.kind # "missing"
    <3>1. f.col \in Owners[f.file] /\ phase # "load" /\ DefinedBy[f.col] \cap edited = {}
      BY <1>1 DEF IInv, TypeOK, Still
    <3>2. f \in Faults(worktree)
      BY <1>1, <2>1, <2>3, <3>1, FaultIsFinding
    <3> QED BY <2>3, <3>2
  <2> QED BY <2>2, <2>3
<1>2. IInv => FindingsAreFaults
  BY <1>1 DEF FindingsAreFaults
<1> QED
  BY <1>2, Invariant, PTL

\* Where no definition file changes in the range, ValidateChanges reports nothing
\* about a record file outside of it.
THEOREM NothingElseIsRead == Spec => []OnlyTheRange
<1>1. ASSUME IInv, \A f \in DefinitionFiles : f \notin edited /\ from[f] = Second(f),
             NEW x \in findings
      PROVE  x.file \in edited \/ from[x.file] # Second(x.file)
  <2>1. ~ChangedDefinitionFile
    BY <1>1 DEF IInv, ChangesAreTheRange, ChangedDefinitionFile
  <2>2. KeptFile(x.file)
    BY <1>1, <2>1 DEF IInv, FindingsStand
  <2> QED
    BY <1>1, <2>2, KeptFilesDiffer
<1>2. IInv => OnlyTheRange
  BY <1>1 DEF OnlyTheRange
<1> QED
  BY <1>2, Invariant, PTL

\* What the changed files alone tell: a fault that the range brought is found,
\* provided that its file has one owner and the range leaves the bases of its
\* definition alone.
OwnedFaultsAreFound ==
  phase = "done" =>
    \A fault \in Faults(worktree) \ Faults(from) :
      /\ Still(fault)
      /\ \A f \in {fault.file} \cup DefinedBy[fault.col] : worktree[f] = Second(f)
      /\ Owners[fault.file] = {fault.col}
      /\ \A b \in DefinedBy[fault.col] \cap Bases : from[b] = Second(b)
      => fault \in findings

\* ValidateChanges finds every fault that the range brought to a file with one
\* owner, by the records or by the definition itself.
THEOREM OwnedFaults == Spec => []OwnedFaultsAreFound
<1>1. IInv => OwnedFaultsAreFound
  BY NewFaultIsFound DEF OwnedFaultsAreFound
<1> QED
  BY <1>1, Invariant, PTL

\* ValidateChanges finds every fault that the range brought, in a database where
\* no two collections match one file and no definition has a base.
THEOREM NothingIsLost ==
  ASSUME OneOwner, NoBases
  PROVE  Spec => []NewFaultsAreFound
<1>1. OwnedFaultsAreFound => NewFaultsAreFound
  <2>1. ASSUME NEW x \in Faults(worktree)
        PROVE  Owners[x.file] = {x.col} /\ DefinedBy[x.col] \cap Bases = {}
    <3>1. x.file \in RecordFiles /\ x.col \in Collections /\ x.col \in Owners[x.file]
      BY FaultsAreOfFiles
    <3> QED
      BY <3>1, FilesAssumption DEF OneOwner, NoBases
  <2> QED
    BY <2>1 DEF OwnedFaultsAreFound, NewFaultsAreFound
<1> QED
  BY <1>1, OwnedFaults, PTL
=============================================================================
