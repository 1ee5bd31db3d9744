------------------------ MODULE DefinitionLoaderProofs ------------------------
(***************************************************************************)
(* Theorems about DefinitionLoader and the configuration it reads, for any *)
(* databases on disk, any tree of collections, any chains of bases, and    *)
(* any writer.                                                             *)
(***************************************************************************)
EXTENDS DefinitionLoader, FiniteSetTheorems, SequenceTheorems,
        WellFoundedInduction, TLAPS

-----------------------------------------------------------------------------
(* The inductive invariant: the configuration. *)

Marker(file) == file \in {Missing, Unreadable, NoBytes}

\* what is on disk, and what the configuration is made of
ConfigTypes ==
  /\ Root \in DOMAIN collections
  /\ \A place \in DOMAIN collections : Marker(collections[place]) \/ Map(collections[place])
  /\ \A entries \in pending \cup writing : Map(entries)
  /\ settings \in {"fine", "invalid", "unreadable"} /\ validating \in BOOLEAN
  /\ Map(config) /\ imports \subseteq DOMAIN config
  /\ reading \in {"begun", "resolving", "read", "rejected"}
  /\ reading = "begun" => config = NoEntries /\ imports = {}
  /\ reading = "read" => imports = {}

\* the imports that have been resolved
Handled == ImportsOf(Entries) \ imports

\* what the configuration holds while imports are resolved
Imports ==
  reading \in {"resolving", "read"} =>
    /\ SoundSettings /\ SoundFile
    /\ ~Nested =>
         /\ imports \subseteq ImportsOf(Entries)
         /\ Handled \subseteq Sources
         /\ DOMAIN config =
              (DOMAIN Entries \ Handled) \cup UNION {DOMAIN Brought(key) : key \in Handled}
         /\ \A id \in DOMAIN config :
              \/ \E key \in Handled :
                   id \in DOMAIN Brought(key) /\ config[id] = Brought(key)[id]
              \/ /\ \A key \in Handled : id \notin DOMAIN Brought(key)
                 /\ config[id] = Entries[id]

Rejected == reading = "rejected" /\ ~Nested => ~ConfigAcceptable

-----------------------------------------------------------------------------
(* The inductive invariant: the collections under way. *)

Frames ==
  [dir : Dirs, seen : Seq(Files), chain : Seq(Definition),
   step : {"read", "inherit", "subs"}, subs : SUBSET Dirs]

LoadTypes ==
  /\ files \in [Files -> Definition \cup {Absent, Garbage}]
  /\ layout \in [Roots -> {"perCollection", "shared", "both"}]
  /\ views \in [Dirs -> ViewStates] /\ unlisted \subseteq Dirs
  /\ env \in [legacy : BOOLEAN, subscribers : {"fine", "invalid", "unreadable"}]
  /\ waiting \subseteq DOMAIN config
  /\ stack \in Seq(Frames)
  /\ raised \in {"no", "notExist", "other"}
  /\ loaded \in [Dirs -> Definition \cup {Absent}]
  /\ status \in {"configuring", "loading", "loaded", "failed"}
  /\ status = "configuring" => /\ reading # "read" /\ waiting = {} /\ stack = <<>>
                               /\ raised = "no" /\ Loaded = {}
  /\ status # "configuring" =>
       \/ reading = "read"
       \/ status = "failed" /\ reading = "rejected" /\ stack = <<>> /\ raised = "no"

\* a chain of files, each of which inherits from the next
Walks(s) ==
  /\ s \in Seq(Files) /\ s # <<>>
  /\ \A i \in DOMAIN s : files[s[i]] \in Definition
  /\ \A i \in DOMAIN s \ {1} : s[i] = files[s[i - 1]].inherits
  /\ \A i, j \in DOMAIN s : s[i] = s[j] => i = j
Ends(s) == files[s[Len(s)]].inherits = NoFile

\* of each field, def says what the nearest file that sets it says, from the
\* n-th on
Sets(s, n, i, g) == files[s[i]].fields[g] # Unset /\ (i > n => g \in Inherited)
Says(def, s, n) ==
  \A g \in Fields :
    \/ /\ def.fields[g] = Unset
       /\ \A i \in n..Len(s) : ~Sets(s, n, i, g)
    \/ \E i \in n..Len(s) :
         /\ Sets(s, n, i, g)
         /\ def.fields[g] = files[s[i]].fields[g]
         /\ \A j \in n..(i - 1) : ~Sets(s, n, j, g)

\* the chain of a frame has been read, and overlaid from its far end
Chained(F) ==
  LET n == Len(F.chain)
      m == Len(F.seen)
  IN /\ n \in 1..m
     /\ Walks(F.seen) /\ F.seen[1] = F.dir
     /\ \A i \in 1..(n - 1) : F.chain[i] = files[F.seen[i]]
     /\ n = m => F.chain[n] = files[F.seen[n]]
     /\ n < m => F.chain[n].inherits = NoFile /\ Ends(F.seen)
     /\ Says(F.chain[n], F.seen, n)
Overlays ==
  \A i \in DOMAIN stack :
    /\ stack[i].step # "read" => Chained(stack[i]) /\ LayoutOf(stack[i].dir) # "both"
    /\ stack[i].step = "subs" => /\ Len(stack[i].chain) = 1
                                 /\ stack[i].chain[1].inherits = NoFile
                                 /\ validating => Complete(stack[i].chain[1])
                                 /\ stack[i].dir \notin unlisted
\* what has been loaded has been read along a chain that ends
Settled ==
  \A d \in Loaded : \E s \in Seq(Files) :
    Walks(s) /\ Ends(s) /\ s[1] = d /\ Says(loaded[d], s, 1)

-----------------------------------------------------------------------------
(* The inductive invariant: the tree of collections. *)

\* the innermost collection is the one at work, and each is below the one before
Nesting ==
  /\ stack # <<>> => stack[1].dir \in RootDirs
  /\ \A i \in DOMAIN stack : stack[i].subs \subseteq Subs(stack[i].dir)
  /\ \A i \in DOMAIN stack : i < Len(stack) => /\ stack[i].step = "subs"
                                               /\ Parent[stack[i + 1].dir] = stack[i].dir

\* what is loaded should be, if nothing above it is skipped
Wanted ==
  \A d \in Loaded :
    /\ d \in Reached /\ d \in Kept /\ Tolerated(d)
    /\ Parent[d] \in Dirs => Parent[d] \in Loaded \/ \E i \in DOMAIN stack : stack[i].dir = Parent[d]

\* nothing is left out on the way but what may be skipped
Harmless(d) == d \notin Kept /\ \A e \in Under(d) \cap Reached : Tolerated(e)
Done(d) == d \in Loaded \/ Harmless(d)
NoneLeftOut ==
  /\ \A d \in Loaded : \A e \in Subs(d) : Done(e)
  /\ \A i \in DOMAIN stack :
       stack[i].step = "subs" =>
         \A e \in Subs(stack[i].dir) \ stack[i].subs :
           Done(e) \/ (i < Len(stack) /\ stack[i + 1].dir = e)
  /\ reading = "read" => \A id \in DOMAIN config \ waiting :
       /\ ~HoldsWild(Spelled(config[id]))
       /\ \E d \in DirsFor(config[id]) : d \in Loaded \/ (stack # <<>> /\ stack[1].dir = d)

\* an error has a reason
Reasons ==
  /\ raised = "other" => ~TreeAcceptable
  /\ raised = "notExist" =>
       IF stack = <<>> THEN ~TreeAcceptable
       ELSE Here.dir \notin Kept /\ (Skippable(Here.dir) => Harmless(Here.dir))
\* the load ended with one
Ended ==
  /\ status = "loaded" => ConfigAcceptable \/ Nested
  /\ status = "loaded" => TreeAcceptable /\ Loaded = Expected
  /\ status = "failed" /\ ~Nested => ~ConfigAcceptable \/ (reading = "read" /\ ~TreeAcceptable)

IInv ==
  /\ ConfigTypes /\ Imports /\ Rejected
  /\ LoadTypes /\ Overlays /\ Settled
  /\ Nesting /\ Wanted /\ NoneLeftOut /\ Reasons /\ Ended

-----------------------------------------------------------------------------
(* Lemmas about the configuration. *)

\* What is read is as it was as long as nobody writes.
LEMMA GivenStands ==
  ASSUME UNCHANGED given
  PROVE  /\ Entries' = Entries /\ \A place : FileAt(place)' = FileAt(place)
         /\ \A key : Brought(key)' = Brought(key)
         /\ Sources' = Sources /\ Nested' = Nested
         /\ SoundSettings' = SoundSettings /\ SoundFile' = SoundFile
         /\ ConfigAcceptable' = ConfigAcceptable
<1>1. collections' = collections /\ settings' = settings /\ validating' = validating
  BY DEF given
<1>2. \A place : FileAt(place)' = FileAt(place)
  BY <1>1 DEF FileAt
<1>3. Entries' = Entries
  BY <1>1 DEF Entries, FileAt
<1>4. \A key : Brought(key)' = Brought(key)
  BY <1>1 DEF Brought, Entries, FileAt, Imported
<1>5. Sources' = Sources
  BY <1>1 DEF Sources, Entries, FileAt
<1>6. Nested' = Nested
  BY <1>3, <1>4, <1>5 DEF Nested, Claimed
<1>7. SoundSettings' = SoundSettings /\ SoundFile' = SoundFile
  BY <1>1 DEF SoundSettings, SoundFile, Entries, FileAt
<1>8. ConfigAcceptable' = ConfigAcceptable
  BY <1>1 DEF ConfigAcceptable, Entries, FileAt
<1> QED
  BY <1>2, <1>3, <1>4, <1>5, <1>6, <1>7, <1>8

\* A file holds a map, or cannot be read as one.
LEMMA FilesAreMaps ==
  ASSUME ConfigTypes
  PROVE  /\ \A place : Marker(FileAt(place)) \/ Map(FileAt(place))
         /\ Map(Entries) /\ Map(NoEntries)
<1>1. \A place : Marker(FileAt(place)) \/ Map(FileAt(place))
  BY DEF ConfigTypes, FileAt, Marker
<1>2. Map(NoEntries)
  BY DEF Map, NoEntries
<1> QED
  BY <1>1, <1>2 DEF Entries, Marker

\* What an import brings has a path for each id.
LEMMA ImportedIsMap ==
  ASSUME NEW key \in Ids, NEW path \in Locations, NEW file, Map(file)
  PROVE  Map(Imported(key, path, file))
<1> DEFINE news == {Renamed(key, id) : id \in DOMAIN file}
           old(new) == CHOOSE id \in DOMAIN file : Renamed(key, id) = new
<1>0. \A s, t \in Seq(STRING) : s \o t \in Seq(STRING)
  BY ConcatProperties
<1>1. \A id \in Ids : Renamed(key, id) \in Ids
  <2> TAKE id \in Ids
  <2>1. key.name \o id.name \in Seq(STRING)
    BY <1>0 DEF Ids
  <2> QED BY <2>1 DEF Renamed, Ids
<1>2. \A new \in news : old(new) \in DOMAIN file
  OBVIOUS
<1>3. \A to \in Locations : Join(path, to) \in Locations
  <2> TAKE to \in Locations
  <2>a. \A S : \A x \in S : <<x>> \in Seq(S)
    OBVIOUS
  <2>b. <<Tilde>> \in Seq(STRING) /\ to.to \in Seq(STRING)
    BY <2>a, PlaceAssumption, Zenon DEF Locations
  <2>1. Spelled(to) \in Seq(STRING)
    BY <1>0, <2>b, Zenon DEF Spelled
  <2>2. path.to \o Spelled(to) \in Seq(STRING)
    BY <1>0, <2>1 DEF Locations
  <2> QED BY <2>2 DEF Join, Locations
<1>4. Imported(key, path, file) = [new \in news |-> Join(path, file[old(new)])]
  BY DEF Imported
<1>5. \A new \in news : Join(path, file[old(new)]) \in Locations
  BY <1>2, <1>3 DEF Map
<1>6. news \subseteq Ids
  BY <1>1 DEF Map
<1> HIDE DEF news, old
<1> QED
  BY <1>4, <1>5, <1>6 DEF Map

LEMMA WithIsMap ==
  ASSUME NEW entries, Map(entries), NEW more, Map(more)
  PROVE  Map(With(entries, more)) /\ DOMAIN With(entries, more) = DOMAIN entries \cup DOMAIN more
BY DEF Map, With

\* A file that was read has sound entries when that was asked for, and the other
\* way around.
LEMMA AcceptableConfig ==
  ASSUME ConfigTypes
  PROVE  ConfigAcceptable <=>
           SoundSettings /\ SoundFile /\ Sources = ImportsOf(Entries)
<1>1. (\A id, other \in DOMAIN Entries :
         /\ id.name # <<>> /\ ~HoldsWild(id.name) /\ Entries[id] # Relative(<<>>)
         /\ id.isImport \/ ~HoldsWild(Entries[id].to)
         /\ id # other => Entries[id] # Entries[other])
      <=> SoundEntries(Entries)
  BY DEF SoundEntries, SoundEntry
<1>2. SoundSettings <=> settings \in IF validating THEN {"fine"} ELSE {"fine", "invalid"}
  BY DEF ConfigTypes, SoundSettings
<1>3. Sources = ImportsOf(Entries) <=>
        \A key \in ImportsOf(Entries) :
          FileAt(Resolved(Entries[key])) \notin {Missing, Unreadable, NoBytes, NoEntries}
  BY DEF Sources, Importable
<1> QED
  BY <1>1, <1>2, <1>3 DEF ConfigAcceptable, SoundFile

-----------------------------------------------------------------------------
(* Steps of the configuration. *)

LEMMA ConfigStarts ==
  ASSUME Init
  PROVE  ConfigTypes /\ Imports /\ Rejected
<1>a. PICK i \in DOMAIN Cases : \E c \in Cases[i] :
        /\ collections = c.config.collections /\ settings = c.config.settings
        /\ validating = c.config.validating /\ pending = c.config.pending
  BY DEF Init
<1>1. PICK c \in Cases[i] :
        /\ collections = c.config.collections /\ settings = c.config.settings
        /\ validating = c.config.validating /\ pending = c.config.pending
  BY <1>a
<1>2. Database(c)
  BY CaseAssumption
<1>3. writing = {} /\ config = NoEntries /\ imports = {} /\ reading = "begun"
  BY DEF Init, ConfigInit
<1>4. Map(NoEntries)
  BY DEF Map, NoEntries
<1>5. Root \in DOMAIN collections
      /\ \A place \in DOMAIN collections : Marker(collections[place]) \/ Map(collections[place])
  BY <1>1, <1>2 DEF Database, Marker
<1>6. /\ settings \in {"fine", "invalid", "unreadable"} /\ validating \in BOOLEAN
      /\ \A entries \in pending : Map(entries)
  BY <1>1, <1>2 DEF Database
<1> QED
  BY <1>3, <1>4, <1>5, <1>6 DEF ConfigTypes, Imports, Rejected

LEMMA ReadingStep ==
  ASSUME ConfigTypes, ReadRootConfig
  PROVE  (ConfigTypes /\ Imports /\ Rejected)'
<1>0. UNCHANGED <<given, pending, writing>>
  BY DEF ReadRootConfig, writer
<1>1. Entries' = Entries /\ (\A key : Brought(key)' = Brought(key))
      /\ SoundSettings' = SoundSettings /\ SoundFile' = SoundFile
  BY <1>0, GivenStands
<1>2. /\ config' = Entries /\ imports' = ImportsOf(Entries) /\ reading' = "resolving"
      /\ SoundSettings /\ SoundFile
  BY DEF ReadRootConfig
<1>3. ConfigTypes'
  BY <1>0, <1>2, FilesAreMaps DEF ConfigTypes, given, ImportsOf, Map, Marker
<1>4. Handled' = {}
  BY <1>1, <1>2 DEF Handled, ImportsOf
<1>5. Imports'
  BY <1>1, <1>2, <1>4 DEF Imports, ImportsOf
<1> QED
  BY <1>2, <1>3, <1>5 DEF Rejected

LEMMA RejectingStep ==
  ASSUME ConfigTypes, RejectConfig
  PROVE  (ConfigTypes /\ Imports /\ Rejected)'
<1>0. UNCHANGED <<given, pending, writing, config, imports>> /\ reading' = "rejected"
  BY DEF RejectConfig, writer
<1>1. ConfigTypes'
  BY <1>0 DEF ConfigTypes, given, Map, Marker
<1>2. ~ConfigAcceptable
  BY AcceptableConfig DEF RejectConfig
<1>3. ~ConfigAcceptable'
  BY <1>0, <1>2, GivenStands
<1> QED
  BY <1>0, <1>1, <1>3 DEF Imports, Rejected

\* What the import key, the next to be resolved, still says.
LEMMA UnresolvedIsDeclared ==
  ASSUME ConfigTypes, Imports, reading = "resolving", ~Nested, NEW key \in imports
  PROVE  /\ key \in ImportsOf(Entries) /\ config[key] = Entries[key]
         /\ \A other \in Sources : key \notin DOMAIN Brought(other)
<1>1. key \in ImportsOf(Entries) /\ key \in DOMAIN config /\ Handled \subseteq Sources
  BY DEF Imports, ConfigTypes
<1>2. \A other \in Sources : key \notin DOMAIN Brought(other)
  BY <1>1 DEF Nested, Claimed
<1> QED
  BY <1>1, <1>2 DEF Imports

LEMMA ImportStep ==
  ASSUME ConfigTypes, Imports, NEW key \in imports, ResolveImport(key)
  PROVE  (ConfigTypes /\ Imports /\ Rejected)'
<1> DEFINE file == FileAt(Resolved(config[key]))
           rest == [id \in DOMAIN config \ {key} |-> config[id]]
           more == Imported(key, config[key], file)
<1>0. /\ UNCHANGED <<given, pending, writing, reading>> /\ reading = "resolving"
      /\ Importable(file) /\ config' = With(rest, more) /\ imports' = imports \ {key}
  BY DEF ResolveImport, writer
<1>1. Entries' = Entries /\ (\A k : Brought(k)' = Brought(k)) /\ Nested' = Nested
      /\ SoundSettings' = SoundSettings /\ SoundFile' = SoundFile /\ Sources' = Sources
  BY <1>0, GivenStands
<1>2. key \in DOMAIN config /\ key \in Ids /\ config[key] \in Locations
  BY DEF ConfigTypes, Map
<1>3. Map(file)
  BY <1>0, FilesAreMaps DEF Importable, Marker
<1>4. Map(more)
  BY <1>2, <1>3, ImportedIsMap
<1>5. Map(rest)
  BY DEF ConfigTypes, Map
<1>6. /\ DOMAIN rest = DOMAIN config \ {key}
      /\ \A id \in DOMAIN rest : rest[id] = config[id]
  OBVIOUS
<1> HIDE DEF file, rest, more
<1>7. /\ Map(config') /\ DOMAIN config' = DOMAIN rest \cup DOMAIN more
      /\ \A id \in DOMAIN config' : config'[id] = IF id \in DOMAIN more THEN more[id] ELSE rest[id]
  BY <1>0, <1>4, <1>5, WithIsMap DEF With
<1>8. imports' \subseteq DOMAIN config'
  BY <1>0, <1>6, <1>7 DEF ConfigTypes
<1>9. ConfigTypes'
  BY <1>0, <1>7, <1>8 DEF ConfigTypes, given, Map, Marker
<1>10. ASSUME ~Nested
       PROVE  /\ (imports \subseteq ImportsOf(Entries))'
              /\ (Handled \subseteq Sources)'
              /\ DOMAIN config' = (DOMAIN Entries \ Handled') \cup UNION {DOMAIN Brought(k) : k \in Handled'}
              /\ \A id \in DOMAIN config' :
                   \/ \E k \in Handled' : id \in DOMAIN Brought(k) /\ config'[id] = Brought(k)[id]
                   \/ /\ \A k \in Handled' : id \notin DOMAIN Brought(k)
                      /\ config'[id] = Entries[id]
  <2>1. /\ imports \subseteq ImportsOf(Entries) /\ Handled \subseteq Sources
        /\ DOMAIN config = (DOMAIN Entries \ Handled) \cup UNION {DOMAIN Brought(k) : k \in Handled}
        /\ \A id \in DOMAIN config :
              \/ \E k \in Handled : id \in DOMAIN Brought(k) /\ config[id] = Brought(k)[id]
              \/ /\ \A k \in Handled : id \notin DOMAIN Brought(k)
                 /\ config[id] = Entries[id]
    BY <1>0, <1>10 DEF Imports
  <2>2. /\ key \in ImportsOf(Entries) /\ config[key] = Entries[key]
        /\ \A other \in Sources : key \notin DOMAIN Brought(other)
    BY <1>0, <1>10, UnresolvedIsDeclared
  <2>3. more = Brought(key) /\ key \in Sources
    BY <1>0, <2>2 DEF Brought, Sources, more, file
  <2>4. Handled' = Handled \cup {key}
    BY <1>0, <1>1, <2>2 DEF Handled
  <2>5. (imports \subseteq ImportsOf(Entries))' /\ (Handled \subseteq Sources)'
    BY <1>0, <1>1, <2>1, <2>3, <2>4
  <2>6. UNION {DOMAIN Brought(k) : k \in Handled'}
          = DOMAIN Brought(key) \cup UNION {DOMAIN Brought(k) : k \in Handled}
    <3> DEFINE ids(k) == DOMAIN Brought(k)
               all(ks) == UNION {ids(k) : k \in ks}
    <3>1. \A ks, id : id \in all(ks) <=> \E k \in ks : id \in ids(k)
      OBVIOUS
    <3>2. \A id : (\E k \in Handled' : id \in ids(k))
                    <=> (\E k \in Handled : id \in ids(k)) \/ id \in ids(key)
      BY <2>4, Zenon
    <3>3. \A id : id \in all(Handled') <=> id \in all(Handled) \/ id \in ids(key)
      BY <3>1, <3>2, Zenon
    <3> HIDE DEF all, ids
    <3>4. all(Handled') = ids(key) \cup all(Handled)
      BY <3>3
    <3> QED BY <3>4 DEF all, ids
  <2>7. DOMAIN config' = (DOMAIN Entries \ Handled') \cup UNION {DOMAIN Brought(k) : k \in Handled'}
    <3>1. key \notin UNION {DOMAIN Brought(k) : k \in Handled}
      BY <2>1, <2>2
    <3> QED BY <1>6, <1>7, <2>1, <2>3, <2>4, <2>6, <3>1
  <2>8. ASSUME NEW id \in DOMAIN config'
        PROVE  \/ \E k \in Handled' : id \in DOMAIN Brought(k) /\ config'[id] = Brought(k)[id]
               \/ /\ \A k \in Handled' : id \notin DOMAIN Brought(k)
                  /\ config'[id] = Entries[id]
    <3>1. CASE id \in DOMAIN more
      BY <1>7, <2>3, <2>4, <3>1
    <3>2. CASE id \notin DOMAIN more
      <4>1. id \in DOMAIN config /\ config'[id] = config[id]
        BY <1>6, <1>7, <3>2
      <4> QED BY <2>1, <2>3, <2>4, <3>2, <4>1
    <3> QED BY <3>1, <3>2
  <2> QED BY <2>5, <2>7, <2>8
<1>11. Imports'
  BY <1>0, <1>1, <1>10 DEF Imports
<1> QED
  BY <1>0, <1>9, <1>11 DEF Rejected

LEMMA RejectedImportStep ==
  ASSUME ConfigTypes, Imports, NEW key \in imports, RejectImport(key)
  PROVE  (ConfigTypes /\ Imports /\ Rejected)'
<1>0. /\ UNCHANGED <<given, pending, writing, config, imports>> /\ reading' = "rejected"
      /\ reading = "resolving" /\ ~Importable(FileAt(Resolved(config[key])))
  BY DEF RejectImport, writer
<1>1. ConfigTypes'
  BY <1>0 DEF ConfigTypes, given, Map, Marker
<1>2. ASSUME ~Nested
      PROVE  ~ConfigAcceptable
  BY <1>0, <1>2, UnresolvedIsDeclared, AcceptableConfig DEF Sources
<1>3. Nested' = Nested /\ ConfigAcceptable' = ConfigAcceptable
  BY <1>0, GivenStands
<1> QED
  BY <1>0, <1>1, <1>2, <1>3 DEF Imports, Rejected

LEMMA FinishingStep ==
  ASSUME ConfigTypes, Imports, FinishReading
  PROVE  (ConfigTypes /\ Imports /\ Rejected)'
<1>0. /\ UNCHANGED <<given, pending, writing, config, imports>> /\ reading' = "read"
      /\ reading = "resolving" /\ imports = {}
  BY DEF FinishReading, writer
<1>1. ConfigTypes'
  BY <1>0 DEF ConfigTypes, given, Map, Marker
<1>2. Entries' = Entries /\ (\A k : Brought(k)' = Brought(k)) /\ Nested' = Nested
      /\ SoundSettings' = SoundSettings /\ SoundFile' = SoundFile /\ Sources' = Sources
  BY <1>0, GivenStands
<1>3. Handled' = Handled
  BY <1>0, <1>2 DEF Handled
<1> QED
  BY <1>0, <1>1, <1>2, <1>3 DEF Imports, Rejected

LEMMA WritingStep ==
  ASSUME ConfigTypes, BeginWrite \/ FinishWrite
  PROVE  (ConfigTypes /\ Imports /\ Rejected)'
<1>1. reading = "begun" /\ UNCHANGED <<settings, validating, config, imports, reading>>
  BY DEF BeginWrite, FinishWrite
<1>2. /\ Root \in DOMAIN collections' /\ pending' \cup writing' \subseteq pending \cup writing
      /\ \A place \in DOMAIN collections' :
           Marker(collections'[place]) \/ Map(collections'[place])
  <2>1. CASE BeginWrite
    <3>1. collections' = [collections EXCEPT ![Root] = NoBytes] /\ Marker(NoBytes)
      BY <2>1 DEF BeginWrite, Marker
    <3>2. pending' \cup writing' \subseteq pending \cup writing
      BY <2>1 DEF BeginWrite
    <3> QED BY <3>1, <3>2 DEF ConfigTypes
  <2>2. CASE FinishWrite
    <3>1. PICK entries \in writing :
            collections' = [collections EXCEPT ![Root] =
                              IF entries = NoEntries THEN NoBytes ELSE entries]
      BY <2>2 DEF FinishWrite
    <3>2. Marker(NoBytes) /\ Map(entries)
      BY DEF ConfigTypes, Marker
    <3>3. pending' = pending /\ writing' = {}
      BY <2>2 DEF FinishWrite
    <3> QED BY <3>1, <3>2, <3>3 DEF ConfigTypes
  <2> QED BY <2>1, <2>2
<1>3. ConfigTypes'
  BY <1>1, <1>2 DEF ConfigTypes, Map, Marker
<1> QED
  BY <1>1, <1>3 DEF Imports, Rejected

LEMMA ConfigStandsStill ==
  ASSUME ConfigTypes, Imports, Rejected, UNCHANGED configVars
  PROVE  (ConfigTypes /\ Imports /\ Rejected)'
<1>0. UNCHANGED <<given, pending, writing, config, imports, reading>>
  BY DEF configVars, writer
<1>1. ConfigTypes'
  BY <1>0 DEF ConfigTypes, given, Map, Marker
<1>2. Entries' = Entries /\ (\A k : Brought(k)' = Brought(k)) /\ Nested' = Nested
      /\ SoundSettings' = SoundSettings /\ SoundFile' = SoundFile /\ Sources' = Sources
      /\ ConfigAcceptable' = ConfigAcceptable
  BY <1>0, GivenStands
<1>3. Handled' = Handled
  BY <1>0, <1>2 DEF Handled
<1> QED
  BY <1>0, <1>1, <1>2, <1>3 DEF Imports, Rejected

\* The configuration holds throughout, whatever the load does with it.
LEMMA ConfigHolds ==
  ASSUME ConfigTypes, Imports, Rejected, [Next]_vars
  PROVE  (ConfigTypes /\ Imports /\ Rejected)'
<1>1. CASE Configure
  BY <1>1, ReadingStep, RejectingStep, ImportStep, RejectedImportStep DEF Configure
<1>2. CASE StartLoad
  BY <1>2, FinishingStep DEF StartLoad
<1>3. CASE Write
  BY <1>3, WritingStep DEF Write
<1>4. CASE UNCHANGED configVars
  BY <1>4, ConfigStandsStill
<1>5. [Next]_vars => Configure \/ StartLoad \/ Write \/ UNCHANGED configVars
  BY DEF Next, LoadStep, vars, disk, RejectedConfig, EnterRoot, Raise, ReadDefinitionFile,
         LoadInheritedBase, OverlayBase, ValidateMerged, EnterSubCollection, LoadViews,
         SkipDirectory, FailLoad, RejectDefinition, ReturnDefinition, Fail
<1> QED
  BY <1>1, <1>2, <1>3, <1>4, <1>5

\* When the file has been read, and no import brought another of the same
\* name, the configuration is what the files say.
LEMMA ReadIsExact ==
  ASSUME ConfigTypes, Imports
  PROVE  ImportsAreExact
<1> SUFFICES ASSUME reading = "read", ~Nested
             PROVE  /\ DOMAIN config = Claimed
                    /\ \A id \in Claimed : config[id] \in Claims(id)
  BY DEF ImportsAreExact
<1>1. Handled = ImportsOf(Entries) /\ Handled = Sources
  BY DEF ConfigTypes, Imports, Handled, Sources
<1>2. DOMAIN config = Claimed
  BY <1>1 DEF Imports, Claimed
<1>3. ASSUME NEW id \in Claimed
      PROVE  config[id] \in Claims(id)
  <2>1. \/ \E key \in Sources : id \in DOMAIN Brought(key) /\ config[id] = Brought(key)[id]
        \/ /\ \A key \in Sources : id \notin DOMAIN Brought(key)
           /\ config[id] = Entries[id]
    BY <1>1, <1>2 DEF Imports
  <2> QED BY <2>1 DEF Claims
<1> QED
  BY <1>2, <1>3

-----------------------------------------------------------------------------
(* Lemmas about chains. *)

LEMMA Least ==
  ASSUME NEW T, T \subseteq Nat, T # {}
  PROVE  \E n \in T : \A m \in T : n <= m
<1>1. PICK n \in T : \A m \in T : <<m, n>> \notin OpToRel(<, Nat)
  BY WFMin, NatLessThanWellFounded, Zenon
<1>2. \A m \in T : ~(m < n)
  BY <1>1, Zenon DEF OpToRel
<1> QED
  BY <1>2

\* A set that holds 0, and with each number the next, holds every number.
LEMMA Inductive ==
  ASSUME NEW N \in Nat, NEW S, 0 \in S, \A n \in 1..N : n - 1 \in S => n \in S
  PROVE  \A n \in 0..N : n \in S
<1> SUFFICES ASSUME (0..N) \ S # {}
             PROVE  FALSE
  OBVIOUS
<1> DEFINE T == (0..N) \ S
<1>1. T \subseteq Nat /\ T # {}
  OBVIOUS
<1> HIDE DEF T
<1>2. PICK n \in T : \A m \in T : n <= m
  BY <1>1, Least
<1>3. n \in 1..N /\ n - 1 \notin T
  BY <1>1, <1>2 DEF T
<1> QED
  BY <1>2, <1>3 DEF T

\* Of some directories there is a first.
LEMMA FirstDirectory ==
  ASSUME NEW D, D \subseteq Dirs, D # {}
  PROVE  \E d \in D : \A e \in D : d <= e
<1> DEFINE before == [d \in D |-> {e \in D : e < d}]
           T == {Cardinality(before[d]) : d \in D}
<1>1. D \subseteq Int /\ IsFiniteSet(D)
  BY DirsAssumption, FS_Subset
<1>2. \A d \in D : before[d] \in SUBSET D
  OBVIOUS
<1> HIDE DEF before
<1>3. \A d \in D : IsFiniteSet(before[d]) /\ Cardinality(before[d]) \in Nat
  BY <1>1, <1>2, FS_Subset, FS_CardinalityType
<1>4. T \subseteq Nat /\ T # {}
  BY <1>3
<1>5. PICK n \in T : \A m \in T : n <= m
  <2> HIDE DEF T
  <2> QED BY <1>4, Least
<1>6. PICK d \in D : n = Cardinality(before[d])
  BY <1>5
<1>7. ASSUME NEW e \in D
      PROVE  d <= e
  <2> SUFFICES ASSUME e < d
               PROVE  FALSE
    BY <1>1
  <2>a. \A f \in D : f \in Int
    BY <1>1
  <2>b. \A f \in before[e] : f \in before[d]
    BY <2>a DEF before
  <2>c. e \in before[d] /\ e \notin before[e]
    BY <2>a DEF before
  <2>1. before[e] \in SUBSET before[d] /\ before[e] # before[d]
    BY <2>b, <2>c
  <2>2. Cardinality(before[e]) <= Cardinality(before[d])
        /\ Cardinality(before[e]) # Cardinality(before[d])
    BY <1>3, <2>1, FS_Subset
  <2>3. Cardinality(before[d]) <= Cardinality(before[e])
    BY <1>5, <1>6
  <2> QED BY <1>3, <2>2, <2>3
<1> QED
  BY <1>7

LEMMA DepthsAre ==
  Cardinality(Files) \in Nat /\ IsFiniteSet(Files)
<1>1. IsFiniteSet(Files)
  BY DirsAssumption, FS_Union DEF Files
<1> QED
  BY <1>1, FS_CardinalityType

\* The files of a chain are what the definition says.
LEMMA NthIs ==
  ASSUME NEW d
  PROVE  /\ Nth(d)[0] = d
         /\ \A n \in 1..Cardinality(Files) : Nth(d)[n] = BaseOf(Nth(d)[n - 1])
<1> DEFINE N == Cardinality(Files)
           Good(f, m) == f = [n \in 0..m |-> IF n = 0 THEN d ELSE BaseOf(f[n - 1])]
           S == {m \in 0..N : \E f : Good(f, m)}
<1>1. N \in Nat
  BY DepthsAre
<1> HIDE DEF N
<1>2. 0 \in S
  <2>1. Good([n \in 0..0 |-> d], 0)
    OBVIOUS
  <2> HIDE DEF Good
  <2> QED BY <1>1, <2>1
<1>3. ASSUME NEW m \in 1..N, m - 1 \in S
      PROVE  m \in S
  <2>1. PICK f : Good(f, m - 1)
    BY <1>3
  <2> DEFINE g == [n \in 0..m |-> IF n = m THEN BaseOf(f[m - 1]) ELSE f[n]]
  <2>2. \A n \in 0..(m - 1) : f[n] = IF n = 0 THEN d ELSE BaseOf(f[n - 1])
    BY <1>1, <2>1
  <2>3. \A n \in 0..m : g[n] = IF n = 0 THEN d ELSE BaseOf(g[n - 1])
    BY <1>1, <2>2
  <2>4. Good(g, m)
    BY <1>1, <2>3
  <2> HIDE DEF Good, g
  <2> QED BY <1>1, <2>4
<1> HIDE DEF S
<1>4. \A n \in 0..N : n \in S
  BY <1>1, <1>2, <1>3, Inductive
<1>5. PICK f : Good(f, N)
  <2>1. N \in S
    BY <1>1, <1>4
  <2> QED BY <2>1 DEF S
<1> DEFINE nth == CHOOSE h : Good(h, N)
<1>6. Good(nth, N)
  BY <1>5
<1>7. Nth(d) = nth
  BY DEF Nth, Depths, N
<1> HIDE DEF nth
<1>8. \A n \in 0..N : nth[n] = IF n = 0 THEN d ELSE BaseOf(nth[n - 1])
  BY <1>6
<1> QED
  BY <1>1, <1>7, <1>8 DEF N

\* There is nothing beyond the end of a chain.
LEMMA NothingAfterNone ==
  ASSUME NEW d, NEW n \in 0..Cardinality(Files), Nth(d)[n] = NoFile,
         NEW k \in 0..Cardinality(Files), k >= n
  PROVE  Nth(d)[k] = NoFile
<1> DEFINE N == Cardinality(Files)
           S == {m \in 0..N : m >= n => Nth(d)[m] = NoFile}
<1>1. N \in Nat
  BY DepthsAre
<1>2. ASSUME NEW m \in 1..N, m - 1 \in S
      PROVE  m \in S
  BY <1>1, <1>2, NthIs DEF BaseOf
<1>3. 0 \in S
  BY <1>1
<1> HIDE DEF S
<1>4. \A m \in 0..N : m \in S
  BY <1>1, <1>2, <1>3, Inductive
<1> QED
  BY <1>4 DEF S

\* A chain of different files is no longer than there are files.
LEMMA NoMoreThanFiles ==
  ASSUME NEW s \in Seq(Files), \A i, j \in DOMAIN s : s[i] = s[j] => i = j
  PROVE  Len(s) <= Cardinality(Files)
<1>1. Cardinality(Files) \in Nat /\ IsFiniteSet(Files) /\ Len(s) \in Nat
  BY DepthsAre
<1>2. IsFiniteSet(1..Len(s)) /\ Cardinality(1..Len(s)) = Len(s)
  <2>1. 1 \in Int /\ Len(s) \in Int /\ Len(s) >= 0
    BY <1>1
  <2> HIDE <1>1
  <2> QED BY <2>1, FS_Interval
<1>3. s \in [1..Len(s) -> Files] /\ DOMAIN s = 1..Len(s)
  OBVIOUS
<1>4. Cardinality(Files) < Len(s) => \E i, j \in 1..Len(s) : i # j /\ s[i] = s[j]
  BY <1>1, <1>2, <1>3, FS_PigeonHole
<1> QED
  BY <1>1, <1>3, <1>4

LEMMA NthOnWalk ==
  ASSUME NEW s, Walks(s)
  PROVE  /\ Len(s) \in 1..Cardinality(Files)
         /\ \A i \in DOMAIN s : Nth(s[1])[i - 1] = s[i]
         /\ Nth(s[1])[Len(s)] = files[s[Len(s)]].inherits
<1> DEFINE N == Cardinality(Files)
           S == {m \in 0..(Len(s) - 1) : Nth(s[1])[m] = s[m + 1]}
<1>1. N \in Nat /\ s \in Seq(Files) /\ Len(s) \in Nat /\ Len(s) # 0 /\ DOMAIN s = 1..Len(s)
  BY DepthsAre DEF Walks
<1>2. Len(s) \in 1..N
  BY <1>1, NoMoreThanFiles DEF Walks
<1>3. \A i \in DOMAIN s : BaseOf(s[i]) = files[s[i]].inherits
  <2> TAKE i \in DOMAIN s
  <2>1. s[i] # NoFile /\ files[s[i]] \notin {Absent, Garbage}
    BY <1>1, FileAssumption DEF Walks
  <2> QED BY <2>1 DEF BaseOf
<1>4. 0 \in S
  BY <1>1, NthIs
<1>5. ASSUME NEW m \in 1..(Len(s) - 1), m - 1 \in S
      PROVE  m \in S
  <2>1. Nth(s[1])[m] = BaseOf(Nth(s[1])[m - 1])
    BY <1>1, <1>2, NthIs
  <2>2. Nth(s[1])[m - 1] = s[m]
    BY <1>5
  <2>3. s[m + 1] = files[s[m]].inherits
    <3>1. m + 1 \in DOMAIN s \ {1} /\ (m + 1) - 1 = m
      BY <1>1
    <3> QED BY <3>1 DEF Walks
  <2>4. m \in DOMAIN s /\ m \in 0..(Len(s) - 1)
    BY <1>1
  <2> QED BY <1>3, <2>1, <2>2, <2>3, <2>4
<1>6. \A m \in 0..(Len(s) - 1) : Nth(s[1])[m] = s[m + 1]
  <2> HIDE DEF S
  <2>a. Len(s) - 1 \in Nat
    BY <1>1
  <2>1. \A m \in 0..(Len(s) - 1) : m \in S
    BY <2>a, <1>4, <1>5, Inductive
  <2> QED BY <2>1 DEF S
<1>7. \A i \in DOMAIN s : Nth(s[1])[i - 1] = s[i]
  BY <1>1, <1>6
<1>8. Nth(s[1])[Len(s)] = BaseOf(Nth(s[1])[Len(s) - 1])
  BY <1>1, <1>2, NthIs
<1> QED
  BY <1>1, <1>2, <1>3, <1>7, <1>8

\* A chain whose next file is none, or cannot be read, is all there is.
LEMMA WalkEnds ==
  ASSUME NEW s, Walks(s), Ends(s)
  PROVE  /\ ~Cyclic(s[1]) /\ ChainOf(s[1]) = {s[i] : i \in DOMAIN s}
         /\ Resolves(s[1]) /\ Readable(s[1])
<1> DEFINE d == s[1]
           N == Cardinality(Files)
<1>1. N \in Nat /\ Len(s) \in 1..N /\ s \in Seq(Files) /\ DOMAIN s = 1..Len(s)
  BY DepthsAre, NthOnWalk DEF Walks
<1>2. Nth(d)[Len(s)] = NoFile
  BY NthOnWalk DEF Ends
<1>3. \A k \in Len(s)..N : Nth(d)[k] = NoFile
  <2> TAKE k \in Len(s)..N
  <2>1. Len(s) \in 0..N /\ k \in 0..N /\ k >= Len(s)
    BY <1>1
  <2> QED BY <1>2, <2>1, NothingAfterNone
<1>4. \A k \in 0..(Len(s) - 1) : Nth(d)[k] = s[k + 1]
  <2> TAKE k \in 0..(Len(s) - 1)
  <2>1. k + 1 \in DOMAIN s /\ (k + 1) - 1 = k
    BY <1>1
  <2> QED BY <2>1, NthOnWalk
<1>5. \A i \in DOMAIN s : s[i] # NoFile /\ files[s[i]] \notin {Absent, Garbage}
  BY <1>1, FileAssumption DEF Walks
<1>6. ~Cyclic(d)
  BY <1>1, <1>3 DEF Cyclic
<1>7. ASSUME NEW f
      PROVE  f \in ChainOf(d) <=> \E i \in DOMAIN s : f = s[i]
  <2>1. f \in ChainOf(d) <=> f # NoFile /\ \E n \in 0..N : f = Nth(d)[n]
    BY DEF ChainOf, Depths
  <2>2. ASSUME NEW i \in DOMAIN s
        PROVE  s[i] = Nth(d)[i - 1] /\ i - 1 \in 0..N
    BY <1>1, <1>4
  <2>3. ASSUME NEW n \in 0..N, Nth(d)[n] # NoFile
        PROVE  n + 1 \in DOMAIN s /\ Nth(d)[n] = s[n + 1]
    BY <1>1, <1>3, <1>4, <2>3
  <2> QED BY <1>5, <2>1, <2>2, <2>3
<1>8. ChainOf(d) = {s[i] : i \in DOMAIN s}
  BY <1>7
<1>9. Resolves(d)
  BY <1>5, <1>6, <1>8 DEF Resolves
<1> QED
  BY <1>1, <1>5, <1>6, <1>8, <1>9 DEF Readable

\* What a chain that ends says of a field is what its nearest file says.
LEMMA SaysNearest ==
  ASSUME NEW s, Walks(s), Ends(s), NEW def, Says(def, s, 1), NEW g \in Fields
  PROVE  def.fields[g] = Nearest(s[1], g)
<1> DEFINE d == s[1]
           N == Cardinality(Files)
<1>1. N \in Nat /\ Len(s) \in 1..N /\ s \in Seq(Files) /\ DOMAIN s = 1..Len(s)
  BY DepthsAre, NthOnWalk DEF Walks
<1>2. \A k \in Len(s)..N : Nth(d)[k] = NoFile
  <2>1. Nth(d)[Len(s)] = NoFile
    BY NthOnWalk DEF Ends
  <2> TAKE k \in Len(s)..N
  <2>2. Len(s) \in 0..N /\ k \in 0..N /\ k >= Len(s)
    BY <1>1
  <2> QED BY <2>1, <2>2, NothingAfterNone
<1>3. \A k \in 0..(Len(s) - 1) : Nth(d)[k] = s[k + 1] /\ s[k + 1] # NoFile
  <2>1. \A i \in DOMAIN s : s[i] # NoFile
    BY <1>1, FileAssumption
  <2> QED BY <1>1, <2>1, NthOnWalk
<1>4. \A n \in 0..N : n \in Setters(d, g) <=> n < Len(s) /\ Sets(s, 1, n + 1, g)
  <2> TAKE n \in 0..N
  <2>1. n \in Setters(d, g) <=> /\ Nth(d)[n] # NoFile
                                /\ n > 0 => g \in Inherited
                                /\ files[Nth(d)[n]].fields[g] # Unset
    BY DEF Setters, Depths
  <2>2. CASE n < Len(s)
    <3>1. Nth(d)[n] = s[n + 1] /\ s[n + 1] # NoFile
      BY <1>1, <1>3, <2>2
    <3> QED BY <1>1, <2>1, <2>2, <3>1 DEF Sets
  <2>3. CASE ~(n < Len(s))
    BY <1>1, <1>2, <2>1, <2>3
  <2> QED BY <2>2, <2>3
<1>5. Setters(d, g) \subseteq 0..N
  BY DEF Setters, Depths
<1>6. CASE def.fields[g] = Unset /\ \A i \in 1..Len(s) : ~Sets(s, 1, i, g)
  <2>1. Setters(d, g) = {}
    BY <1>1, <1>4, <1>5, <1>6
  <2> QED BY <1>6, <2>1 DEF Nearest
<1>7. ASSUME NEW i \in 1..Len(s), Sets(s, 1, i, g), def.fields[g] = files[s[i]].fields[g],
             \A j \in 1..(i - 1) : ~Sets(s, 1, j, g)
      PROVE  def.fields[g] = Nearest(d, g)
  <2>1. i - 1 \in Setters(d, g)
    BY <1>1, <1>4, <1>7
  <2>2. ASSUME NEW m \in Setters(d, g)
        PROVE  i - 1 <= m
    <3>1. m \in 0..N /\ m < Len(s) /\ Sets(s, 1, m + 1, g)
      BY <1>4, <1>5
    <3> QED BY <1>1, <1>7, <3>1
  <2> DEFINE n == CHOOSE k \in Setters(d, g) : \A m \in Setters(d, g) : k <= m
  <2>3. n \in Setters(d, g) /\ \A m \in Setters(d, g) : n <= m
    BY <2>1, <2>2
  <2>4. Nearest(d, g) = files[Nth(d)[n]].fields[g]
    BY <2>1 DEF Nearest
  <2> HIDE DEF n
  <2>5. n = i - 1
    BY <1>1, <1>5, <2>1, <2>2, <2>3
  <2>6. Nth(d)[i - 1] = s[i]
    BY <1>1, NthOnWalk
  <2> QED BY <1>7, <2>4, <2>5, <2>6
<1> QED
  BY <1>6, <1>7 DEF Says

\* A definition file that cannot be read is all its chain has.
LEMMA NoWalk ==
  ASSUME NEW d \in Files, files[d] \in {Absent, Garbage}
  PROVE  /\ ~Readable(d)
         /\ MissingBase(d) <=> files[d] = Absent
<1> DEFINE N == Cardinality(Files)
<1>1. N \in Nat /\ IsFiniteSet(Files)
  BY DepthsAre
<1>2. N >= 1
  BY <1>1, FS_EmptySet
<1>3. Nth(d)[0] = d /\ Nth(d)[1] = NoFile
  BY <1>1, <1>2, NthIs DEF BaseOf
<1>4. \A k \in 1..N : Nth(d)[k] = NoFile
  <2> TAKE k \in 1..N
  <2>1. 1 \in 0..N /\ k \in 0..N /\ k >= 1
    BY <1>1, <1>2
  <2> QED BY <1>3, <2>1, NothingAfterNone
<1>5. ~Cyclic(d)
  BY <1>1, <1>2, <1>4 DEF Cyclic
<1>6. ASSUME NEW f
      PROVE  f \in ChainOf(d) <=> f = d
  <2>1. f \in ChainOf(d) <=> f # NoFile /\ \E n \in 0..N : f = Nth(d)[n]
    BY DEF ChainOf, Depths
  <2>2. \A n \in 0..N : n = 0 \/ n \in 1..N
    BY <1>1
  <2>3. d # NoFile /\ 0 \in 0..N
    BY <1>1, FileAssumption
  <2> HIDE DEF N
  <2> QED BY <1>3, <1>4, <2>1, <2>2, <2>3
<1> HIDE DEF N
<1>7. ~Resolves(d)
  BY <1>6 DEF Resolves
<1> QED
  BY <1>5, <1>6, <1>7 DEF MissingBase, Readable

\* A chain may stop at a base that cannot be read.
LEMMA WalkStops ==
  ASSUME NEW s, Walks(s), NEW base \in Files, base = files[s[Len(s)]].inherits,
         \A i \in DOMAIN s : s[i] # base, files[base] \in {Absent, Garbage}
  PROVE  /\ ~Readable(s[1])
         /\ MissingBase(s[1]) <=> files[base] = Absent
<1> DEFINE d == s[1]
           N == Cardinality(Files)
           longer == Append(s, base)
<1>1. N \in Nat /\ Len(s) \in 1..N /\ s \in Seq(Files) /\ DOMAIN s = 1..Len(s)
  BY DepthsAre, NthOnWalk DEF Walks
<1>2. Len(s) + 1 <= N
  <2>1. /\ longer \in Seq(Files) /\ Len(longer) = Len(s) + 1
        /\ DOMAIN longer = 1..(Len(s) + 1) /\ longer[Len(s) + 1] = base
        /\ \A i \in DOMAIN s : longer[i] = s[i]
    BY <1>1
  <2>2. \A i, j \in DOMAIN longer : longer[i] = longer[j] => i = j
    <3>1. \A i \in DOMAIN longer : i \in DOMAIN s \/ i = Len(s) + 1
      BY <1>1, <2>1
    <3>2. \A i, j \in DOMAIN s : s[i] = s[j] => i = j
      BY DEF Walks
    <3> HIDE DEF longer
    <3> QED BY <2>1, <3>1, <3>2
  <2> HIDE DEF longer
  <2>3. Len(longer) <= Cardinality(Files)
    BY <2>1, <2>2, NoMoreThanFiles
  <2> QED BY <2>1, <2>3
<1>3. Nth(d)[Len(s)] = base
  BY NthOnWalk
<1>4. Nth(d)[Len(s) + 1] = NoFile
  <2>1. Len(s) + 1 \in 1..N /\ (Len(s) + 1) - 1 = Len(s)
    BY <1>1, <1>2
  <2>2. Nth(d)[Len(s) + 1] = BaseOf(Nth(d)[Len(s)])
    BY <2>1, NthIs
  <2> QED BY <1>3, <2>2 DEF BaseOf
<1>5. \A k \in (Len(s) + 1)..N : Nth(d)[k] = NoFile
  <2> TAKE k \in (Len(s) + 1)..N
  <2>1. Len(s) + 1 \in 0..N /\ k \in 0..N /\ k >= Len(s) + 1
    BY <1>1, <1>2
  <2> QED BY <1>4, <2>1, NothingAfterNone
<1>6. \A k \in 0..(Len(s) - 1) : k + 1 \in DOMAIN s /\ Nth(d)[k] = s[k + 1]
  <2> TAKE k \in 0..(Len(s) - 1)
  <2>1. k + 1 \in DOMAIN s /\ (k + 1) - 1 = k
    BY <1>1
  <2> QED BY <2>1, NthOnWalk
<1>7. ~Cyclic(d)
  BY <1>1, <1>2, <1>5 DEF Cyclic
<1>8. base \in ChainOf(d)
  BY <1>1, <1>3, FileAssumption DEF ChainOf, Depths
<1>9. \A f \in ChainOf(d) : f = base \/ files[f] \in Definition
  <2> TAKE f \in ChainOf(d)
  <2>1. PICK n \in 0..N : f = Nth(d)[n] /\ f # NoFile
    BY DEF ChainOf, Depths
  <2>2. n \in 0..(Len(s) - 1) \/ n = Len(s) \/ n \in (Len(s) + 1)..N
    <3>1. \A k, l \in Nat : \A m \in 0..k : m \in 0..(l - 1) \/ m = l \/ m \in (l + 1)..k
      OBVIOUS
    <3>2. N \in Nat /\ Len(s) \in Nat
      BY <1>1
    <3> QED BY <2>1, <3>1, <3>2, Zenon
  <2> HIDE DEF N
  <2> QED BY <1>3, <1>5, <1>6, <2>1, <2>2 DEF Walks
<1> HIDE DEF d
<1>10. ~Resolves(d)
  BY <1>8 DEF Resolves
<1>11. MissingBase(d) <=> files[base] = Absent
  BY <1>7, <1>8, <1>9, FileAssumption DEF MissingBase
<1> QED
  BY <1>10, <1>11 DEF Readable, d

\* A chain that comes back to one of its files never ends.
LEMMA WalkTurns ==
  ASSUME NEW s, Walks(s), NEW i \in DOMAIN s, s[i] = files[s[Len(s)]].inherits
  PROVE  ~Readable(s[1]) /\ ~MissingBase(s[1])
<1> DEFINE d == s[1]
           N == Cardinality(Files)
           S == {n \in 0..N : \E j \in DOMAIN s : Nth(d)[n] = s[j]}
<1>1. N \in Nat /\ Len(s) \in 1..N /\ s \in Seq(Files) /\ DOMAIN s = 1..Len(s)
  BY DepthsAre, NthOnWalk DEF Walks
<1>2. 0 \in S
  BY <1>1, NthIs
<1>3. \A j \in DOMAIN s : BaseOf(s[j]) = files[s[j]].inherits
  <2> TAKE j \in DOMAIN s
  <2>1. s[j] # NoFile /\ files[s[j]] \notin {Absent, Garbage}
    BY <1>1, FileAssumption DEF Walks
  <2> QED BY <2>1 DEF BaseOf
<1>4. \A j \in DOMAIN s : \E k \in DOMAIN s : files[s[j]].inherits = s[k]
  <2> TAKE j \in DOMAIN s
  <2>1. CASE j = Len(s)
    BY <2>1
  <2>2. CASE j # Len(s)
    <3>1. j + 1 \in DOMAIN s \ {1} /\ (j + 1) - 1 = j
      BY <1>1, <2>2
    <3> QED BY <3>1 DEF Walks
  <2> QED BY <2>1, <2>2
<1>5. ASSUME NEW n \in 1..N, n - 1 \in S
      PROVE  n \in S
  <2>1. PICK j \in DOMAIN s : Nth(d)[n - 1] = s[j]
    BY <1>5
  <2>2. Nth(d)[n] = files[s[j]].inherits
    BY <1>3, <2>1, NthIs
  <2>3. n \in 0..N
    BY <1>1
  <2> QED BY <1>4, <2>2, <2>3
<1>6. \E j \in DOMAIN s : Nth(d)[N] = s[j]
  <2> HIDE DEF S
  <2>1. \A n \in 0..N : n \in S
    BY <1>1, <1>2, <1>5, Inductive
  <2>2. N \in S
    BY <1>1, <2>1
  <2> QED BY <2>2 DEF S
<1>7. Cyclic(d)
  BY <1>1, <1>6, FileAssumption DEF Cyclic
<1> QED
  BY <1>7 DEF Readable, Resolves, MissingBase

-----------------------------------------------------------------------------
(* Lemmas about frames. *)

\* The definition file is the first of its chain.
LEMMA ChainBegins ==
  ASSUME NEW d \in Files, NEW def \in Definition, files[d] = def
  PROVE  Walks(<<d>>) /\ Says(def, <<d>>, 1)
<1> DEFINE s == <<d>>
<1>1. s \in Seq(Files) /\ s # <<>> /\ DOMAIN s = {1} /\ s[1] = d /\ Len(s) = 1
  OBVIOUS
<1>2. 1..1 = {1} /\ 1..(1 - 1) = {} /\ ~(1 > 1)
  OBVIOUS
<1> HIDE DEF s
<1>3. Walks(s)
  BY <1>1 DEF Walks
<1>4. Says(def, s, 1)
  BY <1>1, <1>2 DEF Says, Sets
<1> QED
  BY <1>3, <1>4 DEF s

\* A base that was not in the chain makes it longer by one.
LEMMA ChainGrows ==
  ASSUME NEW s, Walks(s), NEW base \in Files, base = files[s[Len(s)]].inherits,
         \A i \in DOMAIN s : s[i] # base, files[base] \in Definition
  PROVE  LET longer == Append(s, base)
         IN /\ Walks(longer) /\ Len(longer) = Len(s) + 1 /\ longer[Len(s) + 1] = base
            /\ \A i \in DOMAIN s : longer[i] = s[i]
            /\ Says(files[base], longer, Len(s) + 1)
<1> DEFINE longer == Append(s, base)
           m == Len(s)
<1>1. m \in Nat /\ m >= 1 /\ s \in Seq(Files) /\ DOMAIN s = 1..m
  BY DEF Walks
<1>2. /\ longer \in Seq(Files) /\ Len(longer) = m + 1 /\ longer # <<>>
      /\ DOMAIN longer = 1..(m + 1) /\ longer[m + 1] = base
      /\ \A i \in DOMAIN s : longer[i] = s[i]
  BY <1>1
<1>3. \A i \in DOMAIN longer : i \in DOMAIN s \/ i = m + 1
  BY <1>1, <1>2
<1>4. \A i \in DOMAIN longer \ {1} : i - 1 \in DOMAIN s
  BY <1>1, <1>2
<1> HIDE DEF longer
<1>5. Walks(longer)
  <2>1. \A i \in DOMAIN longer : files[longer[i]] \in Definition
    BY <1>2, <1>3 DEF Walks
  <2>2. ASSUME NEW i \in DOMAIN longer \ {1}
        PROVE  longer[i] = files[longer[i - 1]].inherits
    <3>1. longer[i - 1] = s[i - 1]
      BY <1>2, <1>4
    <3>2. CASE i \in DOMAIN s
      BY <1>2, <3>1, <3>2 DEF Walks
    <3>3. CASE i = m + 1
      BY <1>1, <1>2, <3>1, <3>3
    <3> QED BY <1>3, <3>2, <3>3
  <2>3. \A i, j \in DOMAIN longer : longer[i] = longer[j] => i = j
    <3>1. \A i, j \in DOMAIN s : s[i] = s[j] => i = j
      BY DEF Walks
    <3> QED BY <1>2, <1>3, <3>1
  <2> QED BY <1>2, <2>1, <2>2, <2>3 DEF Walks
<1>6. Says(files[base], longer, m + 1)
  <2>1. (m + 1)..(m + 1) = {m + 1} /\ (m + 1)..((m + 1) - 1) = {} /\ ~(m + 1 > m + 1)
    BY <1>1
  <2> HIDE DEF m
  <2> QED BY <1>2, <2>1 DEF Says, Sets
<1> QED
  BY <1>2, <1>5, <1>6 DEF longer

\* What is overlaid says what the nearest file says.
LEMMA OverlaySays ==
  ASSUME NEW s, Walks(s), NEW n \in 2..Len(s), NEW def, Says(def, s, n)
  PROVE  Says(Overlay(files[s[n - 1]], def), s, n - 1)
<1> DEFINE child == files[s[n - 1]]
           over == Overlay(child, def)
<1>1. Len(s) \in Nat /\ n \in Int
  BY DEF Walks
<1>2. SUFFICES ASSUME NEW g \in Fields
      PROVE  \/ /\ over.fields[g] = Unset
                /\ \A i \in (n - 1)..Len(s) : ~Sets(s, n - 1, i, g)
             \/ \E i \in (n - 1)..Len(s) :
                  /\ Sets(s, n - 1, i, g)
                  /\ over.fields[g] = files[s[i]].fields[g]
                  /\ \A j \in (n - 1)..(i - 1) : ~Sets(s, n - 1, j, g)
  BY DEF Says
<1>3. over.fields[g] = IF child.fields[g] = Unset /\ g \in Inherited
                       THEN def.fields[g] ELSE child.fields[g]
  BY DEF Overlay
<1>4. Sets(s, n - 1, n - 1, g) <=> child.fields[g] # Unset
  BY <1>1 DEF Sets
<1>5. \A i \in n..Len(s) : Sets(s, n - 1, i, g) <=> Sets(s, n, i, g) /\ g \in Inherited
  BY <1>1 DEF Sets
<1>6. n - 1 \in (n - 1)..Len(s) /\ (n - 1)..((n - 1) - 1) = {}
  BY <1>1
<1>7. \A i \in (n - 1)..Len(s) : i = n - 1 \/ i \in n..Len(s)
  BY <1>1
<1> HIDE DEF over
<1>8. CASE child.fields[g] # Unset
  BY <1>3, <1>4, <1>6, <1>8
<1>9. CASE child.fields[g] = Unset /\ g \notin Inherited
  <2>1. over.fields[g] = Unset
    BY <1>3, <1>9
  <2> QED BY <1>4, <1>5, <1>7, <1>9, <2>1
<1>10. CASE child.fields[g] = Unset /\ g \in Inherited
  <2>1. over.fields[g] = def.fields[g]
    BY <1>3, <1>10
  <2>2. CASE def.fields[g] = Unset /\ \A i \in n..Len(s) : ~Sets(s, n, i, g)
    BY <1>4, <1>5, <1>7, <1>10, <2>1, <2>2
  <2>3. ASSUME NEW i \in n..Len(s), Sets(s, n, i, g), def.fields[g] = files[s[i]].fields[g],
               \A j \in n..(i - 1) : ~Sets(s, n, j, g)
        PROVE  \E k \in (n - 1)..Len(s) :
                  /\ Sets(s, n - 1, k, g)
                  /\ over.fields[g] = files[s[k]].fields[g]
                  /\ \A j \in (n - 1)..(k - 1) : ~Sets(s, n - 1, j, g)
    <3>1. i \in (n - 1)..Len(s) /\ Sets(s, n - 1, i, g)
      BY <1>1, <1>5, <1>10, <2>3
    <3>2. ASSUME NEW j \in (n - 1)..(i - 1)
          PROVE  ~Sets(s, n - 1, j, g)
      <4>1. j = n - 1 \/ (j \in n..(i - 1) /\ j \in n..Len(s))
        BY <1>1
      <4> QED BY <1>4, <1>5, <1>10, <2>3, <4>1
    <3> QED BY <2>1, <2>3, <3>1, <3>2
  <2> QED BY <2>2, <2>3 DEF Says
<1> QED
  BY <1>8, <1>9, <1>10

-----------------------------------------------------------------------------
(* Lemmas about the tree. *)

\* What the files and the configuration say stands as long as they do.
LEMMA TreeStands ==
  ASSUME UNCHANGED disk
  PROVE  /\ \A s : Walks(s)' = Walks(s) /\ Ends(s)' = Ends(s)
         /\ \A def, s, n : Says(def, s, n)' = Says(def, s, n)
         /\ \A F : Chained(F)' = Chained(F)
         /\ \A d : LayoutOf(d)' = LayoutOf(d)
         /\ \A d : Readable(d)' = Readable(d) /\ Skippable(d)' = Skippable(d)
         /\ \A d : MissingBase(d)' = MissingBase(d) /\ Harmless(d)' = Harmless(d)
         /\ \A d : Tolerated(d)' = Tolerated(d)
         /\ RootDirs' = RootDirs /\ Reached' = Reached /\ Kept' = Kept /\ Expected' = Expected
         /\ TreeAcceptable' = TreeAcceptable
         /\ ConfigAcceptable' = ConfigAcceptable /\ Nested' = Nested
<1>1. /\ files' = files /\ layout' = layout /\ views' = views /\ env' = env
      /\ unlisted' = unlisted /\ config' = config /\ validating' = validating
  BY DEF disk, tree, configVars, given
<1>2. \A s : Walks(s)' = Walks(s) /\ Ends(s)' = Ends(s)
  BY <1>1 DEF Walks, Ends
<1>3. \A def, s, n : Says(def, s, n)' = Says(def, s, n)
  BY <1>1 DEF Says, Sets
<1>4. \A F : Chained(F)' = Chained(F)
  BY <1>1, <1>2, <1>3 DEF Chained
<1>5. \A d : LayoutOf(d)' = LayoutOf(d)
  BY <1>1 DEF LayoutOf
<1>6. \A d : Nth(d)' = Nth(d)
  BY <1>1 DEF Nth, BaseOf
<1>7. \A d : ChainOf(d)' = ChainOf(d) /\ Cyclic(d)' = Cyclic(d)
  BY <1>6 DEF ChainOf, Cyclic
<1>8. \A d : Readable(d)' = Readable(d) /\ MissingBase(d)' = MissingBase(d)
  BY <1>1, <1>7 DEF Readable, Resolves, MissingBase
<1>9. \A d : Skippable(d)' = Skippable(d)
  BY <1>5, <1>8 DEF Skippable
<1>10. \A d, g : Nearest(d, g)' = Nearest(d, g)
  <2>1. \A d, g : Setters(d, g)' = Setters(d, g)
    BY <1>1, <1>6 DEF Setters
  <2> QED BY <1>1 DEF Nearest, Setters, Nth, BaseOf
<1>11. RootDirs' = RootDirs
  BY <1>1 DEF RootDirs
<1>12. Reached' = Reached
  <2> DEFINE T == {d \in Dirs : Readable(d)}
  <2>1. T' = T
    BY <1>1, <1>7 DEF Readable, Resolves
  <2>2. Reached = From(RootDirs, T)
    BY DEF Reached
  <2>3. Reached' = From(RootDirs, T)'
    BY DEF Reached
  <2> HIDE DEF T
  <2> QED BY <1>11, <2>1, <2>2, <2>3 DEF From
<1>13. Kept' = Kept /\ Expected' = Expected
  <2>1. Kept' = Kept
    BY <1>1, <1>8 DEF Kept
  <2> QED BY <1>11, <2>1 DEF Expected, From
<1>14. \A d : Tolerated(d)' = Tolerated(d)
  BY <1>1, <1>5, <1>8, <1>9, <1>10 DEF Tolerated
<1>15. TreeAcceptable' = TreeAcceptable
  <2>1. (\A d \in Reached' : Tolerated(d)') <=> \A d \in Reached : Tolerated(d)
    BY <1>12, <1>14
  <2>2. (\A d \in Expected' : \A g \in Fields : Nearest(d, g)' \notin Dangling)
          <=> \A d \in Expected : \A g \in Fields : Nearest(d, g) \notin Dangling
    BY <1>10, <1>13
  <2> QED BY <1>1, <1>11, <2>1, <2>2 DEF TreeAcceptable
<1>16. ConfigAcceptable' = ConfigAcceptable /\ Nested' = Nested
  BY GivenStands DEF disk, configVars
<1>17. \A d : Harmless(d)' = Harmless(d)
  BY <1>12, <1>13, <1>14 DEF Harmless
<1> QED
  BY <1>2, <1>3, <1>4, <1>5, <1>8, <1>9, <1>11, <1>12, <1>13, <1>14, <1>15, <1>16, <1>17

\* From is a least fixed point: one comes to a directory at the start, or from
\* the directory that holds it.
LEMMA FromIs ==
  ASSUME NEW S, NEW T, T \subseteq Dirs
  PROVE  /\ From(S, T) \subseteq Dirs
         /\ \A d \in Dirs : d \in From(S, T) <=>
              d \in S \/ (Parent[d] \in T /\ Parent[d] \in From(S, T))
<1> DEFINE Up(R, d) == d \in S \/ (Parent[d] \in T /\ Parent[d] \in R)
           Closed(R) == \A d \in Dirs : Up(R, d) => d \in R
           least == {d \in Dirs : \A R \in SUBSET Dirs : Closed(R) => d \in R}
           Good(f) == f = [d \in Dirs |-> d \in S \/ (Parent[d] \in T /\ f[Parent[d]])]
           come == CHOOSE f : Good(f)
           fix == [d \in Dirs |-> d \in least]
<1>1. Closed(least)
  <2> SUFFICES ASSUME NEW d \in Dirs, Up(least, d), NEW R \in SUBSET Dirs, Closed(R)
               PROVE  d \in R
    OBVIOUS
  <2>1. Up(R, d)
    OBVIOUS
  <2> QED BY <2>1
<1>2. \A d \in Dirs : d \in least => Up(least, d)
  <2> SUFFICES ASSUME NEW d \in Dirs, d \in least, ~Up(least, d)
               PROVE  FALSE
    OBVIOUS
  <2> DEFINE R == least \ {d}
  <2>1. \A e \in Dirs : Up(R, e) => Up(least, e)
    OBVIOUS
  <2>2. Closed(R)
    <3> SUFFICES ASSUME NEW e \in Dirs, Up(R, e)
                 PROVE  e \in R
      OBVIOUS
    <3>1. Up(least, e)
      BY <2>1
    <3> HIDE DEF Up, least
    <3> QED BY <1>1, <3>1
  <2>3. R \in SUBSET Dirs
    OBVIOUS
  <2>4. d \in R
    <3> HIDE DEF Closed, R
    <3> QED BY <2>2, <2>3
  <2> QED BY <2>4
<1>3. Good(fix)
  <2>1. \A d \in Dirs : fix[d] = (d \in S \/ (Parent[d] \in T /\ fix[Parent[d]]))
    <3> TAKE d \in Dirs
    <3>1. fix[d] = (d \in least)
      OBVIOUS
    <3>2. Parent[d] \in T => fix[Parent[d]] = (Parent[d] \in least)
      OBVIOUS
    <3>3. (d \in least) <=> Up(least, d)
      BY <1>1, <1>2, Zenon
    <3> HIDE DEF least, fix
    <3>4. (d \in least) = (d \in S \/ (Parent[d] \in T /\ Parent[d] \in least))
      BY <3>3
    <3>5. CASE Parent[d] \in T
      BY <3>1, <3>2, <3>4, <3>5
    <3>6. CASE Parent[d] \notin T
      BY <3>1, <3>4, <3>6
    <3> QED BY <3>5, <3>6
  <2> HIDE DEF least
  <2> QED BY <2>1
<1>4. Good(come)
  <2> HIDE DEF Good, fix
  <2> QED BY <1>3
<1>5. From(S, T) = {d \in Dirs : come[d]}
  BY DEF From
<1> HIDE DEF come
<1>6. \A d \in Dirs : come[d] <=> d \in S \/ (Parent[d] \in T /\ come[Parent[d]])
  BY <1>4
<1> HIDE DEF Good
<1> QED
  BY <1>5, <1>6

\* Who may pass through more comes to more.
LEMMA FromGrows ==
  ASSUME NEW S, NEW T, NEW U, T \subseteq U, U \subseteq Dirs
  PROVE  From(S, T) \subseteq From(S, U)
<1> DEFINE D == From(S, T) \ From(S, U)
<1> SUFFICES ASSUME D # {}
             PROVE  FALSE
  OBVIOUS
<1>1. D \subseteq Dirs
  BY FromIs
<1>2. PICK d \in D : \A e \in D : d <= e
  <2> HIDE DEF D
  <2> QED BY <1>1, FirstDirectory
<1>3. d \in Dirs /\ Parent[d] \in T /\ Parent[d] \in From(S, T) /\ Parent[d] \in Dirs
  BY <1>1, FromIs
<1>4. Parent[d] < d /\ Parent[d] \in Int /\ d \in Int
  BY <1>3, ParentAssumption, FileAssumption, DirsAssumption DEF Roots, Files
<1>5. Parent[d] \in From(S, U)
  <2> HIDE DEF D
  <2>1. Parent[d] \notin D
    BY <1>2, <1>4
  <2> QED BY <1>3, <2>1 DEF D
<1> QED
  BY <1>3, <1>5, FromIs

\* A directory is under itself, and with its parent under another.
LEMMA UnderIs ==
  ASSUME NEW d \in Dirs
  PROVE  /\ Under(d) \subseteq Dirs /\ d \in Under(d)
         /\ \A e \in Dirs : e \in Under(d) <=> e = d \/ (Parent[e] \in Dirs /\ Parent[e] \in Under(d))
         /\ \A e \in Under(d) : d <= e
<1>1. /\ Under(d) \subseteq Dirs /\ d \in Under(d)
      /\ \A e \in Dirs : e \in Under(d) <=> e = d \/ (Parent[e] \in Dirs /\ Parent[e] \in Under(d))
  BY FromIs DEF Under
<1>2. \A e \in Under(d) : d <= e
  <2> DEFINE D == {e \in Under(d) : ~(d <= e)}
  <2> SUFFICES ASSUME D # {}
               PROVE  FALSE
    OBVIOUS
  <2>1. D \subseteq Dirs
    BY <1>1
  <2>2. PICK e \in D : \A f \in D : e <= f
    <3> HIDE DEF D
    <3> QED BY <2>1, FirstDirectory
  <2>3. e \in Dirs /\ e \in Under(d) /\ ~(d <= e) /\ e \in Int /\ d \in Int
    BY <2>1, DirsAssumption
  <2>4. Parent[e] \in Dirs /\ Parent[e] \in Under(d) /\ Parent[e] \in Int
    <3>1. e # d
      BY <2>3
    <3> QED BY <1>1, <2>3, <3>1, DirsAssumption
  <2>5. Parent[e] < e
    BY <2>3, <2>4, ParentAssumption, FileAssumption DEF Roots, Files
  <2>6. Parent[e] \in D
    BY <2>3, <2>4, <2>5
  <2> HIDE DEF D
  <2> QED BY <2>2, <2>3, <2>4, <2>5, <2>6
<1> QED
  BY <1>1, <1>2

\* A directory is reached when its parents are.
LEMMA ReachedIs ==
  /\ Reached \subseteq Dirs
  /\ \A d \in Dirs : d \in Reached <=> IF Parent[d] = NoFile THEN d \in RootDirs
                                       ELSE Parent[d] \in Reached /\ Readable(Parent[d])
<1> DEFINE T == {d \in Dirs : Readable(d)}
<1>1. T \subseteq Dirs
  OBVIOUS
<1>2. /\ Reached \subseteq Dirs
      /\ \A d \in Dirs : d \in Reached <=> d \in RootDirs \/ (Parent[d] \in T /\ Parent[d] \in Reached)
  <2> HIDE DEF T
  <2>1. Reached = From(RootDirs, T)
    BY DEF Reached, T
  <2> QED BY <1>1, <2>1, FromIs
<1>3. \A d \in RootDirs : Parent[d] = NoFile
  BY DEF RootDirs, DirsFor, Roots
<1>4. \A d \in Dirs : Parent[d] \in Dirs \cup {NoFile} /\ NoFile \notin Dirs
  BY ParentAssumption, FileAssumption DEF Files
<1> QED
  BY <1>2, <1>3, <1>4

\* Nothing below a directory that cannot be read is reached.
LEMMA NothingBelow ==
  ASSUME NEW d \in Dirs, ~Readable(d), MissingBase(d)
  PROVE  d \notin Kept /\ (Skippable(d) => Harmless(d))
<1>1. d \notin Kept
  BY DEF Kept
<1>2. \A e \in Under(d) \cap Reached : e = d
  <2> DEFINE D == {e \in Under(d) \cap Reached : e # d}
  <2> SUFFICES ASSUME D # {}
               PROVE  FALSE
    OBVIOUS
  <2>1. D \subseteq Dirs
    BY UnderIs
  <2>2. PICK e \in D : \A f \in D : e <= f
    <3> HIDE DEF D
    <3> QED BY <2>1, FirstDirectory
  <2>3. e \in Dirs /\ e \in Under(d) /\ e \in Reached /\ e # d
    BY <2>1
  <2>4. Parent[e] \in Dirs /\ Parent[e] \in Under(d)
    BY <2>3, UnderIs
  <2>5. Parent[e] \in Reached /\ Readable(Parent[e])
    BY <2>3, <2>4, ReachedIs, FileAssumption DEF Files
  <2>6. Parent[e] < e /\ e \in Int /\ Parent[e] \in Int
    BY <2>3, <2>4, ParentAssumption, FileAssumption, DirsAssumption DEF Roots, Files
  <2>7. Parent[e] \in D
    BY <2>4, <2>5
  <2> HIDE DEF D
  <2> QED BY <2>2, <2>6, <2>7
<1>3. Skippable(d) => Tolerated(d)
  BY DEF Tolerated
<1> QED
  BY <1>1, <1>2, <1>3 DEF Harmless

\* When what is below some directories has been dealt with, and what is below
\* those that are loaded, all of it is tolerated.
LEMMA Covered ==
  ASSUME NEW S, S \subseteq Dirs, \A d \in S : Tolerated(d) /\ \A e \in Subs(d) : Done(e),
         Wanted, \A d \in Loaded : \A e \in Subs(d) : Done(e)
  PROVE  \A e \in From(S, Dirs) \cap Reached : Tolerated(e)
<1> DEFINE Fine(e) == e \in S \/ e \in Loaded \/ \E a \in Dirs : e \in Under(a) /\ Harmless(a)
           D == {e \in From(S, Dirs) : ~Fine(e)}
<1>1. D = {}
  <2> SUFFICES ASSUME D # {}
               PROVE  FALSE
    OBVIOUS
  <2>1. D \subseteq Dirs
    BY FromIs
  <2>2. PICK e \in D : \A f \in D : e <= f
    <3> HIDE DEF D
    <3> QED BY <2>1, FirstDirectory
  <2>3. e \in Dirs /\ e \in From(S, Dirs) /\ ~Fine(e)
    BY <2>1
  <2>4. Parent[e] \in Dirs /\ Parent[e] \in From(S, Dirs)
    BY <2>3, FromIs
  <2>5. Parent[e] < e /\ e \in Int /\ Parent[e] \in Int
    BY <2>3, <2>4, ParentAssumption, FileAssumption, DirsAssumption DEF Roots, Files
  <2>6. Fine(Parent[e])
    <3>1. Parent[e] \notin D
      <4> HIDE DEF D
      <4> QED BY <2>2, <2>5
    <3> QED BY <2>4, <3>1
  <2>7. CASE Parent[e] \in S \/ Parent[e] \in Loaded
    <3>1. e \in Subs(Parent[e])
      BY <2>3 DEF Subs
    <3>2. Done(e)
      BY <2>7, <3>1
    <3> QED BY <2>3, <3>2, UnderIs DEF Done
  <2>8. ASSUME NEW a \in Dirs, Parent[e] \in Under(a), Harmless(a)
        PROVE  FALSE
    BY <2>3, <2>4, <2>8, UnderIs
  <2> QED BY <2>6, <2>7, <2>8
<1>2. SUFFICES ASSUME NEW e \in From(S, Dirs) \cap Reached
               PROVE  Tolerated(e)
  OBVIOUS
<1>3. Fine(e)
  BY <1>1
<1> QED
  BY <1>3 DEF Wanted, Harmless

\* A definition that was read along a chain that ends is readable, and says
\* what is nearest.
LEMMA ChainedIsReadable ==
  ASSUME NEW F \in Frames, Chained(F), Len(F.chain) = 1, F.chain[1].inherits = NoFile
  PROVE  /\ Walks(F.seen) /\ Ends(F.seen) /\ F.seen[1] = F.dir /\ Says(F.chain[1], F.seen, 1)
         /\ Readable(F.dir)
         /\ \A g \in Fields : F.chain[1].fields[g] = Nearest(F.dir, g)
<1>1. Walks(F.seen) /\ F.seen[1] = F.dir /\ Says(F.chain[1], F.seen, 1)
  BY DEF Chained
<1>2. Ends(F.seen)
  BY DEF Chained, Ends, Frames
<1> QED
  BY <1>1, <1>2, WalkEnds, SaysNearest

\* The collections under way are all reached.
LEMMA Working ==
  ASSUME LoadTypes, Overlays, Nesting
  PROVE  \A i \in DOMAIN stack :
           /\ stack[i] \in Frames /\ stack[i].dir \in Reached
           /\ i > 1 => Parent[stack[i].dir] \in Dirs
<1> DEFINE S == {n \in 0..(Len(stack) - 1) : stack[n + 1].dir \in Reached}
<1>1. Len(stack) \in Nat /\ DOMAIN stack = 1..Len(stack) /\ \A i \in DOMAIN stack : stack[i] \in Frames
  BY DEF LoadTypes
<1>2. \A i \in DOMAIN stack : i < Len(stack) =>
        Readable(stack[i].dir) /\ Parent[stack[i + 1].dir] = stack[i].dir
  <2> TAKE i \in DOMAIN stack
  <2> HAVE i < Len(stack)
  <2>1. stack[i].step = "subs" /\ Parent[stack[i + 1].dir] = stack[i].dir
    BY DEF Nesting
  <2> QED BY <1>1, <2>1, ChainedIsReadable DEF Overlays
<1>3. stack # <<>> => 0 \in S
  <2> HAVE stack # <<>>
  <2>1. 1 \in DOMAIN stack /\ stack[1].dir \in RootDirs
    BY <1>1 DEF Nesting
  <2>2. stack[1].dir \in Dirs /\ Parent[stack[1].dir] = NoFile
    BY <2>1 DEF RootDirs, DirsFor, Roots
  <2> QED BY <1>1, <2>1, <2>2, ReachedIs
<1>4. ASSUME NEW n \in 1..(Len(stack) - 1), n - 1 \in S
      PROVE  n \in S
  <2>1. n \in DOMAIN stack /\ n + 1 \in DOMAIN stack /\ n < Len(stack) /\ (n - 1) + 1 = n
        /\ n \in 0..(Len(stack) - 1)
    BY <1>1
  <2>2. stack[n].dir \in Reached
    BY <1>4, <2>1
  <2>3. stack[n + 1].dir \in Dirs /\ stack[n].dir # NoFile
    BY <1>1, <2>1, FileAssumption DEF Frames, Files
  <2> QED BY <1>2, <2>1, <2>2, <2>3, ReachedIs
<1>5. \A i \in DOMAIN stack : stack[i].dir \in Reached
  <2> TAKE i \in DOMAIN stack
  <2> HIDE DEF S
  <2>1. Len(stack) - 1 \in Nat /\ i - 1 \in 0..(Len(stack) - 1) /\ (i - 1) + 1 = i
    BY <1>1
  <2>2. stack # <<>>
    BY <1>1
  <2>3. \A n \in 0..(Len(stack) - 1) : n \in S
    BY <1>3, <1>4, <2>1, <2>2, Inductive
  <2>4. i - 1 \in S
    BY <2>1, <2>3
  <2> QED BY <2>1, <2>4 DEF S
<1>6. ASSUME NEW i \in DOMAIN stack, i > 1
      PROVE  Parent[stack[i].dir] \in Dirs
  <2>1. i - 1 \in DOMAIN stack /\ i - 1 < Len(stack) /\ (i - 1) + 1 = i
    BY <1>1, <1>6
  <2>2. Parent[stack[i].dir] = stack[i - 1].dir
    BY <1>2, <2>1
  <2> QED BY <1>1, <2>1, <2>2 DEF Frames
<1> QED
  BY <1>1, <1>5, <1>6

\* The innermost collection is below all the others.
LEMMA Deeper ==
  ASSUME LoadTypes, Nesting, stack # <<>>
  PROVE  \A i \in 1..(Len(stack) - 1) : stack[i].dir < stack[Len(stack)].dir
<1> DEFINE n == Len(stack)
           S == {k \in 0..(n - 1) : stack[n - k].dir <= stack[n].dir}
<1>1. /\ n \in Nat /\ n >= 1 /\ DOMAIN stack = 1..n
      /\ \A i \in DOMAIN stack : stack[i] \in Frames
  BY DEF LoadTypes
<1>2. \A i \in 1..n : stack[i].dir \in Dirs /\ stack[i].dir \in Int
  BY <1>1, DirsAssumption DEF Frames
<1>3. ASSUME NEW i \in 1..(n - 1)
      PROVE  stack[i].dir < stack[i + 1].dir
  <2>1. i \in DOMAIN stack /\ i + 1 \in 1..n /\ i < Len(stack)
    BY <1>1
  <2>2. Parent[stack[i + 1].dir] = stack[i].dir
    BY <2>1 DEF Nesting
  <2> QED BY <1>1, <1>2, <2>1, <2>2, ParentAssumption, FileAssumption DEF Roots, Files
<1>4. 0 \in S
  <2>1. n - 0 = n /\ n \in 1..n /\ 0 \in 0..(n - 1)
    BY <1>1
  <2> HIDE DEF n
  <2>2. stack[n].dir <= stack[n].dir
    BY <1>2, <2>1
  <2> QED BY <2>1, <2>2
<1>5. ASSUME NEW k \in 1..(n - 1), k - 1 \in S
      PROVE  k \in S
  <2>1. n - k \in 1..(n - 1) /\ (n - k) + 1 = n - (k - 1) /\ k \in 0..(n - 1)
        /\ n - (k - 1) \in 1..n /\ n - k \in 1..n /\ n \in 1..n
    BY <1>1
  <2>2. stack[n - (k - 1)].dir <= stack[n].dir
    BY <1>5
  <2>3. stack[n - k].dir < stack[n - (k - 1)].dir
    BY <1>3, <2>1
  <2> HIDE DEF n
  <2>4. stack[n - k].dir <= stack[n].dir
    BY <1>2, <2>1, <2>2, <2>3
  <2> QED BY <2>1, <2>4
<1>6. \A k \in 0..(n - 1) : k \in S
  <2>1. n - 1 \in Nat
    BY <1>1
  <2> HIDE DEF S, n
  <2> QED BY <1>4, <1>5, <2>1, Inductive
<1>7. ASSUME NEW i \in 1..(n - 1)
      PROVE  stack[i].dir < stack[n].dir
  <2>1. n - (i + 1) \in 0..(n - 1) /\ n - (n - (i + 1)) = i + 1 /\ i + 1 \in 1..n /\ i \in 1..n
        /\ n \in 1..n
    BY <1>1
  <2>2. stack[i + 1].dir <= stack[n].dir
    BY <1>6, <2>1
  <2> HIDE DEF n
  <2> QED BY <1>2, <1>3, <2>1, <2>2
<1> QED
  BY <1>7

\* A collection that must be read and cannot be makes the tree unacceptable.
LEMMA UntoleratedIsFatal ==
  ASSUME NEW d \in Reached, ~Tolerated(d)
  PROVE  ~TreeAcceptable
BY DEF TreeAcceptable

-----------------------------------------------------------------------------
(* Lemmas about stacks. *)

LEMMA TopReplaced ==
  ASSUME NEW S, NEW s \in Seq(S), s # <<>>, NEW x \in S, NEW t, t = [s EXCEPT ![Len(s)] = x]
  PROVE  /\ t \in Seq(S) /\ Len(t) = Len(s) /\ DOMAIN t = 1..Len(s) /\ t # <<>>
         /\ t[Len(s)] = x /\ \A i \in 1..(Len(s) - 1) : t[i] = s[i]
OBVIOUS

LEMMA Pushed ==
  ASSUME NEW S, NEW s \in Seq(S), NEW x \in S, NEW t, t = Append(s, x)
  PROVE  /\ t \in Seq(S) /\ Len(t) = Len(s) + 1 /\ DOMAIN t = 1..(Len(s) + 1) /\ t # <<>>
         /\ t[Len(s) + 1] = x /\ \A i \in 1..Len(s) : t[i] = s[i]
OBVIOUS

LEMMA Popped ==
  ASSUME NEW S, NEW s \in Seq(S), s # <<>>, NEW t, t = SubSeq(s, 1, Len(s) - 1)
  PROVE  /\ t \in Seq(S) /\ Len(t) = Len(s) - 1 /\ DOMAIN t = 1..(Len(s) - 1)
         /\ \A i \in 1..(Len(s) - 1) : t[i] = s[i]
         /\ t = <<>> <=> Len(s) = 1
<1>1. Len(s) \in Nat /\ Len(s) >= 1
  OBVIOUS
<1>2. t \in Seq(S)
  BY <1>1
<1>3. Len(t) = Len(s) - 1
  <2> DEFINE k == Len(s) - 1
  <2>1. k \in Int /\ k \in Nat /\ 1 \in Int /\ (\A i \in 1..k : s[i] \in S) /\ t = SubSeq(s, 1, k)
    BY <1>1
  <2> HIDE DEF k
  <2>2. Len(SubSeq(s, 1, k)) = IF 1 <= k THEN k - 1 + 1 ELSE 0
    BY <2>1, SubSeqProperties
  <2>3. Len(t) = k
    BY <2>1, <2>2
  <2> QED BY <2>3 DEF k
<1>4. DOMAIN t = 1..(Len(s) - 1)
  BY <1>2, <1>3
<1>5. \A i \in 1..(Len(s) - 1) : t[i] = s[i]
  BY <1>1
<1>6. t = <<>> <=> Len(t) = 0
  <2> HIDE <1>3
  <2> QED BY <1>2, EmptySeq
<1> QED
  BY <1>1, <1>2, <1>3, <1>4, <1>5, <1>6

-----------------------------------------------------------------------------
(* Steps of the load. *)

\* What holds of the files and of the load, without the configuration.
Work == LoadTypes /\ Overlays /\ Settled /\ Nesting /\ Wanted /\ NoneLeftOut /\ Reasons /\ Ended

\* The load is at work on a configuration that has been read.
LEMMA AtWork ==
  ASSUME Work, status = "loading"
  PROVE  reading = "read"
BY DEF Work, LoadTypes

LEMMA DiskStands ==
  ASSUME UNCHANGED disk
  PROVE  UNCHANGED <<files, layout, views, unlisted, env, config, validating, reading>>
BY DEF disk, tree, configVars, given

\* An error has a reason, and changes nothing else.
LEMMA RaiseStep ==
  ASSUME Work, status = "loading", raised = "no", NEW error \in {"notExist", "other"}, Raise(error),
         error = "other" => ~TreeAcceptable,
         error = "notExist" => IF stack = <<>> THEN ~TreeAcceptable
                               ELSE /\ Here.dir \notin Kept
                                    /\ Skippable(Here.dir) => Harmless(Here.dir)
  PROVE  Work'
<1>1. UNCHANGED <<disk, waiting, stack, loaded, status>> /\ raised' = error
  BY DEF Raise
<1>2. UNCHANGED <<files, layout, views, unlisted, env, config, validating, reading>>
  BY <1>1, DiskStands
<1>3. LoadTypes' /\ Loaded' = Loaded
  BY <1>1, <1>2 DEF Work, LoadTypes, Loaded
<1>4. Overlays'
  BY <1>1, <1>2, TreeStands DEF Work, Overlays, Complete
<1>5. Settled'
  BY <1>1, <1>3, TreeStands DEF Work, Settled
<1>6. Nesting'
  BY <1>1, TreeStands DEF Work, Nesting
<1>7. Wanted'
  BY <1>1, <1>2, <1>3, TreeStands DEF Work, Wanted
<1>8. \A d : Done(d)' = Done(d)
  BY <1>1, <1>3, TreeStands DEF Done
<1>9. NoneLeftOut'
  BY <1>1, <1>2, <1>3, <1>8 DEF Work, NoneLeftOut
<1>10. Reasons'
  BY <1>1, TreeStands DEF Reasons, Here
<1>11. Ended'
  BY <1>1 DEF Ended
<1> QED
  BY <1>3, <1>4, <1>5, <1>6, <1>7, <1>9, <1>10, <1>11 DEF Work

\* The innermost frame goes one step further.
LEMMA BecomesStep ==
  ASSUME Work, status = "loading", raised = "no", stack # <<>>, NEW F \in Frames, Becomes(F),
         UNCHANGED <<disk, waiting, raised, loaded, status>>,
         F.dir = Here.dir, F.subs \subseteq Subs(F.dir), F.step # "read",
         Chained(F), LayoutOf(F.dir) # "both",
         F.step = "subs" => /\ Len(F.chain) = 1 /\ F.chain[1].inherits = NoFile
                            /\ validating => Complete(F.chain[1])
                            /\ F.subs = Subs(F.dir) /\ F.dir \notin unlisted
  PROVE  Work'
<1> DEFINE n == Len(stack)
<1>1. UNCHANGED <<files, layout, views, unlisted, env, config, validating, reading>>
  BY DiskStands
<1>2. /\ n \in Nat /\ n >= 1 /\ DOMAIN stack = 1..n /\ stack \in Seq(Frames)
      /\ \A i \in DOMAIN stack : stack[i] \in Frames
  BY DEF Work, LoadTypes
<1>3. /\ stack' \in Seq(Frames) /\ Len(stack') = n /\ DOMAIN stack' = 1..n /\ stack' # <<>>
      /\ stack'[n] = F /\ \A i \in 1..(n - 1) : stack'[i] = stack[i]
  <2>1. stack' = [stack EXCEPT ![n] = F] /\ stack # <<>>
    BY DEF Becomes
  <2>2. stack \in Seq(Frames) /\ stack # <<>> /\ F \in Frames
    BY <1>2
  <2> DEFINE t == stack'
  <2>3. t = [stack EXCEPT ![Len(stack)] = F]
    BY <2>1
  <2> HIDE DEF t
  <2>4. /\ t \in Seq(Frames) /\ Len(t) = Len(stack) /\ DOMAIN t = 1..Len(stack) /\ t # <<>>
        /\ t[Len(stack)] = F /\ \A i \in 1..(Len(stack) - 1) : t[i] = stack[i]
    BY <2>2, <2>3, TopReplaced
  <2> QED BY <2>4 DEF t
<1> HIDE DEF n
<1>4. \A i \in 1..n : i = n \/ (i \in 1..(n - 1) /\ i < n)
  BY <1>2
<1>5. /\ n \in 1..n /\ stack[n].dir = F.dir /\ ~(n < n)
      /\ \A i \in 1..n : stack'[i].dir = stack[i].dir
  <2>1. n \in 1..n /\ ~(n < n)
    BY <1>2
  <2>2. stack[n].dir = F.dir
    BY DEF Here, n
  <2> QED BY <1>3, <1>4, <2>1, <2>2
<1>6. LoadTypes' /\ Loaded' = Loaded
  BY <1>1, <1>3 DEF Work, LoadTypes, Loaded
<1>7. Overlays'
  <2> SUFFICES ASSUME NEW i \in 1..n
               PROVE  /\ stack'[i].step # "read" => /\ Chained(stack'[i])
                                                    /\ LayoutOf(stack'[i].dir) # "both"
                      /\ stack'[i].step = "subs" => /\ Len(stack'[i].chain) = 1
                                                    /\ stack'[i].chain[1].inherits = NoFile
                                                    /\ validating => Complete(stack'[i].chain[1])
                                                    /\ stack'[i].dir \notin unlisted
    BY <1>1, <1>3, TreeStands DEF Overlays, Complete
  <2>1. CASE i = n
    BY <1>3, <2>1
  <2>2. CASE i \in 1..(n - 1)
    BY <1>2, <1>3, <2>2 DEF Work, Overlays
  <2> QED BY <1>4, <2>1, <2>2
<1>8. Settled'
  BY <1>6, TreeStands DEF Work, Settled
<1>9. Nesting'
  <2>1. stack'[1].dir \in RootDirs'
    BY <1>2, <1>5, TreeStands DEF Work, Nesting
  <2>2. ASSUME NEW i \in 1..n
        PROVE  stack'[i].subs \subseteq Subs(stack'[i].dir)
    BY <1>2, <1>3, <1>4 DEF Work, Nesting
  <2>3. ASSUME NEW i \in 1..n, i < n
        PROVE  stack'[i].step = "subs" /\ Parent[stack'[i + 1].dir] = stack'[i].dir
    <3>1. i \in 1..(n - 1) /\ i + 1 \in 1..n
      BY <1>2, <2>3
    <3> QED BY <1>2, <1>3, <1>5, <2>3, <3>1 DEF Work, Nesting, n
  <2> QED BY <1>3, <2>1, <2>2, <2>3 DEF Nesting
<1>10. Wanted'
  <2>1. \A i \in DOMAIN stack : i \in DOMAIN stack' /\ stack'[i].dir = stack[i].dir
    BY <1>2, <1>3, <1>5
  <2> QED BY <1>1, <1>6, <2>1, TreeStands DEF Work, Wanted
<1>11. \A d : Done(d)' = Done(d)
  BY <1>6, TreeStands DEF Done
<1>12. NoneLeftOut'
  <2>1. \A d \in Loaded' : \A e \in Subs(d) : Done(e)'
    BY <1>6, <1>11 DEF Work, NoneLeftOut
  <2>2. ASSUME NEW i \in 1..n, stack'[i].step = "subs",
               NEW e \in Subs(stack'[i].dir) \ stack'[i].subs
        PROVE  Done(e)' \/ (i < n /\ stack'[i + 1].dir = e)
    <3>1. CASE i = n
      BY <1>3, <2>2, <3>1
    <3>2. CASE i \in 1..(n - 1) /\ i < n
      <4>1. i + 1 \in 1..n
        BY <1>2, <3>2
      <4> QED BY <1>2, <1>3, <1>5, <1>11, <2>2, <3>2, <4>1 DEF Work, NoneLeftOut, n
    <3> QED BY <1>4, <3>1, <3>2
  <2>3. \A id \in DOMAIN config \ waiting :
          /\ ~HoldsWild(Spelled(config[id]))
          /\ \E d \in DirsFor(config[id]) : d \in Loaded \/ stack'[1].dir = d
    <3>1. 1 \in 1..n
      BY <1>2
    <3> QED BY <1>5, <3>1, AtWork DEF Work, NoneLeftOut
  <2> QED BY <1>1, <1>3, <1>6, <2>1, <2>2, <2>3 DEF NoneLeftOut
<1>13. Reasons' /\ Ended'
  BY DEF Reasons, Ended
<1> QED
  BY <1>6, <1>7, <1>8, <1>9, <1>10, <1>12, <1>13 DEF Work

\* The innermost collection is done with: loaded, or passed over.
LEMMA PopStep ==
  ASSUME Work, status = "loading", stack # <<>>, NEW d, d = Here.dir,
         UNCHANGED <<disk, waiting, status>>, raised' = "no",
         stack' = SubSeq(stack, 1, Len(stack) - 1),
         loaded' \in [Dirs -> Definition \cup {Absent}],
         Settled', Wanted', Done(d)',
         \/ Loaded' = Loaded \cup {d} /\ \A e \in Subs(d) : Done(e)'
         \/ d \notin Loaded /\ Loaded' = Loaded \ Under(d) /\ Len(stack) > 1
  PROVE  Work'
<1> DEFINE n == Len(stack)
<1>1. UNCHANGED <<files, layout, views, unlisted, env, config, validating, reading>>
  BY DiskStands
<1>2. /\ n \in Nat /\ n >= 1 /\ DOMAIN stack = 1..n /\ stack \in Seq(Frames)
      /\ \A i \in DOMAIN stack : stack[i] \in Frames
  BY DEF Work, LoadTypes
<1>3. /\ stack' \in Seq(Frames) /\ Len(stack') = n - 1 /\ DOMAIN stack' = 1..(n - 1)
      /\ (\A i \in 1..(n - 1) : stack'[i] = stack[i])
      /\ (stack' = <<>> <=> n = 1)
  <2>1. stack \in Seq(Frames) /\ stack # <<>>
    BY <1>2
  <2> DEFINE t == stack'
  <2>2. t = SubSeq(stack, 1, Len(stack) - 1)
    OBVIOUS
  <2> HIDE DEF t
  <2> HIDE DEF n
  <2>3. t \in Seq(Frames)
    BY <2>1, <2>2, Popped
  <2>4. Len(t) = Len(stack) - 1 /\ DOMAIN t = 1..(Len(stack) - 1)
    BY <2>1, <2>2, Popped
  <2>5. \A i \in 1..(Len(stack) - 1) : t[i] = stack[i]
    BY <2>1, <2>2, Popped
  <2>6. t = <<>> <=> Len(stack) = 1
    <3>1. Len(t) = 0 <=> Len(stack) = 1
      BY <1>2, <2>4 DEF n
    <3>2. t = <<>> <=> Len(t) = 0
      <4> HIDE <2>4
      <4> QED BY <2>3, EmptySeq
    <3> QED BY <3>1, <3>2
  <2> QED BY <2>3, <2>4, <2>5, <2>6 DEF t, n
<1>4. Here = stack[n]
  BY DEF Here
<1>5. LoadTypes'
  BY <1>1, <1>3 DEF Work, LoadTypes
<1> HIDE DEF n
<1>6. \A i \in 1..(n - 1) : i \in DOMAIN stack /\ i + 1 \in DOMAIN stack /\ i < n
  BY <1>2
<1>7. Overlays'
  BY <1>1, <1>3, <1>6, TreeStands DEF Work, Overlays, Complete
<1>8. Nesting'
  <2>1. stack' # <<>> => stack'[1] = stack[1]
    BY <1>2, <1>3
  <2>2. ASSUME NEW i \in 1..(n - 1), i < n - 1
        PROVE  stack'[i + 1] = stack[i + 1]
    BY <1>2, <1>3, <2>2
  <2>3. stack' # <<>> => stack'[1].dir \in RootDirs'
    BY <2>1, TreeStands DEF Work, Nesting
  <2>4. \A i \in 1..(n - 1) : stack'[i].subs \subseteq Subs(stack'[i].dir)
    BY <1>3, <1>6 DEF Work, Nesting
  <2>5. ASSUME NEW i \in 1..(n - 1), i < n - 1
        PROVE  stack'[i].step = "subs" /\ Parent[stack'[i + 1].dir] = stack'[i].dir
    <3>1. stack[i].step = "subs" /\ Parent[stack[i + 1].dir] = stack[i].dir
      BY <1>6 DEF Work, Nesting, n
    <3> QED BY <1>3, <2>2, <2>5, <3>1
  <2> QED BY <1>3, <2>3, <2>4, <2>5 DEF Nesting
<1>9. d \in Dirs /\ d = stack[n].dir /\ d \in Int
  <2>1. n \in DOMAIN stack
    BY <1>2
  <2>2. stack[n] \in Frames /\ d = stack[n].dir
    BY <1>2, <1>4, <2>1
  <2> QED BY <2>2, DirsAssumption DEF Frames
<1> DEFINE Drops == d \notin Loaded /\ Loaded' = Loaded \ Under(d) /\ n > 1
<1>12. \A e : Done(e) => Done(e)' \/ (Drops /\ e \in Under(d) /\ e \in Loaded)
  BY TreeStands DEF Done, n
<1>13. ASSUME NEW f \in Dirs, f \notin Under(d), NEW e \in Subs(f), Done(e)
       PROVE  Done(e)'
  <2>1. e \in Dirs /\ Parent[e] = f
    BY DEF Subs
  <2>2. e \in Under(d) => e = d
    BY <1>9, <1>13, <2>1, UnderIs
  <2> QED BY <1>12, <1>13, <2>2
<1> HIDE DEF Drops
<1>10. NoneLeftOut'
  <2>1. ASSUME NEW f \in Loaded', NEW e \in Subs(f)
        PROVE  Done(e)'
    <3>1. f \in Dirs
      BY <2>1 DEF Loaded
    <3>2. CASE Loaded' = Loaded \cup {d} /\ \A c \in Subs(d) : Done(c)'
      <4>1. CASE f \in Loaded
        <5>1. Done(e)
          BY <2>1, <4>1 DEF Work, NoneLeftOut
        <5>2. ~Drops
          BY <3>2 DEF Drops
        <5> QED BY <1>12, <5>1, <5>2
      <4> QED BY <2>1, <3>2, <4>1
    <3>3. CASE Loaded' = Loaded \ Under(d)
      <4>1. f \in Loaded /\ f \notin Under(d)
        BY <2>1, <3>3
      <4>2. Done(e)
        BY <2>1, <4>1 DEF Work, NoneLeftOut
      <4> QED BY <1>13, <2>1, <3>1, <4>1, <4>2
    <3> QED BY <3>2, <3>3
  <2>2. ASSUME NEW i \in 1..(n - 1), stack'[i].step = "subs",
               NEW e \in Subs(stack'[i].dir) \ stack'[i].subs
        PROVE  Done(e)' \/ (i < n - 1 /\ stack'[i + 1].dir = e)
    <3>1. Done(e) \/ stack[i + 1].dir = e
      BY <1>3, <1>6, <2>2 DEF Work, NoneLeftOut
    <3>4. Done(e) => Done(e)'
      <4>1. stack[i] \in Frames /\ stack[i].dir \in Dirs /\ stack'[i].dir = stack[i].dir
        BY <1>2, <1>3, <1>6 DEF Frames
      <4>2. stack[i].dir < d
        BY <1>9, Deeper DEF Work, n
      <4>3. stack[i].dir \in Int
        BY <4>1, DirsAssumption
      <4>4. ~(d <= stack[i].dir)
        BY <1>9, <4>2, <4>3
      <4>5. stack[i].dir \notin Under(d)
        BY <1>9, <4>4, UnderIs
      <4> QED BY <1>13, <2>2, <4>1, <4>5
    <3>2. CASE i = n - 1
      <4>1. stack[i + 1] = Here
        BY <1>2, <1>4, <3>2
      <4> QED BY <3>1, <3>4, <4>1
    <3>3. CASE i # n - 1
      <4>1. i < n - 1 /\ i + 1 \in 1..(n - 1)
        BY <1>2, <3>3
      <4>2. stack'[i + 1] = stack[i + 1]
        BY <1>3, <4>1
      <4>3. stack[i + 1].dir = e => stack'[i + 1].dir = e
        BY <4>2, Zenon
      <4> QED BY <3>1, <3>4, <4>1, <4>3, Zenon
    <3> QED BY <3>2, <3>3
  <2>3. ASSUME NEW id \in DOMAIN config \ waiting
        PROVE  /\ ~HoldsWild(Spelled(config[id]))
               /\ \E e \in DirsFor(config[id]) :
                    e \in Loaded' \/ (stack' # <<>> /\ stack'[1].dir = e)
    <3>1. ~HoldsWild(Spelled(config[id]))
          /\ \E e \in DirsFor(config[id]) : e \in Loaded \/ (stack # <<>> /\ stack[1].dir = e)
      BY AtWork DEF Work, NoneLeftOut
    <3>2. CASE n = 1
      <4>1. Loaded' = Loaded \cup {d}
        BY <3>2 DEF n
      <4> QED BY <1>4, <3>1, <3>2, <4>1
    <3>3. CASE n # 1
      <4>1. stack' # <<>> /\ stack'[1] = stack[1]
        BY <1>2, <1>3, <3>3
      <4>2. \A e \in DirsFor(config[id]) : e \in Loaded => e \in Loaded'
        <5> SUFFICES ASSUME NEW e \in DirsFor(config[id]), e \in Loaded
                     PROVE  e \in Loaded'
          OBVIOUS
        <5>1. e \in Dirs /\ Parent[e] = NoFile /\ NoFile \notin Dirs
          BY FileAssumption DEF DirsFor, Roots, Files
        <5>2. e \in Under(d) => e = d
          BY <1>9, <5>1, UnderIs
        <5> QED BY <5>2
      <4> QED BY <3>1, <4>1, <4>2
    <3> QED BY <3>2, <3>3
  <2>4. \A i \in DOMAIN stack' : stack'[i].step = "subs" =>
          \A e \in Subs(stack'[i].dir) \ stack'[i].subs :
            Done(e)' \/ (i < Len(stack') /\ stack'[i + 1].dir = e)
    BY <1>3, <2>2
  <2> QED BY <1>1, <2>1, <2>3, <2>4 DEF NoneLeftOut
<1>11. Reasons' /\ Ended'
  BY DEF Reasons, Ended
<1> QED
  BY <1>5, <1>7, <1>8, <1>10, <1>11 DEF Work

\* The parent of the innermost collection is under way as well.
LEMMA ParentUnderWay ==
  ASSUME Work, stack # <<>>, Parent[Here.dir] \in Dirs
  PROVE  \E i \in DOMAIN stack : stack[i].dir = Parent[Here.dir]
<1> DEFINE n == Len(stack)
<1>1. n \in Nat /\ n >= 1 /\ DOMAIN stack = 1..n /\ Here = stack[n]
  BY DEF Work, LoadTypes, Here
<1>2. n # 1
  <2>1. ASSUME n = 1
        PROVE  FALSE
    <3>1. Here.dir \in RootDirs
      BY <1>1, <2>1 DEF Work, Nesting
    <3>2. Parent[Here.dir] = NoFile
      BY <3>1 DEF RootDirs, DirsFor, Roots
    <3> QED BY <3>2, FileAssumption DEF Files
  <2> QED BY <2>1
<1>3. n - 1 \in DOMAIN stack /\ n - 1 < n /\ (n - 1) + 1 = n
  BY <1>1, <1>2
<1>4. Parent[stack[n].dir] = stack[n - 1].dir
  BY <1>3 DEF Work, Nesting
<1> QED
  BY <1>1, <1>3, <1>4

\* The collections above the innermost one stay under way without it.
LEMMA KeptUnderWay ==
  ASSUME Work, stack # <<>>, stack' = SubSeq(stack, 1, Len(stack) - 1)
  PROVE  \A i \in DOMAIN stack :
           stack[i].dir = Here.dir \/ (i \in DOMAIN stack' /\ stack'[i] = stack[i])
<1> DEFINE n == Len(stack)
           t == stack'
<1>1. /\ n \in Nat /\ n >= 1 /\ DOMAIN stack = 1..n /\ Here = stack[n]
      /\ stack \in Seq(Frames) /\ stack # <<>> /\ t = SubSeq(stack, 1, Len(stack) - 1)
  BY DEF Work, LoadTypes, Here
<1> HIDE DEF t
<1>3. DOMAIN t = 1..(n - 1) /\ \A i \in 1..(n - 1) : t[i] = stack[i]
  BY <1>1, Popped
<1> HIDE DEF n
<1>2. \A i \in 1..n : i = n \/ i \in 1..(n - 1)
  BY <1>1
<1> QED
  BY <1>1, <1>2, <1>3 DEF t

LEMMA EnterRootStep ==
  ASSUME Work, EnterRoot
  PROVE  Work'
<1>1. status = "loading" /\ raised = "no" /\ stack = <<>>
  BY DEF EnterRoot
<1>2. reading = "read" /\ waiting \subseteq DOMAIN config
  BY <1>1, AtWork DEF Work, LoadTypes
<1>3. PICK id \in waiting :
        \/ HoldsWild(Spelled(config[id])) /\ Raise("other")
        \/ ~HoldsWild(Spelled(config[id])) /\ DirsFor(config[id]) = {} /\ Raise("notExist")
        \/ /\ ~HoldsWild(Spelled(config[id]))
           /\ \E d \in DirsFor(config[id]) : stack' = <<Frame(d)>>
           /\ waiting' = waiting \ {id}
           /\ UNCHANGED <<disk, raised, loaded, status>>
  BY DEF EnterRoot
<1>4. CASE HoldsWild(Spelled(config[id])) /\ Raise("other")
  <2>1. ~TreeAcceptable
    BY <1>2, <1>4 DEF TreeAcceptable
  <2> QED BY <1>1, <1>4, <2>1, RaiseStep
<1>5. CASE DirsFor(config[id]) = {} /\ Raise("notExist")
  <2>1. ~TreeAcceptable
    BY <1>2, <1>5 DEF TreeAcceptable
  <2> QED BY <1>1, <1>5, <2>1, RaiseStep
<1>6. ASSUME NEW d \in DirsFor(config[id]), ~HoldsWild(Spelled(config[id])), stack' = <<Frame(d)>>,
             waiting' = waiting \ {id}, UNCHANGED <<disk, raised, loaded, status>>
      PROVE  Work'
  <2>1. UNCHANGED <<files, layout, views, unlisted, env, config, validating, reading>>
    BY <1>6, DiskStands
  <2>2. d \in Dirs /\ d \in RootDirs
    BY <1>2 DEF DirsFor, Roots, RootDirs
  <2>3. Frame(d) \in Frames /\ Frame(d).dir = d /\ Frame(d).step = "read" /\ Frame(d).subs = {}
    BY <2>2 DEF Frame, Frames
  <2>4. /\ stack' \in Seq(Frames) /\ DOMAIN stack' = {1} /\ Len(stack') = 1 /\ stack' # <<>>
        /\ stack'[1] = Frame(d)
    BY <1>6, <2>3
  <2>5. LoadTypes' /\ Loaded' = Loaded
    BY <1>1, <1>2, <1>6, <2>1, <2>4 DEF Work, LoadTypes, Loaded
  <2>6. Overlays'
    BY <2>3, <2>4 DEF Overlays
  <2>7. Settled'
    BY <1>6, <2>5, TreeStands DEF Work, Settled
  <2>8. Nesting'
    BY <1>6, <2>2, <2>3, <2>4, TreeStands DEF Nesting
  <2>9. Wanted'
    <3>1. DOMAIN stack = {}
      BY <1>1
    <3> QED BY <1>6, <2>1, <2>5, <3>1, TreeStands DEF Work, Wanted
  <2>10. \A e : Done(e)' = Done(e)
    BY <1>6, <2>5, TreeStands DEF Done
  <2>11. NoneLeftOut'
    <3>1. \A e \in Loaded' : \A f \in Subs(e) : Done(f)'
      BY <2>5, <2>10 DEF Work, NoneLeftOut
    <3>2. \A other \in DOMAIN config \ waiting' :
            /\ ~HoldsWild(Spelled(config[other]))
            /\ \E e \in DirsFor(config[other]) : e \in Loaded \/ stack'[1].dir = e
      <4> TAKE other \in DOMAIN config \ waiting'
      <4>1. CASE other = id
        BY <1>6, <2>3, <2>4, <4>1
      <4>2. CASE other # id
        <5>1. other \in DOMAIN config \ waiting
          BY <1>6, <4>2
        <5> QED BY <1>1, <1>2, <5>1 DEF Work, NoneLeftOut
      <4> QED BY <4>1, <4>2
    <3> QED BY <2>1, <2>3, <2>4, <2>5, <3>1, <3>2 DEF NoneLeftOut
  <2>12. Reasons' /\ Ended'
    BY <1>1, <1>6 DEF Reasons, Ended
  <2> QED BY <2>5, <2>6, <2>7, <2>8, <2>9, <2>11, <2>12 DEF Work
<1> QED
  BY <1>3, <1>4, <1>5, <1>6

LEMMA EnterSubCollectionStep ==
  ASSUME Work, EnterSubCollection
  PROVE  Work'
<1> DEFINE n == Len(stack)
<1>1. /\ status = "loading" /\ raised = "no" /\ stack # <<>> /\ Here.step = "subs"
      /\ UNCHANGED <<disk, waiting, raised, loaded, status>>
  BY DEF EnterSubCollection, At
<1>2. UNCHANGED <<files, layout, views, unlisted, env, config, validating, reading>>
  BY <1>1, DiskStands
<1>3. /\ n \in Nat /\ n >= 1 /\ DOMAIN stack = 1..n /\ stack \in Seq(Frames)
      /\ \A i \in DOMAIN stack : stack[i] \in Frames
  BY <1>1 DEF Work, LoadTypes
<1>4. Here = stack[n] /\ n \in DOMAIN stack
  BY <1>3 DEF Here
<1>5. PICK d \in Here.subs : stack' = Append([stack EXCEPT ![n].subs = @ \ {d}], Frame(d))
  BY DEF EnterSubCollection
<1>6. d \in Dirs /\ Parent[d] = Here.dir /\ d \in Subs(Here.dir)
  BY <1>3, <1>4 DEF Work, Nesting, Subs
<1> DEFINE top == [Here EXCEPT !.subs = @ \ {d}]
           under == [stack EXCEPT ![n] = top]
           t == stack'
<1>7. /\ Frame(d) \in Frames /\ Frame(d).dir = d /\ Frame(d).step = "read" /\ Frame(d).subs = {}
      /\ top \in Frames /\ top.dir = Here.dir /\ top.subs = Here.subs \ {d} /\ top.step = Here.step
      /\ top.chain = Here.chain /\ top.seen = Here.seen
  <2>1. /\ Frame(d) \in Frames /\ Frame(d).dir = d /\ Frame(d).step = "read"
        /\ Frame(d).subs = {}
    BY <1>6 DEF Frame, Frames
  <2>2. Here \in Frames
    BY <1>3, <1>4
  <2>3. /\ top \in Frames /\ top.dir = Here.dir /\ top.subs = Here.subs \ {d}
        /\ top.step = Here.step /\ top.chain = Here.chain /\ top.seen = Here.seen
    BY <2>2 DEF Frames
  <2> QED BY <2>1, <2>3
<1>8. t = Append(under, Frame(d))
  BY <1>4, <1>5
<1> HIDE DEF top
<1>9. /\ under \in Seq(Frames) /\ Len(under) = n /\ DOMAIN under = 1..n
      /\ under[n] = top /\ \A i \in 1..(n - 1) : under[i] = stack[i]
  <2>1. stack \in Seq(Frames) /\ stack # <<>> /\ top \in Frames /\ under = [stack EXCEPT ![n] = top]
    BY <1>1, <1>3, <1>7
  <2> HIDE DEF under
  <2> QED BY <2>1, TopReplaced
<1> HIDE DEF under, t
<1>10. /\ t \in Seq(Frames) /\ Len(t) = n + 1 /\ DOMAIN t = 1..(n + 1) /\ t # <<>>
       /\ t[n + 1] = Frame(d) /\ t[n] = top /\ \A i \in 1..(n - 1) : t[i] = stack[i]
  <2>1. /\ t \in Seq(Frames) /\ Len(t) = Len(under) + 1 /\ DOMAIN t = 1..(Len(under) + 1) /\ t # <<>>
        /\ t[Len(under) + 1] = Frame(d) /\ \A i \in 1..Len(under) : t[i] = under[i]
    BY <1>7, <1>8, <1>9, Pushed
  <2>2. n \in 1..n /\ \A i \in 1..(n - 1) : i \in 1..n
    BY <1>3
  <2> QED BY <1>9, <2>1, <2>2
<1> HIDE DEF n
<1>11. \A i \in 1..(n + 1) : i = n + 1 \/ i = n \/ (i \in 1..(n - 1) /\ i < n)
  BY <1>3
<1>12. LoadTypes' /\ Loaded' = Loaded
  BY <1>1, <1>2, <1>10 DEF Work, LoadTypes, Loaded, t
<1>13. Overlays'
  <2> SUFFICES ASSUME NEW i \in 1..(n + 1)
               PROVE  /\ t[i].step # "read" => Chained(t[i]) /\ LayoutOf(t[i].dir) # "both"
                      /\ t[i].step = "subs" => /\ Len(t[i].chain) = 1
                                               /\ t[i].chain[1].inherits = NoFile
                                               /\ validating => Complete(t[i].chain[1])
                                               /\ t[i].dir \notin unlisted
    BY <1>1, <1>2, <1>10, TreeStands DEF Overlays, Complete, t
  <2>1. CASE i = n + 1
    BY <1>7, <1>10, <2>1
  <2>2. CASE i = n
    <3>1. Chained(Here) => Chained(top)
      BY <1>7 DEF Chained
    <3> QED BY <1>4, <1>7, <1>10, <2>2, <3>1 DEF Work, Overlays
  <2>3. CASE i \in 1..(n - 1)
    BY <1>3, <1>10, <2>3 DEF Work, Overlays
  <2> QED BY <1>11, <2>1, <2>2, <2>3
<1>14. Settled'
  BY <1>1, <1>12, TreeStands DEF Work, Settled
<1>15. /\ n \in 1..n /\ t[n].dir = stack[n].dir
       /\ \A i \in 1..n : t[i].dir = stack[i].dir /\ t[i].step = stack[i].step
  BY <1>3, <1>4, <1>7, <1>10, <1>11
<1>16. Nesting'
  <2>1. t[1].dir \in RootDirs
    <3>1. 1 \in 1..n
      BY <1>3
    <3> QED BY <1>1, <1>15, <3>1 DEF Work, Nesting
  <2>2. ASSUME NEW i \in 1..(n + 1)
        PROVE  t[i].subs \subseteq Subs(t[i].dir)
    <3>1. \A k \in 1..n : stack[k].subs \subseteq Subs(stack[k].dir)
      BY <1>3 DEF Work, Nesting
    <3>2. top.subs \subseteq Subs(top.dir)
      <4>1. Here.subs \subseteq Subs(Here.dir)
        BY <1>3, <1>4, <3>1
      <4> QED BY <1>7, <4>1
    <3>3. CASE i = n + 1
      BY <1>7, <1>10, <3>3
    <3>4. CASE i = n
      BY <1>10, <3>2, <3>4
    <3>5. CASE i \in 1..(n - 1)
      BY <1>3, <1>10, <3>1, <3>5
    <3> QED BY <1>11, <3>3, <3>4, <3>5
  <2>3. ASSUME NEW i \in 1..(n + 1), i < n + 1
        PROVE  t[i].step = "subs" /\ Parent[t[i + 1].dir] = t[i].dir
    <3>1. CASE i = n
      BY <1>1, <1>4, <1>6, <1>7, <1>10, <3>1
    <3>2. CASE i \in 1..(n - 1) /\ i < n
      <4>1. i \in 1..n /\ i + 1 \in 1..n
        BY <1>3, <3>2
      <4> QED BY <1>3, <1>15, <3>2, <4>1 DEF Work, Nesting, n
    <3> QED BY <1>3, <1>11, <2>3, <3>1, <3>2
  <2> QED BY <1>1, <1>10, <2>1, <2>2, <2>3, TreeStands DEF Nesting, t
<1>17. Wanted'
  <2>1. \A i \in DOMAIN stack : i \in DOMAIN stack' /\ stack'[i].dir = stack[i].dir
    BY <1>3, <1>10, <1>15 DEF t
  <2> QED BY <1>1, <1>2, <1>12, <2>1, TreeStands DEF Work, Wanted
<1>18. \A e : Done(e)' = Done(e)
  BY <1>1, <1>12, TreeStands DEF Done
<1>19. NoneLeftOut'
  <2>1. \A e \in Loaded' : \A f \in Subs(e) : Done(f)'
    BY <1>12, <1>18 DEF Work, NoneLeftOut
  <2>2. ASSUME NEW i \in 1..(n + 1), t[i].step = "subs", NEW e \in Subs(t[i].dir) \ t[i].subs
        PROVE  Done(e) \/ (i < n + 1 /\ t[i + 1].dir = e)
    <3>1. CASE i = n + 1
      BY <1>7, <1>10, <2>2, <3>1
    <3>2. CASE i = n
      <4>1. e = d \/ e \in Subs(Here.dir) \ Here.subs
        BY <1>7, <1>10, <2>2, <3>2
      <4>2. CASE e = d
        BY <1>3, <1>7, <1>10, <3>2, <4>2
      <4>3. CASE e \in Subs(Here.dir) \ Here.subs
        <5>1. ~(n < Len(stack))
          BY <1>3 DEF n
        <5> QED BY <1>1, <1>4, <4>3, <5>1 DEF Work, NoneLeftOut
      <4> QED BY <4>1, <4>2, <4>3
    <3>3. CASE i \in 1..(n - 1) /\ i < n
      <4>1. i \in 1..n /\ i + 1 \in 1..n /\ i < n + 1
        BY <1>3, <3>3
      <4> QED BY <1>3, <1>10, <1>15, <2>2, <3>3, <4>1 DEF Work, NoneLeftOut, n
    <3> QED BY <1>11, <3>1, <3>2, <3>3
  <2>3. \A id \in DOMAIN config \ waiting :
          /\ ~HoldsWild(Spelled(config[id]))
          /\ \E e \in DirsFor(config[id]) : e \in Loaded \/ t[1].dir = e
    <3>1. 1 \in 1..n
      BY <1>3
    <3> QED BY <1>1, <1>15, <3>1, AtWork DEF Work, NoneLeftOut
  <2> QED BY <1>1, <1>2, <1>10, <1>12, <1>18, <2>1, <2>2, <2>3 DEF NoneLeftOut, t
<1>20. Reasons' /\ Ended'
  BY <1>1 DEF Reasons, Ended
<1> QED
  BY <1>12, <1>13, <1>14, <1>16, <1>17, <1>19, <1>20 DEF Work

\* The innermost collection is a directory that must be read.
LEMMA HereIs ==
  ASSUME Work, stack # <<>>
  PROVE  /\ Len(stack) \in DOMAIN stack /\ Here = stack[Len(stack)]
         /\ Here \in Frames /\ Here.dir \in Dirs /\ Here.dir \in Files /\ Here.dir \in Reached
         /\ Here.subs \subseteq Subs(Here.dir)
         /\ Here.step # "read" => Chained(Here) /\ LayoutOf(Here.dir) # "both"
<1>1. Len(stack) \in DOMAIN stack
  BY DEF Work, LoadTypes
<1>2. Here = stack[Len(stack)]
  BY DEF Here
<1>3. Here \in Frames /\ Here.dir \in Reached
  BY <1>1, <1>2, Working DEF Work
<1>4. Here.dir \in Dirs /\ Here.dir \in Files
  BY <1>3 DEF Frames, Files
<1> QED
  BY <1>1, <1>2, <1>3, <1>4 DEF Work, Overlays, Nesting

LEMMA ReadDefinitionFileStep ==
  ASSUME Work, ReadDefinitionFile
  PROVE  Work'
<1> DEFINE d == Here.dir
           file == files[d]
           F == [Here EXCEPT !.seen = <<d>>, !.chain = <<file>>, !.step = "inherit"]
<1>1. status = "loading" /\ raised = "no" /\ stack # <<>>
  BY DEF ReadDefinitionFile, At
<1>2. /\ Here \in Frames /\ d \in Dirs /\ d \in Files /\ d \in Reached
      /\ Here.subs \subseteq Subs(d)
  BY <1>1, HereIs
<1>3. \/ file = Absent /\ Raise("notExist")
      \/ file # Absent /\ LayoutOf(d) = "both" /\ Raise("other")
      \/ file = Garbage /\ LayoutOf(d) # "both" /\ Raise("other")
      \/ /\ file \notin {Absent, Garbage} /\ LayoutOf(d) # "both"
         /\ Becomes(F) /\ UNCHANGED <<disk, waiting, raised, loaded, status>>
  BY DEF ReadDefinitionFile
<1>4. CASE file = Absent /\ Raise("notExist")
  <2>1. MissingBase(d) /\ ~Readable(d)
    BY <1>2, <1>4, NoWalk
  <2> QED BY <1>1, <1>2, <1>4, <2>1, NothingBelow, RaiseStep
<1>5. CASE file # Absent /\ LayoutOf(d) = "both" /\ Raise("other")
  <2>1. ~Tolerated(d)
    BY <1>5 DEF Tolerated, Skippable
  <2>2. ~TreeAcceptable
    BY <1>2, <2>1, UntoleratedIsFatal
  <2> QED BY <1>1, <1>5, <2>2, RaiseStep
<1>6. CASE file = Garbage /\ Raise("other")
  <2>1. ~MissingBase(d) /\ ~Readable(d)
    BY <1>2, <1>6, NoWalk, FileAssumption
  <2>2. ~TreeAcceptable
    BY <1>2, <2>1, UntoleratedIsFatal DEF Tolerated
  <2> QED BY <1>1, <1>6, <2>2, RaiseStep
<1>7. CASE /\ file \notin {Absent, Garbage} /\ LayoutOf(d) # "both"
           /\ Becomes(F) /\ UNCHANGED <<disk, waiting, raised, loaded, status>>
  <2>1. file \in Definition
    BY <1>2, <1>7 DEF Work, LoadTypes
  <2>2. <<d>> \in Seq(Files) /\ <<file>> \in Seq(Definition)
    BY <1>2, <2>1
  <2>3. /\ F \in Frames /\ F.dir = d /\ F.subs = Here.subs /\ F.step = "inherit"
        /\ F.seen = <<d>> /\ F.chain = <<file>>
    BY <1>2, <2>2 DEF Frames
  <2>4. Walks(<<d>>) /\ Says(file, <<d>>, 1)
    BY <1>2, <2>1, ChainBegins
  <2>5. /\ Len(<<file>>) = 1 /\ Len(<<d>>) = 1 /\ <<d>>[1] = d /\ <<file>>[1] = file
        /\ 1 \in 1..1 /\ 1..(1 - 1) = {} /\ ~(1 < 1)
    OBVIOUS
  <2> HIDE DEF F
  <2>6. Chained(F)
    BY <2>3, <2>4, <2>5 DEF Chained
  <2> QED BY <1>1, <1>2, <1>7, <2>3, <2>6, BecomesStep
<1> QED
  BY <1>3, <1>4, <1>5, <1>6, <1>7

\* As long as the farthest definition inherits, nothing has been overlaid.
LEMMA StillReading ==
  ASSUME NEW F \in Frames, Chained(F), F.chain[Len(F.chain)].inherits # NoFile
  PROVE  /\ Len(F.chain) = Len(F.seen) /\ Walks(F.seen) /\ F.seen[1] = F.dir
         /\ F.chain[Len(F.chain)] = files[F.seen[Len(F.seen)]]
         /\ \A i \in DOMAIN F.seen : F.chain[i] = files[F.seen[i]]
         /\ F.chain[Len(F.chain)].inherits \in Files
<1> DEFINE n == Len(F.chain)
           m == Len(F.seen)
<1>1. n \in 1..m /\ m \in Nat /\ Walks(F.seen) /\ F.seen[1] = F.dir
  BY DEF Chained, Frames
<1>2. n = m
  BY <1>1 DEF Chained
<1>3. F.chain[n] = files[F.seen[n]] /\ \A i \in 1..(n - 1) : F.chain[i] = files[F.seen[i]]
  BY <1>2 DEF Chained
<1>4. \A i \in DOMAIN F.seen : F.chain[i] = files[F.seen[i]]
  BY <1>1, <1>2, <1>3 DEF Frames
<1>5. F.chain[n] \in Definition
  BY <1>1, <1>2 DEF Frames
<1> QED
  BY <1>1, <1>2, <1>3, <1>4, <1>5 DEF Definition

LEMMA LoadInheritedBaseStep ==
  ASSUME Work, LoadInheritedBase
  PROVE  Work'
<1> DEFINE d == Here.dir
           base == Farthest.inherits
           s == Here.seen
           F == [Here EXCEPT !.seen = Append(@, base), !.chain = Append(@, files[base])]
<1>1. status = "loading" /\ raised = "no" /\ stack # <<>> /\ Here.step = "inherit" /\ base # NoFile
  BY DEF LoadInheritedBase, At
<1>2. /\ Here \in Frames /\ d \in Dirs /\ d \in Reached
      /\ Here.subs \subseteq Subs(d) /\ Chained(Here) /\ LayoutOf(d) # "both"
  BY <1>1, HereIs
<1>3. /\ Len(Here.chain) = Len(s) /\ Walks(s) /\ s[1] = d
      /\ base = files[s[Len(s)]].inherits /\ base \in Files
      /\ \A i \in DOMAIN s : Here.chain[i] = files[s[i]]
  BY <1>1, <1>2, StillReading DEF Farthest
<1>4. \/ Visited(base) /\ Raise("other")
      \/ ~Visited(base) /\ files[base] = Absent /\ Raise("notExist")
      \/ ~Visited(base) /\ files[base] = Garbage /\ Raise("other")
      \/ /\ ~Visited(base) /\ files[base] \notin {Absent, Garbage}
         /\ Becomes(F) /\ UNCHANGED <<disk, waiting, raised, loaded, status>>
  BY DEF LoadInheritedBase
<1> HIDE DEF base
<1>5. CASE Visited(base) /\ Raise("other")
  <2>1. ~Readable(d) /\ ~MissingBase(d)
    BY <1>3, <1>5, WalkTurns DEF Visited
  <2>2. ~TreeAcceptable
    BY <1>2, <2>1, UntoleratedIsFatal DEF Tolerated
  <2> QED BY <1>1, <1>5, <2>2, RaiseStep
<1>6. CASE ~Visited(base) /\ files[base] = Absent /\ Raise("notExist")
  <2>1. ~Readable(d) /\ MissingBase(d)
    BY <1>3, <1>6, WalkStops DEF Visited
  <2> QED BY <1>1, <1>2, <1>6, <2>1, NothingBelow, RaiseStep
<1>7. CASE ~Visited(base) /\ files[base] = Garbage /\ Raise("other")
  <2>1. ~Readable(d) /\ ~MissingBase(d)
    BY <1>3, <1>7, WalkStops, FileAssumption DEF Visited
  <2>2. ~TreeAcceptable
    BY <1>2, <2>1, UntoleratedIsFatal DEF Tolerated
  <2> QED BY <1>1, <1>7, <2>2, RaiseStep
<1>8. CASE /\ ~Visited(base) /\ files[base] \notin {Absent, Garbage}
           /\ Becomes(F) /\ UNCHANGED <<disk, waiting, raised, loaded, status>>
  <2> DEFINE m == Len(s)
             longer == Append(s, base)
             chain == Append(Here.chain, files[base])
  <2>1. files[base] \in Definition
    BY <1>3, <1>8 DEF Work, LoadTypes
  <2>2. /\ Walks(longer) /\ Len(longer) = m + 1 /\ longer[m + 1] = base
        /\ (\A i \in DOMAIN s : longer[i] = s[i])
        /\ Says(files[base], longer, m + 1)
    BY <1>3, <1>8, <2>1, ChainGrows DEF Visited
  <2>3. /\ m \in Nat /\ m >= 1 /\ DOMAIN s = 1..m /\ s \in Seq(Files)
        /\ Here.chain \in Seq(Definition) /\ Len(Here.chain) = m
    BY <1>2, <1>3 DEF Walks, Frames
  <2>4. /\ chain \in Seq(Definition) /\ Len(chain) = m + 1 /\ chain[m + 1] = files[base]
        /\ \A i \in 1..m : chain[i] = Here.chain[i]
    BY <2>1, <2>3
  <2>5. longer \in Seq(Files) /\ longer[1] = s[1]
    BY <1>3, <2>3
  <2>6. /\ F \in Frames /\ F.dir = d /\ F.subs = Here.subs /\ F.step = "inherit"
        /\ F.seen = longer /\ F.chain = chain
    <3> HIDE DEF longer, chain
    <3>1. F = [Here EXCEPT !.seen = longer, !.chain = chain]
      BY DEF longer, chain
    <3> QED BY <1>1, <1>2, <2>4, <2>5, <3>1 DEF Frames
  <2> HIDE DEF F, longer, chain
  <2>7. Chained(F)
    <3> HIDE DEF m
    <3>1. m + 1 \in 1..(m + 1) /\ ~(m + 1 < m + 1) /\ (m + 1) - 1 = m
      BY <2>3
    <3>2. \A i \in 1..m : chain[i] = files[longer[i]]
      BY <1>3, <2>2, <2>3, <2>4
    <3>3. Len(F.chain) = m + 1 /\ Len(F.seen) = m + 1
      BY <2>2, <2>4, <2>6
    <3> QED BY <1>3, <2>2, <2>4, <2>5, <2>6, <3>1, <3>2, <3>3 DEF Chained
  <2> QED BY <1>1, <1>2, <1>8, <2>6, <2>7, BecomesStep
<1> QED
  BY <1>4, <1>5, <1>6, <1>7, <1>8

LEMMA OverlayBaseStep ==
  ASSUME Work, OverlayBase
  PROVE  Work'
<1> DEFINE d == Here.dir
           s == Here.seen
           n == Len(Here.chain)
           over == Overlay(Here.chain[n - 1], Here.chain[n])
           chain == Append(SubSeq(Here.chain, 1, n - 2), over)
           F == [Here EXCEPT !.chain = chain]
<1>1. /\ status = "loading" /\ raised = "no" /\ stack # <<>> /\ Here.step = "inherit"
      /\ Here.chain[n].inherits = NoFile /\ n > 1
      /\ Becomes(F) /\ UNCHANGED <<disk, waiting, raised, loaded, status>>
  BY DEF OverlayBase, At, Farthest
<1>2. /\ Here \in Frames /\ d \in Dirs /\ Here.subs \subseteq Subs(d)
      /\ Chained(Here) /\ LayoutOf(d) # "both"
  BY <1>1, HereIs
<1>3. /\ n \in 2..Len(s) /\ Len(s) \in Nat /\ Here.chain \in Seq(Definition) /\ Walks(s)
      /\ DOMAIN Here.chain = 1..n /\ s[1] = d
  BY <1>1, <1>2 DEF Chained, Frames
<1>4. /\ \A i \in 1..(n - 1) : Here.chain[i] = files[s[i]]
      /\ Says(Here.chain[n], s, n)
  BY <1>2 DEF Chained
<1>5. Ends(s)
  BY <1>1, <1>2 DEF Chained, Ends, Frames
<1>6. over \in Definition /\ over.inherits = NoFile
  <2>1. Here.chain[n - 1] \in Definition /\ Here.chain[n] \in Definition
    BY <1>3
  <2> QED BY <2>1 DEF Overlay, Definition
<1>7. Says(over, s, n - 1)
  <2>1. n - 1 \in 1..(n - 1)
    BY <1>3
  <2> QED BY <1>3, <1>4, <2>1, OverlaySays
<1> HIDE DEF over
<1>8. /\ chain \in Seq(Definition) /\ Len(chain) = n - 1 /\ chain[n - 1] = over
      /\ \A i \in 1..(n - 2) : chain[i] = Here.chain[i]
  <2> DEFINE k == n - 2
             front == SubSeq(Here.chain, 1, k)
  <2>1. k \in Nat /\ k \in Int /\ 1 \in Int /\ n = k + 2
    BY <1>3
  <2>2. \A i \in 1..k : Here.chain[i] \in Definition
    BY <1>3
  <2> HIDE DEF k
  <2>3. front \in Seq(Definition)
    BY <2>1, <2>2, SubSeqProperties
  <2>4. Len(front) = k
    BY <2>1, <2>2, SubSeqProperties
  <2>5. \A i \in 1..k : front[i] = Here.chain[i]
    BY <2>1, <2>2
  <2>6. chain = Append(front, over)
    BY DEF k
  <2> HIDE DEF front, chain
  <2>7. /\ chain \in Seq(Definition) /\ Len(chain) = k + 1 /\ chain[k + 1] = over
        /\ \A i \in 1..k : chain[i] = front[i]
    BY <1>6, <2>1, <2>3, <2>4, <2>6
  <2>8. n - 1 = k + 1 /\ n - 2 = k
    BY <2>1 DEF k
  <2> QED BY <2>5, <2>7, <2>8
<1> HIDE DEF chain
<1>9. /\ F \in Frames /\ F.dir = d /\ F.subs = Here.subs /\ F.step = "inherit"
      /\ F.seen = s /\ F.chain = chain
  BY <1>1, <1>2, <1>8 DEF Frames
<1> HIDE DEF F
<1>10. Chained(F)
  <2>1. n - 1 \in 1..Len(s) /\ n - 1 < Len(s) /\ n - 1 # Len(s) /\ (n - 1) - 1 = n - 2
    BY <1>3
  <2>2. \A i \in 1..(n - 2) : chain[i] = files[s[i]]
    BY <1>3, <1>4, <1>8
  <2>3. Len(F.chain) = n - 1 /\ Len(F.seen) = Len(s)
    BY <1>8, <1>9
  <2> HIDE DEF n, s
  <2> QED BY <1>3, <1>5, <1>6, <1>7, <1>8, <1>9, <2>1, <2>2, <2>3 DEF Chained
<1> QED
  BY <1>1, <1>2, <1>9, <1>10, BecomesStep

LEMMA ValidateMergedStep ==
  ASSUME Work, ValidateMerged
  PROVE  Work'
<1> DEFINE d == Here.dir
           def == Here.chain[1]
           F == [Here EXCEPT !.step = "subs", !.subs = Subs(d)]
<1>1. /\ status = "loading" /\ raised = "no" /\ stack # <<>> /\ Here.step = "inherit"
      /\ Len(Here.chain) = 1 /\ Farthest = def /\ def.inherits = NoFile
      /\ \/ validating /\ ~Complete(def) /\ Raise("other")
         \/ d \in unlisted /\ Raise("other")
         \/ /\ validating => Complete(def)
            /\ d \notin unlisted
            /\ Becomes(F) /\ UNCHANGED <<disk, waiting, raised, loaded, status>>
  BY DEF ValidateMerged, At, Farthest
<1>2. /\ Here \in Frames /\ d \in Dirs /\ d \in Reached
      /\ Chained(Here) /\ LayoutOf(d) # "both"
  BY <1>1, HereIs
<1>3. CASE validating /\ ~Complete(def) /\ Raise("other")
  <2>1. Readable(d) /\ \A g \in Fields : def.fields[g] = Nearest(d, g)
    BY <1>1, <1>2, ChainedIsReadable
  <2>2. \E g \in Required : Nearest(d, g) = Unset
    BY <1>3, <2>1, FieldAssumption DEF Complete, Fields
  <2>3. ~Tolerated(d)
    BY <1>3, <2>1, <2>2 DEF Tolerated
  <2> QED BY <1>1, <1>2, <1>3, <2>3, UntoleratedIsFatal, RaiseStep
<1>5. CASE d \in unlisted /\ Raise("other")
  <2>1. ~Tolerated(d)
    BY <1>1, <1>2, <1>5, ChainedIsReadable DEF Tolerated
  <2> QED BY <1>1, <1>2, <1>5, <2>1, UntoleratedIsFatal, RaiseStep
<1>4. CASE /\ validating => Complete(def)
           /\ d \notin unlisted
           /\ Becomes(F) /\ UNCHANGED <<disk, waiting, raised, loaded, status>>
  <2>1. Subs(d) \subseteq Dirs
    BY DEF Subs
  <2>2. /\ F \in Frames /\ F.dir = d /\ F.subs = Subs(d) /\ F.step = "subs"
        /\ F.seen = Here.seen /\ F.chain = Here.chain
    BY <1>2, <2>1 DEF Frames
  <2> HIDE DEF F
  <2>3. Chained(F)
    BY <1>2, <2>2 DEF Chained
  <2> QED BY <1>1, <1>2, <1>4, <2>2, <2>3, BecomesStep
<1> QED
  BY <1>1, <1>3, <1>4, <1>5

LEMMA LoadViewsStep ==
  ASSUME Work, LoadViews
  PROVE  Work'
<1> DEFINE n == Len(stack)
           def == Farthest
<1>0. PICK d : d = Here.dir
  OBVIOUS
<1>1. /\ status = "loading" /\ raised = "no" /\ stack # <<>> /\ Here.step = "subs" /\ Here.subs = {}
      /\ \/ views[d] = "vanished" /\ Raise("notExist")
         \/ /\ views[d] = "unreadable" \/ (views[d] = "invalid" /\ validating)
            /\ Raise("other")
         \/ /\ views[d] \in IF validating THEN {"none", "valid"} ELSE {"none", "valid", "invalid"}
            /\ loaded' = [loaded EXCEPT ![d] = def]
            /\ stack' = SubSeq(stack, 1, n - 1)
            /\ UNCHANGED <<disk, waiting, raised, status>>
  BY <1>0 DEF LoadViews, At
<1>2. /\ n \in DOMAIN stack /\ Here = stack[n] /\ Here \in Frames /\ d \in Dirs /\ d \in Reached
      /\ Chained(Here) /\ LayoutOf(d) # "both"
  BY <1>0, <1>1, HereIs
<1>3. /\ Len(Here.chain) = 1 /\ Here.chain[1].inherits = NoFile
      /\ validating => Complete(Here.chain[1])
      /\ d \notin unlisted
  BY <1>0, <1>1, <1>2 DEF Work, Overlays
<1>4. def = Here.chain[1] /\ def \in Definition
  BY <1>2, <1>3 DEF Farthest, Frames
<1>5. /\ Walks(Here.seen) /\ Ends(Here.seen) /\ Here.seen[1] = d /\ Says(def, Here.seen, 1)
      /\ Readable(d) /\ Here.seen \in Seq(Files)
      /\ \A g \in Fields : def.fields[g] = Nearest(d, g)
  BY <1>0, <1>2, <1>3, <1>4, ChainedIsReadable DEF Frames
<1>6. validating => \A g \in Required : Nearest(d, g) # Unset
  BY <1>3, <1>4, <1>5, FieldAssumption DEF Complete, Fields
<1>11. \A e \in Subs(d) : Done(e)
  <2>1. ~(n < Len(stack))
    BY <1>2 DEF Work, LoadTypes
  <2> QED BY <1>0, <1>1, <1>2, <2>1 DEF Work, NoneLeftOut
<1>7. CASE /\ views[d] = "unreadable" \/ (views[d] = "invalid" /\ validating)
           /\ Raise("other")
  <2>1. ~Tolerated(d)
    BY <1>5, <1>7 DEF Tolerated
  <2> QED BY <1>1, <1>2, <1>7, <2>1, UntoleratedIsFatal, RaiseStep
<1>9. CASE views[d] = "vanished" /\ Raise("notExist")
  <2>1. d \notin Kept
    BY <1>9 DEF Kept
  <2>2. ASSUME Skippable(d)
        PROVE  Harmless(d)
    <3>1. Tolerated(d)
      BY <1>2, <1>3, <1>5, <1>6, <1>9, <2>2 DEF Tolerated
    <3> DEFINE S == {d}
    <3>2. S \subseteq Dirs /\ (\A e \in S : Tolerated(e) /\ \A c \in Subs(e) : Done(c))
      BY <1>2, <1>11, <3>1
    <3>3. \A f \in Loaded : \A e \in Subs(f) : Done(e)
      BY DEF Work, NoneLeftOut
    <3> HIDE DEF S
    <3>4. \A e \in From(S, Dirs) \cap Reached : Tolerated(e)
      BY <3>2, <3>3, Covered DEF Work
    <3> QED BY <2>1, <3>4 DEF Harmless, Under, S
  <2> QED BY <1>0, <1>1, <1>9, <2>1, <2>2, RaiseStep
<1>8. CASE /\ views[d] \in IF validating THEN {"none", "valid"} ELSE {"none", "valid", "invalid"}
           /\ loaded' = [loaded EXCEPT ![d] = def]
           /\ stack' = SubSeq(stack, 1, n - 1)
           /\ UNCHANGED <<disk, waiting, raised, status>>
  <2>1. UNCHANGED <<files, layout, views, unlisted, env, config, validating, reading>>
    BY <1>8, DiskStands
  <2> HIDE DEF def
  <2>2. def # Absent
    BY <1>4, FileAssumption
  <2>3. /\ loaded' \in [Dirs -> Definition \cup {Absent}] /\ loaded'[d] = def
        /\ \A e \in Dirs \ {d} : loaded'[e] = loaded[e]
    BY <1>2, <1>4, <1>8 DEF Work, LoadTypes
  <2>4. Loaded' = Loaded \cup {d}
    BY <1>2, <2>2, <2>3 DEF Loaded
  <2>5. Settled'
    <3>1. ASSUME NEW e \in Loaded'
          PROVE  \E s \in Seq(Files) : Walks(s) /\ Ends(s) /\ s[1] = e /\ Says(loaded'[e], s, 1)
      <4>1. CASE e = d
        BY <1>5, <2>3, <4>1
      <4>2. CASE e # d
        <5>1. e \in Loaded /\ loaded'[e] = loaded[e]
          BY <2>3, <2>4, <4>2 DEF Loaded
        <5> QED BY <5>1 DEF Work, Settled
      <4> QED BY <4>1, <4>2
    <3> QED BY <1>8, <3>1, TreeStands DEF Settled
  <2>6. Wanted'
    <3>1. d \in Reached /\ d \in Kept /\ Tolerated(d)
      BY <1>2, <1>3, <1>5, <1>6, <1>8 DEF Kept, Tolerated
    <3>2. ASSUME NEW e \in Loaded'
          PROVE  e \in Reached /\ e \in Kept /\ Tolerated(e)
      BY <2>4, <3>1, <3>2 DEF Work, Wanted
    <3>3. ASSUME NEW e \in Loaded', Parent[e] \in Dirs
          PROVE  Parent[e] \in Loaded' \/ \E i \in DOMAIN stack' : stack'[i].dir = Parent[e]
      <4>1. Parent[e] \in Loaded \/ \E i \in DOMAIN stack : stack[i].dir = Parent[e]
        <5>1. CASE e = d
          BY <1>0, <1>2, <3>3, <5>1, ParentUnderWay DEF Work
        <5>2. CASE e # d
          BY <2>4, <3>3, <5>2 DEF Work, Wanted
        <5> QED BY <5>1, <5>2
      <4>2. \A i \in DOMAIN stack : stack[i].dir = d \/ (i \in DOMAIN stack' /\ stack'[i] = stack[i])
        BY <1>0, <1>1, <1>8, KeptUnderWay DEF Work
      <4> QED BY <2>4, <4>1, <4>2
    <3> QED BY <1>8, <3>2, <3>3, TreeStands DEF Wanted
  <2>7. Done(d)'
    BY <2>4 DEF Done
  <2>8. \A e \in Subs(d) : Done(e)'
    BY <1>8, <1>11, <2>4, TreeStands DEF Done
  <2>9. raised' = "no" /\ UNCHANGED <<disk, waiting, status>>
    BY <1>1, <1>8
  <2>10. stack' = SubSeq(stack, 1, Len(stack) - 1)
    BY <1>8
  <2> QED BY <1>0, <1>1, <2>3, <2>4, <2>5, <2>6, <2>7, <2>8, <2>9, <2>10, PopStep
<1> QED
  BY <1>1, <1>7, <1>8, <1>9
LEMMA SkipDirectoryStep ==
  ASSUME Work, SkipDirectory
  PROVE  Work'
<1>0. PICK d : d = Here.dir
  OBVIOUS
<1>1. /\ status = "loading" /\ raised = "notExist" /\ Len(stack) > 1 /\ LayoutOf(d) = "shared"
      /\ stack' = SubSeq(stack, 1, Len(stack) - 1)
      /\ raised' = "no" /\ UNCHANGED <<disk, waiting, status>>
      /\ loaded' = [e \in Dirs |-> IF e \in Under(d) THEN Absent ELSE loaded[e]]
  BY <1>0 DEF SkipDirectory
<1>2. stack # <<>> /\ Len(stack) # 1 /\ Len(stack) \in DOMAIN stack
  BY <1>1 DEF Work, LoadTypes
<1>3. Parent[d] \in Dirs
  BY <1>0, <1>1, <1>2, Working DEF Work, Here
<1>4. d \notin Kept /\ (Skippable(d) => Harmless(d))
  BY <1>0, <1>1, <1>2 DEF Work, Reasons
<1>5. d \in Dirs /\ Harmless(d)
  BY <1>0, <1>1, <1>2, <1>3, <1>4, HereIs, FileAssumption DEF Skippable, Files
<1>6. Loaded' = Loaded \ Under(d)
  BY <1>1 DEF Loaded
<1>13. d \notin Loaded
  BY <1>4 DEF Work, Wanted
<1>7. Done(d)'
  BY <1>1, <1>5, TreeStands DEF Done
<1>9. Settled'
  <2>1. \A e \in Loaded' : e \in Loaded /\ loaded'[e] = loaded[e]
    BY <1>1, <1>6 DEF Loaded
  <2>2. \A e \in Loaded' : \E s \in Seq(Files) :
          Walks(s) /\ Ends(s) /\ s[1] = e /\ Says(loaded'[e], s, 1)
    BY <2>1 DEF Work, Settled
  <2> QED BY <1>1, <2>2, TreeStands DEF Settled
<1>10. Wanted'
  <2>1. ASSUME NEW e \in Loaded'
        PROVE  e \in Reached /\ e \in Kept /\ Tolerated(e)
    BY <1>6, <2>1 DEF Work, Wanted
  <2>2. ASSUME NEW e \in Loaded', Parent[e] \in Dirs
        PROVE  Parent[e] \in Loaded' \/ \E i \in DOMAIN stack' : stack'[i].dir = Parent[e]
    <3>1. e \in Loaded /\ e \in Dirs /\ e \notin Under(d)
      BY <1>6, <2>2 DEF Loaded
    <3>2. Parent[e] \notin Under(d) /\ Parent[e] # d
      BY <1>5, <2>2, <3>1, UnderIs
    <3>3. Parent[e] \in Loaded \/ \E i \in DOMAIN stack : stack[i].dir = Parent[e]
      BY <2>2, <3>1 DEF Work, Wanted
    <3>4. \A i \in DOMAIN stack : stack[i].dir = d \/ (i \in DOMAIN stack' /\ stack'[i] = stack[i])
      BY <1>0, <1>1, <1>2, KeptUnderWay DEF Work
    <3> QED BY <1>6, <3>2, <3>3, <3>4
  <2> QED BY <1>1, <2>1, <2>2, TreeStands DEF Wanted
<1>11. loaded' \in [Dirs -> Definition \cup {Absent}]
  BY <1>1 DEF Work, LoadTypes
<1> QED
  BY <1>0, <1>1, <1>2, <1>6, <1>7, <1>9, <1>10, <1>11, <1>13, PopStep

\* Ending the load changes nothing else.
LEMMA EndStep ==
  ASSUME Work, status # "configuring", UNCHANGED <<disk, waiting, stack, raised, loaded>>,
         status' \in {"loaded", "failed"}, Ended', status' = "loaded" => reading = "read"
  PROVE  Work'
<1>1. UNCHANGED <<files, layout, views, unlisted, env, config, validating, reading>>
  BY DiskStands
<1>2. LoadTypes' /\ Loaded' = Loaded
  BY <1>1 DEF Work, LoadTypes, Loaded
<1>3. Overlays'
  BY <1>1, TreeStands DEF Work, Overlays, Complete
<1>4. Settled'
  BY <1>2, TreeStands DEF Work, Settled
<1>5. Nesting'
  BY TreeStands DEF Work, Nesting
<1>6. Wanted'
  BY <1>1, <1>2, TreeStands DEF Work, Wanted
<1>7. \A d : Done(d)' = Done(d)
  BY <1>2, TreeStands DEF Done
<1>8. NoneLeftOut'
  BY <1>1, <1>2, <1>7 DEF Work, NoneLeftOut
<1>9. Reasons'
  BY TreeStands DEF Work, Reasons, Here
<1> QED
  BY <1>2, <1>3, <1>4, <1>5, <1>6, <1>8, <1>9 DEF Work

LEMMA FailLoadStep ==
  ASSUME Work, FailLoad
  PROVE  Work'
<1>1. /\ status = "loading" /\ raised # "no"
      /\ raised = "notExist" => ~(Len(stack) > 1 /\ LayoutOf(Here.dir) = "shared")
      /\ status' = "failed" /\ UNCHANGED <<disk, waiting, stack, raised, loaded>>
  BY DEF FailLoad, Fail
<1>2. reading = "read"
  BY <1>1, AtWork
<1>3. ~TreeAcceptable
  <2>1. CASE raised = "other" \/ stack = <<>>
    BY <1>1, <2>1 DEF Work, Reasons, LoadTypes
  <2>2. CASE raised = "notExist" /\ stack # <<>>
    <3> DEFINE d == Here.dir
    <3>1. d \notin Kept
      BY <2>2 DEF Work, Reasons
    <3>2. d \in Reached /\ Here = stack[Len(stack)] /\ Len(stack) \in DOMAIN stack
      BY <2>2, HereIs
    <3>3. ~Skippable(d)
      <4>1. CASE Len(stack) > 1
        BY <1>1, <2>2, <4>1 DEF Skippable
      <4>2. CASE ~(Len(stack) > 1)
        <5>0. Len(stack) \in Nat /\ DOMAIN stack = 1..Len(stack)
          BY DEF Work, LoadTypes
        <5>1. Len(stack) = 1
          BY <3>2, <4>2, <5>0
        <5>2. d \in RootDirs
          BY <2>2, <3>2, <5>1 DEF Work, Nesting
        <5> QED BY <5>2 DEF RootDirs, DirsFor, Roots, Skippable
      <4> QED BY <4>1, <4>2
    <3>4. ~Tolerated(d)
      BY <3>1, <3>2, <3>3, ReachedIs DEF Tolerated, Kept
    <3> QED BY <3>2, <3>4, UntoleratedIsFatal
  <2> QED BY <1>1, <2>1, <2>2 DEF Work, LoadTypes
<1>4. Ended'
  <2>1. ~TreeAcceptable' /\ reading' = "read"
    BY <1>1, <1>2, <1>3, TreeStands, DiskStands
  <2> QED BY <1>1, <2>1 DEF Ended
<1> QED
  BY <1>1, <1>4, EndStep

\* When there is nothing left to visit, what should be loaded is, and no more.
LEMMA AllIsLoaded ==
  ASSUME Work, Finishing
  PROVE  /\ reading = "read" /\ RootDirs \subseteq Loaded /\ Loaded = Expected
         /\ \A d \in Reached : Tolerated(d)
         /\ \A id \in DOMAIN config : DirsFor(config[id]) # {} /\ ~HoldsWild(Spelled(config[id]))
         /\ \A d \in Expected : \A g \in Fields : loaded[d].fields[g] = Nearest(d, g)
<1>1. status = "loading" /\ stack = <<>> /\ waiting = {} /\ reading = "read"
  BY AtWork DEF Finishing
<1>2. \A id \in DOMAIN config : /\ ~HoldsWild(Spelled(config[id]))
                                /\ \E d \in DirsFor(config[id]) : d \in Loaded
  BY <1>1 DEF Work, NoneLeftOut
<1>3. RootDirs \subseteq Loaded
  <2> SUFFICES ASSUME NEW d \in RootDirs
               PROVE  d \in Loaded
    OBVIOUS
  <2>1. PICK id \in DOMAIN config : d \in DirsFor(config[id])
    BY DEF RootDirs
  <2>2. PICK e \in DirsFor(config[id]) : e \in Loaded
    BY <1>2
  <2> QED BY <2>1, <2>2, PlacesAssumption DEF DirsFor
<1>4. Loaded \subseteq Expected
  <2> SUFFICES ASSUME Loaded \ Expected # {}
               PROVE  FALSE
    OBVIOUS
  <2>1. Loaded \ Expected \subseteq Dirs
    BY DEF Loaded
  <2>2. PICK d \in Loaded \ Expected : \A e \in Loaded \ Expected : d <= e
    BY <2>1, FirstDirectory
  <2>3. d \in Dirs /\ d \in Reached /\ d \in Kept
    BY <2>1 DEF Work, Wanted
  <2>4. d \notin From(RootDirs, Kept) /\ Kept \subseteq Dirs
    BY <2>2, <2>3 DEF Expected, Kept
  <2>5. CASE Parent[d] = NoFile
    <3>1. d \in RootDirs
      BY <2>3, <2>5, ReachedIs
    <3> QED BY <2>3, <2>4, <3>1, FromIs
  <2>6. CASE Parent[d] # NoFile
    <3>1. Parent[d] \in Dirs /\ Parent[d] < d
      BY <2>3, <2>6, ParentAssumption DEF Roots
    <3>5. DOMAIN stack = {}
      BY <1>1
    <3>2. Parent[d] \in Int /\ d \in Int /\ DOMAIN stack = {}
      BY <2>3, <3>1, <3>5, DirsAssumption
    <3>3. Parent[d] \in Loaded
      BY <2>2, <3>1, <3>2 DEF Work, Wanted
    <3>4. Parent[d] \in Expected
      BY <2>2, <3>1, <3>2, <3>3
    <3> QED BY <2>3, <2>4, <3>4, FromIs DEF Expected
  <2> QED BY <2>5, <2>6
<1>5. \A d \in Dirs : Parent[d] \in Loaded => Done(d)
  BY DEF Work, NoneLeftOut, Subs
<1>6. Expected \subseteq Loaded
  <2> SUFFICES ASSUME Expected \ Loaded # {}
               PROVE  FALSE
    OBVIOUS
  <2>1. Expected \ Loaded \subseteq Dirs /\ Kept \subseteq Dirs
    BY DEF Expected, Kept
  <2>2. PICK d \in Expected \ Loaded : \A e \in Expected \ Loaded : d <= e
    BY <2>1, FirstDirectory
  <2>3. d \in Dirs /\ d \in Kept /\ d \in From(RootDirs, Kept) /\ d \notin RootDirs
    BY <1>3, <2>1, <2>2 DEF Expected
  <2>4. Parent[d] \in Kept /\ Parent[d] \in From(RootDirs, Kept) /\ Parent[d] \in Dirs
    BY <2>1, <2>3, FromIs
  <2>5. Parent[d] < d /\ Parent[d] \in Int /\ d \in Int
    BY <2>3, <2>4, ParentAssumption, DirsAssumption, FileAssumption DEF Roots, Files
  <2>6. Parent[d] \in Loaded
    BY <2>2, <2>4, <2>5 DEF Expected
  <2> QED BY <1>5, <2>2, <2>3, <2>6 DEF Done, Harmless
<1>7. \A d \in Reached : Tolerated(d)
  <2>1. \A f \in Loaded : \A e \in Subs(f) : Done(e)
    BY DEF Work, NoneLeftOut
  <2>2. RootDirs \subseteq Dirs /\ \A d \in RootDirs : Tolerated(d) /\ \A e \in Subs(d) : Done(e)
    BY <1>3, <2>1 DEF Work, Wanted, Loaded
  <2>3. \A e \in From(RootDirs, Dirs) \cap Reached : Tolerated(e)
    BY <2>1, <2>2, Covered DEF Work
  <2>4. {d \in Dirs : Readable(d)} \subseteq Dirs
    OBVIOUS
  <2>5. Reached \subseteq From(RootDirs, Dirs)
    BY <2>4, FromGrows DEF Reached
  <2> QED BY <2>3, <2>5
<1>8. \A d \in Loaded : \A g \in Fields : loaded[d].fields[g] = Nearest(d, g)
  BY SaysNearest DEF Work, Settled
<1> QED
  BY <1>1, <1>2, <1>3, <1>4, <1>6, <1>7, <1>8

\* The tree is acceptable exactly when what was loaded is sound.
LEMMA FinishedTree ==
  ASSUME Work, ConfigTypes, Finishing
  PROVE  TreeAcceptable <=> Sound
<1>1. /\ reading = "read" /\ RootDirs \subseteq Loaded /\ Loaded = Expected
      /\ \A d \in Reached : Tolerated(d)
      /\ \A id \in DOMAIN config : DirsFor(config[id]) # {} /\ ~HoldsWild(Spelled(config[id]))
      /\ \A d \in Expected : \A g \in Fields : loaded[d].fields[g] = Nearest(d, g)
  BY AllIsLoaded
<1>2. RootDirs = {} <=> DOMAIN config = {}
  BY <1>1 DEF RootDirs
<1>3. ForeignKeysResolve <=> \A d \in Expected : \A g \in Fields : Nearest(d, g) \notin Dangling
  BY <1>1 DEF ForeignKeysResolve
<1>5. env.subscribers \in {"fine", "invalid", "unreadable"} /\ validating \in BOOLEAN
  BY DEF Work, LoadTypes, ConfigTypes
<1>6. (env.subscribers \in IF validating THEN {"fine"} ELSE {"fine", "invalid"})
        <=> env.subscribers # "unreadable" /\ (validating => env.subscribers = "fine")
  BY <1>5
<1> QED
  BY <1>1, <1>2, <1>3, <1>6 DEF TreeAcceptable, Sound

LEMMA FinishStep ==
  ASSUME Work, ConfigTypes, Imports, RejectDefinition \/ ReturnDefinition
  PROVE  Work'
<1>1. /\ Finishing /\ status = "loading"
      /\ UNCHANGED <<disk, waiting, stack, raised, loaded>> /\ status' \in {"loaded", "failed"}
  BY DEF RejectDefinition, ReturnDefinition, Fail, Finishing
<1>2. reading = "read" /\ Loaded = Expected /\ (TreeAcceptable <=> Sound)
  BY <1>1, AllIsLoaded, FinishedTree
<1>3. UNCHANGED <<files, layout, views, unlisted, env, config, validating, reading>>
      /\ Loaded' = Loaded
  BY <1>1, DiskStands DEF Loaded
<1>4. TreeAcceptable' = TreeAcceptable /\ ConfigAcceptable' = ConfigAcceptable
      /\ Nested' = Nested /\ Expected' = Expected
  BY <1>1, TreeStands
<1>5. Ended'
  <2>1. CASE RejectDefinition
    BY <1>2, <1>3, <1>4, <2>1 DEF RejectDefinition, Fail, Ended
  <2>2. CASE ReturnDefinition
    <3>1. status' = "loaded" /\ TreeAcceptable
      BY <1>2, <2>2 DEF ReturnDefinition
    <3>2. ConfigAcceptable \/ Nested
      <4> SUFFICES ASSUME ~Nested
                   PROVE  ConfigAcceptable
        OBVIOUS
      <4>1. SoundSettings /\ SoundFile /\ Handled \subseteq Sources
        BY <1>2 DEF Imports
      <4>2. Handled = ImportsOf(Entries)
        BY <1>2 DEF ConfigTypes, Handled
      <4>3. Sources = ImportsOf(Entries)
        BY <4>1, <4>2 DEF Sources
      <4> QED BY <4>1, <4>3, AcceptableConfig
    <3> QED BY <1>2, <1>3, <1>4, <3>1, <3>2 DEF Ended
  <2> QED BY <1>1, <2>1, <2>2
<1> QED
  BY <1>1, <1>2, <1>5, EndStep

-----------------------------------------------------------------------------
(* Steps before the load. *)

\* As long as nothing has been loaded, little can go wrong.
LEMMA Idle ==
  ASSUME Work, status = "configuring"
  PROVE  waiting = {} /\ stack = <<>> /\ raised = "no" /\ Loaded = {} /\ reading # "read"
BY DEF Work, LoadTypes

LEMMA ConfiguringStep ==
  ASSUME Work, status = "configuring", reading' # "read",
         UNCHANGED <<files, layout, views, unlisted, env, waiting, stack, raised, loaded, status>>
  PROVE  Work'
<1>1. waiting = {} /\ stack = <<>> /\ raised = "no" /\ Loaded = {} /\ DOMAIN stack = {}
  BY Idle
<1>2. LoadTypes' /\ Loaded' = {}
  BY <1>1 DEF Work, LoadTypes, Loaded
<1> QED
  BY <1>1, <1>2 DEF Work, Overlays, Settled, Nesting, Wanted, NoneLeftOut, Reasons, Ended

LEMMA StartLoadStep ==
  ASSUME Work, StartLoad
  PROVE  Work'
<1>1. /\ status = "configuring" /\ status' = "loading" /\ waiting' = DOMAIN config
      /\ config' = config /\ reading' = "read"
      /\ UNCHANGED <<files, layout, views, unlisted, env, stack, raised, loaded>>
  BY DEF StartLoad, FinishReading, tree
<1>2. waiting = {} /\ stack = <<>> /\ raised = "no" /\ Loaded = {} /\ DOMAIN stack = {}
  BY <1>1, Idle
<1>3. LoadTypes' /\ Loaded' = {}
  BY <1>1, <1>2 DEF Work, LoadTypes, Loaded
<1> QED
  BY <1>1, <1>2, <1>3
     DEF Work, Overlays, Settled, Nesting, Wanted, NoneLeftOut, Reasons, Ended

LEMMA RejectedConfigStep ==
  ASSUME Work, Rejected, RejectedConfig
  PROVE  Work'
<1>1. /\ status = "configuring" /\ reading = "rejected" /\ status' = "failed"
      /\ UNCHANGED <<disk, waiting, stack, raised, loaded>>
  BY DEF RejectedConfig, Fail
<1>2. waiting = {} /\ stack = <<>> /\ raised = "no" /\ Loaded = {} /\ DOMAIN stack = {}
  BY <1>1, Idle
<1>3. UNCHANGED <<files, layout, views, unlisted, env, config, validating, reading>>
  BY <1>1, DiskStands
<1>4. LoadTypes' /\ Loaded' = {}
  BY <1>1, <1>2, <1>3 DEF Work, LoadTypes, Loaded
<1>5. Ended'
  <2>1. ConfigAcceptable' = ConfigAcceptable /\ Nested' = Nested
    BY <1>1, TreeStands
  <2> QED BY <1>1, <2>1 DEF Rejected, Ended
<1> QED
  BY <1>1, <1>2, <1>3, <1>4, <1>5
     DEF Work, Overlays, Settled, Nesting, Wanted, NoneLeftOut, Reasons

\* What is as it was is as good as it was.
LEMMA StutteringStep ==
  ASSUME Work, UNCHANGED vars
  PROVE  Work'
<1>1. UNCHANGED <<disk, waiting, stack, raised, loaded, status>>
  BY DEF vars
<1>2. UNCHANGED <<files, layout, views, unlisted, env, config, validating, reading>>
  BY <1>1, DiskStands
<1>3. LoadTypes' /\ Loaded' = Loaded
  BY <1>1, <1>2 DEF Work, LoadTypes, Loaded
<1>4. Overlays'
  BY <1>1, <1>2, TreeStands DEF Work, Overlays, Complete
<1>5. Settled'
  BY <1>1, <1>3, TreeStands DEF Work, Settled
<1>6. Nesting'
  BY <1>1, TreeStands DEF Work, Nesting
<1>7. Wanted'
  BY <1>1, <1>2, <1>3, TreeStands DEF Work, Wanted
<1>8. \A d : Done(d)' = Done(d)
  BY <1>1, <1>3, TreeStands DEF Done
<1>9. NoneLeftOut'
  BY <1>1, <1>2, <1>3, <1>8 DEF Work, NoneLeftOut
<1>10. Reasons'
  BY <1>1, TreeStands DEF Work, Reasons, Here
<1>11. Ended'
  BY <1>1, <1>2, <1>3, TreeStands DEF Work, Ended
<1> QED
  BY <1>3, <1>4, <1>5, <1>6, <1>7, <1>9, <1>10, <1>11 DEF Work

-----------------------------------------------------------------------------
(* The theorems. *)

LEMMA InvariantStarts == Init => IInv
<1> SUFFICES ASSUME Init
             PROVE  IInv
  OBVIOUS
<1>1. ConfigTypes /\ Imports /\ Rejected
  BY ConfigStarts
<1>2. /\ waiting = {} /\ stack = <<>> /\ raised = "no" /\ loaded = [d \in Dirs |-> Absent]
      /\ status = "configuring" /\ reading = "begun"
  BY DEF Init, ConfigInit
<1>3. /\ files \in [Files -> Definition \cup {Absent, Garbage}]
      /\ layout \in [Roots -> {"perCollection", "shared", "both"}]
      /\ views \in [Dirs -> ViewStates] /\ unlisted \subseteq Dirs
      /\ env \in [legacy : BOOLEAN, subscribers : {"fine", "invalid", "unreadable"}]
  <2>1. PICK i \in DOMAIN Cases : \E c \in Cases[i] :
          /\ files = c.files /\ layout = c.layout /\ views = c.views /\ env = c.env
          /\ unlisted = c.unlisted
    BY DEF Init
  <2>2. PICK c \in Cases[i] :
          /\ files = c.files /\ layout = c.layout /\ views = c.views /\ env = c.env
          /\ unlisted = c.unlisted
    BY <2>1
  <2>3. Database(c)
    BY CaseAssumption
  <2> QED BY <2>2, <2>3 DEF Database
<1>4. Loaded = {} /\ DOMAIN stack = {} /\ <<>> \in Seq(Frames)
  BY <1>2 DEF Loaded
<1>5. LoadTypes
  BY <1>2, <1>3, <1>4 DEF LoadTypes
<1> QED
  BY <1>1, <1>2, <1>4, <1>5
     DEF IInv, Overlays, Settled, Nesting, Wanted, NoneLeftOut, Reasons, Ended

LEMMA InvariantHolds == IInv /\ [Next]_vars => IInv'
<1> SUFFICES ASSUME IInv, [Next]_vars
             PROVE  IInv'
  OBVIOUS
<1>1. (ConfigTypes /\ Imports /\ Rejected)'
  BY ConfigHolds DEF IInv
<1>2. Work /\ ConfigTypes /\ Imports /\ Rejected
  BY DEF IInv, Work
<1>0. SUFFICES Work'
  BY <1>1 DEF IInv, Work
<1>3. CASE Configure
  <2>1. /\ status = "configuring" /\ reading' # "read"
        /\ UNCHANGED <<files, layout, views, unlisted, env, waiting, stack, raised, loaded, status>>
    BY <1>2, <1>3, Idle
       DEF Configure, ReadRootConfig, RejectConfig, ResolveImport, RejectImport, tree
  <2> QED BY <1>2, <2>1, ConfiguringStep
<1>4. CASE Write
  <2>1. /\ reading = "begun" /\ reading' = reading
        /\ UNCHANGED <<files, layout, views, unlisted, env, waiting, stack, raised, loaded, status>>
    BY <1>4 DEF Write, BeginWrite, FinishWrite, tree
  <2>2. status = "configuring"
    BY <1>2, <2>1 DEF Work, LoadTypes
  <2> QED BY <1>2, <2>1, <2>2, ConfiguringStep
<1>5. CASE RejectedConfig
  BY <1>2, <1>5, RejectedConfigStep
<1>6. CASE StartLoad
  BY <1>2, <1>6, StartLoadStep
<1>7. CASE EnterRoot
  BY <1>2, <1>7, EnterRootStep
<1>8. CASE ReadDefinitionFile
  BY <1>2, <1>8, ReadDefinitionFileStep
<1>9. CASE LoadInheritedBase
  BY <1>2, <1>9, LoadInheritedBaseStep
<1>10. CASE OverlayBase
  BY <1>2, <1>10, OverlayBaseStep
<1>11. CASE ValidateMerged
  BY <1>2, <1>11, ValidateMergedStep
<1>12. CASE EnterSubCollection
  BY <1>2, <1>12, EnterSubCollectionStep
<1>13. CASE LoadViews
  BY <1>2, <1>13, LoadViewsStep
<1>14. CASE SkipDirectory
  BY <1>2, <1>14, SkipDirectoryStep
<1>15. CASE FailLoad
  BY <1>2, <1>15, FailLoadStep
<1>16. CASE RejectDefinition \/ ReturnDefinition
  BY <1>2, <1>16, FinishStep
<1>17. CASE UNCHANGED vars
  BY <1>2, <1>17, StutteringStep
<1> QED
  BY <1>3, <1>4, <1>5, <1>6, <1>7, <1>8, <1>9, <1>10, <1>11, <1>12, <1>13, <1>14, <1>15, <1>16,
     <1>17 DEF Next, LoadStep

LEMMA Invariance == Spec => []IInv
BY InvariantStarts, InvariantHolds, PTL DEF Spec

\* The variables range over the values the Go types allow.
THEOREM TypeCorrect == Spec => []TypeOK
<1>1. IInv => TypeOK
  <2> SUFFICES ASSUME IInv
               PROVE  TypeOK
    OBVIOUS
  <2>1. \A id \in DOMAIN config : config[id].from \in {"base", "absolute", "home"}
    BY DEF IInv, ConfigTypes, Map, Locations
  <2>2. \A i \in DOMAIN stack : stack[i] \in Frames
    BY DEF IInv, LoadTypes
  <2>3. \A i \in DOMAIN stack :
          /\ stack[i].dir \in Dirs /\ stack[i].subs \subseteq Dirs
          /\ stack[i].step \in {"read", "inherit", "subs"}
          /\ stack[i].seen \in Seq(Files) /\ stack[i].chain \in Seq(Definition)
    BY <2>2 DEF Frames
  <2> QED BY <2>1, <2>3 DEF IInv, ConfigTypes, LoadTypes, TypeOK
<1> QED
  BY <1>1, Invariance, PTL

\* Whatever order the imports are resolved in, and whoever writes
\* root-collections.yaml meanwhile, the configuration holds every id that the
\* files declare or import and no other, each with a path somebody claims for it.
THEOREM ImportedExactly == Spec => []ImportsAreExact
<1>1. IInv => ImportsAreExact
  BY ReadIsExact DEF IInv
<1> QED
  BY <1>1, Invariance, PTL

\* A collection is only loaded from a chain of bases that ends, and then with
\* the nearest value of every field, however deep the chain.
THEOREM NearestWins == Spec => []LoadedIsNearestWins
<1>1. IInv => LoadedIsNearestWins
  BY WalkEnds, SaysNearest DEF IInv, Settled, LoadedIsNearestWins
<1> QED
  BY <1>1, Invariance, PTL

\* A load succeeds exactly when the configuration and every directory it must
\* read are sound, and then holds those directories and no others.
THEOREM SoundLoad == Spec => []LoadIsSound
<1>1. IInv => LoadIsSound
  BY DEF IInv, Ended, LoadIsSound
<1> QED
  BY <1>1, Invariance, PTL
=============================================================================
