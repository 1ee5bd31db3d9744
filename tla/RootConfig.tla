----------------------------- MODULE RootConfig -----------------------------
(***************************************************************************)
(* The configuration of a database (ingitdb/config).                       *)
(* .ingitdb/settings.yaml and .ingitdb/root-collections.yaml are read and  *)
(* validated, then every namespace import `prefix.*` is replaced, in the   *)
(* random order of a Go map, by the collections of the database it points  *)
(* to.  Meanwhile somebody may write root-collections.yaml, and die half   *)
(* way.                                                                    *)
(***************************************************************************)
EXTENDS Integers, Sequences, FiniteSets

CONSTANTS Root,       \* where the database is: names from the file system's root
          Home,       \* where the user's directory is
          Tilde,      \* the name "~"
          Wild,       \* names with a '*', or another character no id may have
          Missing,    \* no such directory, or no root-collections.yaml in it
          Unreadable, \* root-collections.yaml is no map of ids to paths
          NoBytes     \* root-collections.yaml is empty

\* `a.b.*` is the import <<a, b>>, and `a.b` the collection of that name
Collection(name) == [name |-> name, isImport |-> FALSE]
Import(name)     == [name |-> name, isImport |-> TRUE]

\* a path is relative to the database, absolute, or relative to the home
Path(from, to) == [from |-> from, to |-> to]
Relative(to)   == Path("base", to)

\* a root-collections.yaml that can be read: a path for each id
Ids       == [name : Seq(STRING), isImport : BOOLEAN]
Locations == [from : {"base", "absolute", "home"}, to : Seq(STRING)]
Map(file) == DOMAIN file \subseteq Ids /\ \A id \in DOMAIN file : file[id] \in Locations

ASSUME PlaceAssumption   == /\ Root \in Seq(STRING) /\ Home \in Seq(STRING)
                            /\ Tilde \in STRING /\ Wild \subseteq STRING
ASSUME ContentAssumption == Cardinality({Missing, Unreadable, NoBytes}) = 3

VARIABLES collections, \* root-collections.yaml, by the place of its database
          settings,    \* settings.yaml: "fine", "invalid" or "unreadable"
          validating,  \* shall the load validate what it reads?
          pending,     \* maps that somebody may yet write
          writing,     \* the map that is being written, if any
          config,      \* RootCollections: a path for each id
          imports,     \* namespace imports still to resolve
          reading      \* "begun", "resolving", "read" or "rejected"

given      == <<collections, settings, validating>>
writer     == <<pending, writing>>
configVars == <<given, writer, config, imports, reading>>

-----------------------------------------------------------------------------
(* Paths. *)

\* resolvePath: where an import is looked for
Resolved(path) ==
  CASE path.from = "base"     -> Root \o path.to
    [] path.from = "absolute" -> path.to
    [] path.from = "home"     -> Home \o path.to

\* filepath.Join knows nothing of anchors: what is joined is put below
Spelled(path)    == IF path.from = "home" THEN <<Tilde>> \o path.to ELSE path.to
Join(path, next) == [path EXCEPT !.to = @ \o Spelled(next)]

\* where the loader looks for a collection: below the database, always
LookedFor(path) == Root \o Spelled(path)

FileAt(place) == IF place \in DOMAIN collections THEN collections[place] ELSE Missing

-----------------------------------------------------------------------------
(* Reading. *)

HoldsWild(names) == \E i \in DOMAIN names : names[i] \in Wild

SoundEntry(id, path) ==
  /\ id.name # <<>> /\ ~HoldsWild(id.name)
  /\ path # Relative(<<>>)
  /\ id.isImport \/ ~HoldsWild(path.to)
SoundEntries(entries) ==
  /\ \A id \in DOMAIN entries : SoundEntry(id, entries[id])
  /\ \A id, other \in DOMAIN entries : entries[id] = entries[other] => id = other

SoundSettings == settings = "fine" \/ (settings = "invalid" /\ ~validating)

NoEntries == [id \in {} |-> Relative(<<>>)]

\* a file that does not exist holds nothing; an empty one is an error
Entries ==
  IF FileAt(Root) \in {Missing, Unreadable, NoBytes} THEN NoEntries ELSE FileAt(Root)
SoundFile ==
  /\ FileAt(Root) \notin {Unreadable, NoBytes}
  /\ validating => SoundEntries(Entries)
ImportsOf(entries) == {id \in DOMAIN entries : id.isImport}

ConfigInit ==
  /\ writing = {}
  /\ config = NoEntries
  /\ imports = {}
  /\ reading = "begun"

ReadRootConfig ==
  /\ reading = "begun"
  /\ SoundSettings /\ SoundFile
  /\ config' = Entries
  /\ imports' = ImportsOf(Entries)
  /\ reading' = "resolving"
  /\ UNCHANGED <<given, writer>>

RejectConfig ==
  /\ reading = "begun"
  /\ ~(SoundSettings /\ SoundFile)
  /\ reading' = "rejected"
  /\ UNCHANGED <<given, writer, config, imports>>

\* the entries of the database that key imports, under its prefix
Renamed(key, id) == [id EXCEPT !.name = key.name \o @]
Imported(key, path, entries) ==
  [new \in {Renamed(key, id) : id \in DOMAIN entries} |->
     Join(path, entries[CHOOSE id \in DOMAIN entries : Renamed(key, id) = new])]

\* bug: an id that the database declares itself is not replaced
KeepDeclared(entries, more) ==
  [id \in DOMAIN entries \cup DOMAIN more |->
     IF id \in DOMAIN entries THEN entries[id] ELSE more[id]]

\* what is imported replaces what was there under its id
With(entries, more) ==
  [id \in DOMAIN entries \cup DOMAIN more |->
     IF id \in DOMAIN more THEN more[id] ELSE entries[id]]

Importable(file) == file \notin {Missing, Unreadable, NoBytes, NoEntries}

ResolveImport(key) ==
  LET file == FileAt(Resolved(config[key]))
      rest == [id \in DOMAIN config \ {key} |-> config[id]]
  IN /\ reading = "resolving"
     /\ Importable(file)
     /\ config' = With(rest, Imported(key, config[key], file))
     /\ imports' = imports \ {key}
     /\ UNCHANGED <<given, writer, reading>>

RejectImport(key) ==
  /\ reading = "resolving"
  /\ ~Importable(FileAt(Resolved(config[key])))
  /\ reading' = "rejected"
  /\ UNCHANGED <<given, writer, config, imports>>

FinishReading ==
  /\ reading = "resolving"
  /\ imports = {}
  /\ reading' = "read"
  /\ UNCHANGED <<given, writer, config, imports>>

-----------------------------------------------------------------------------
(* Somebody registers or deregisters a collection with                     *)
(* WriteRootCollectionsToFile.  os.WriteFile truncates the file and fills  *)
(* it later, or never.  An empty map makes an empty file.                  *)
(* Bound: nobody writes once the file has been read.                       *)

BeginWrite ==
  /\ reading = "begun"
  /\ writing = {}
  /\ \E entries \in pending : writing' = {entries} /\ pending' = pending \ {entries}
  /\ collections' = [collections EXCEPT ![Root] = NoBytes]
  /\ UNCHANGED <<settings, validating, config, imports, reading>>

FinishWrite ==
  /\ reading = "begun"
  /\ \E entries \in writing :
       collections' = [collections EXCEPT ![Root] =
                         IF entries = NoEntries THEN NoBytes ELSE entries]
  /\ writing' = {}
  /\ UNCHANGED <<settings, validating, pending, config, imports, reading>>

-----------------------------------------------------------------------------
(* Properties. *)

\* what the database's own file says of an id: what an import brings under it,
\* else what the file declares
Brought(key) == Imported(key, Entries[key], FileAt(Resolved(Entries[key])))
Sources == {key \in ImportsOf(Entries) : Importable(FileAt(Resolved(Entries[key])))}
Claims(id) ==
  LET imported == {Brought(key)[id] : key \in {k \in Sources : id \in DOMAIN Brought(k)}}
  IN IF imported # {} THEN imported ELSE {Entries[id]}
Claimed ==
  (DOMAIN Entries \ ImportsOf(Entries)) \cup UNION {DOMAIN Brought(key) : key \in Sources}

\* an import that brings an import of the same name as another of the database
Nested == Claimed \cap ImportsOf(Entries) # {}

\* Whatever order the imports are resolved in, the configuration holds every id
\* that root-collections.yaml declares or imports and no other, each with a path
\* that somebody claims for it; an imported path wins over a declared one
\* (root_config.go:262-307).
ImportsAreExact ==
  reading = "read" /\ ~Nested =>
    /\ DOMAIN config = Claimed
    /\ \A id \in Claimed : config[id] \in Claims(id)
=============================================================================
