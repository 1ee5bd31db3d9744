-------------------------- MODULE DefinitionLoader --------------------------
(***************************************************************************)
(* Loading a database definition (ingitdb/validator).  ReadDefinition      *)
(* reads the configuration (RootConfig), then visits its root collections  *)
(* in the random order of a Go map; for each it finds the directory, reads *)
(* the definition file, follows its `inherits` chain and                   *)
(* overlays it, validates the merged definition, then descends into the    *)
(* subcollection directories and reads the views.  An error unwinds the    *)
(* recursion, except that the scanner of the shared layout takes "file     *)
(* does not exist" for "not a collection" and skips the directory.         *)
(***************************************************************************)
EXTENDS RootConfig

CONSTANTS Dirs,        \* collection directories; integers, in readDir's order,
                       \* a directory before those in it
          Place,       \* where the directories of root collections are
          Parent,      \* the directory that holds a subcollection directory
          Bases,       \* base partial files
          NoFile,      \* no `inherits`, no parent directory
          Absent,      \* the file does not exist
          Garbage,     \* the file is unreadable, or holds an unknown key
          Inherited,   \* fields, columns and titles that a base may supply
          OwnFields,   \* fields that only the definition's own file supplies
          Required,    \* fields without which a definition is not valid
          Values,      \* values of fields
          Unset,       \* the field is not in the file
          Dangling,    \* values with a foreign key that resolves to no root
          Cases        \* databases on disk, a sequence of sets of them

Files       == Dirs \cup Bases
Fields      == Inherited \cup OwnFields
Definition  == [inherits : Files \cup {NoFile}, fields : [Fields -> Values \cup {Unset}]]
Roots       == {d \in Dirs : Parent[d] = NoFile}
Subs(d)     == {e \in Dirs : Parent[e] = d}
ViewStates  == {"none", "valid", "invalid", "unreadable", "vanished"}
ASSUME DirsAssumption   == /\ Dirs \subseteq Int /\ IsFiniteSet(Dirs)
                           /\ Dirs \cap Bases = {} /\ IsFiniteSet(Bases)
ASSUME ParentAssumption ==
  Parent \in [Dirs -> Dirs \cup {NoFile}] /\ \A d \in Dirs \ Roots : Parent[d] < d
ASSUME FieldAssumption  == Required \subseteq Inherited /\ Inherited \cap OwnFields = {}
ASSUME ValueAssumption  == Unset \notin Values /\ Dangling \subseteq Values
ASSUME PlacesAssumption ==
  Place \in [Roots -> Seq(STRING)] /\ \A d, e \in Roots : Place[d] = Place[e] => d = e
ASSUME FileAssumption   == /\ NoFile \notin Files /\ Absent # Garbage
                           /\ {Absent, Garbage} \cap Definition = {}

\* config: the files of the configuration, whether to validate, and what
\* somebody may write; layout: how a root and what lies below it keep their
\* definitions; views: what the views directories hold; env: is there a marker
\* of an older layout, and what is subscribers.yaml?  A view is unreadable when
\* it is no YAML either, and has vanished when it is listed but not there, as a
\* dangling link is; unlisted: directories whose subcollections cannot be listed
Database(c) ==
  /\ Root \in DOMAIN c.config.collections
  /\ \A place \in DOMAIN c.config.collections :
       LET file == c.config.collections[place]
       IN file \in {Missing, Unreadable, NoBytes} \/ Map(file)
  /\ c.config.settings \in {"fine", "invalid", "unreadable"}
  /\ c.config.validating \in BOOLEAN
  /\ \A entries \in c.config.pending : Map(entries)
  /\ c.files  \in [Files -> Definition \cup {Absent, Garbage}]
  /\ c.layout \in [Roots -> {"perCollection", "shared", "both"}]
  /\ c.views  \in [Dirs -> ViewStates]
  /\ c.unlisted \subseteq Dirs
  /\ c.env    \in [legacy : BOOLEAN, subscribers : {"fine", "invalid", "unreadable"}]
ASSUME CaseAssumption   == \A i \in DOMAIN Cases : \A c \in Cases[i] : Database(c)

VARIABLES files,    \* the definition files
          layout,   \* of each root collection
          views,    \* the views directory of each collection
          unlisted, \* directories of subcollections that readDir fails on
          env,      \* subscribers.yaml? a marker of the old layout?
          waiting,  \* ids of root collections the load has not reached
          stack,    \* collections under way, the innermost last
          raised,   \* error on its way up: "no", "notExist", "other"
          loaded,   \* merged definitions, by directory
          status    \* "configuring", "loading", then "loaded" or "failed"

tree == <<files, layout, views, unlisted, env>>
disk == <<tree, configVars>>
vars == <<disk, waiting, stack, raised, loaded, status>>

-----------------------------------------------------------------------------
\* bug: the base wins over the definition that inherits it
OverlayBaseWins(child, base) ==
  [inherits |-> NoFile,
   fields   |-> [g \in Fields |-> IF base.fields[g] # Unset /\ g \in Inherited
                                  THEN base.fields[g] ELSE child.fields[g]]]

\* base contributes what child leaves unset, except to the fields it may not
Overlay(child, base) ==
  [inherits |-> NoFile,
   fields   |-> [g \in Fields |-> IF child.fields[g] = Unset /\ g \in Inherited
                                  THEN base.fields[g] ELSE child.fields[g]]]

\* a collection under way: its directory, the files of its chain and their
\* decoded definitions, and the subcollections to come
Frame(d) == [dir |-> d, seen |-> <<>>, chain |-> <<>>, step |-> "read", subs |-> {}]

RootOf[d \in Dirs] == IF Parent[d] = NoFile THEN d ELSE RootOf[Parent[d]]
LayoutOf(d) == layout[RootOf[d]]

\* the directories that one comes to from some through others
From(starts, through) ==
  LET come[d \in Dirs] == d \in starts \/ (Parent[d] \in through /\ come[Parent[d]])
  IN {d \in Dirs : come[d]}
Under(d) == From({d}, Dirs)

Here == stack[Len(stack)]
At(step) == status = "loading" /\ raised = "no" /\ stack # <<>> /\ Here.step = step
Becomes(frame) == stack' = [stack EXCEPT ![Len(stack)] = frame]
Raise(error) == raised' = error /\ UNCHANGED <<disk, waiting, stack, loaded, status>>

Init ==
  /\ \E i \in DOMAIN Cases : \E c \in Cases[i] :
       /\ files = c.files /\ layout = c.layout /\ env = c.env
       /\ views = c.views /\ unlisted = c.unlisted
       /\ collections = c.config.collections /\ settings = c.config.settings
       /\ validating = c.config.validating /\ pending = c.config.pending
  /\ ConfigInit
  /\ waiting = {}
  /\ stack = <<>>
  /\ raised = "no"
  /\ loaded = [d \in Dirs |-> Absent]
  /\ status = "configuring"

\* ReadDefinition begins with the configuration
Configure ==
  /\ status = "configuring"
  /\ \/ ReadRootConfig
     \/ RejectConfig
     \/ \E key \in imports : ResolveImport(key) \/ RejectImport(key)
  /\ UNCHANGED <<tree, waiting, stack, raised, loaded, status>>

Write ==
  /\ BeginWrite \/ FinishWrite
  /\ UNCHANGED <<tree, waiting, stack, raised, loaded, status>>

StartLoad ==
  /\ status = "configuring"
  /\ FinishReading
  /\ waiting' = DOMAIN config
  /\ status' = "loading"
  /\ UNCHANGED <<tree, stack, raised, loaded>>

\* bug: what an import brings is looked for where the import was found
DirsForImport(path) == {d \in Roots : Place[d] = Resolved(path)}

\* the root collection that a path of the configuration leads to
DirsFor(path) == {d \in Roots : Place[d] = LookedFor(path)}

\* a directory that does not exist is a definition file that does not
EnterRoot ==
  /\ status = "loading" /\ raised = "no" /\ stack = <<>>
  /\ \E id \in waiting :
       LET path == config[id]
       IN \/ HoldsWild(Spelled(path)) /\ Raise("other")
          \/ ~HoldsWild(Spelled(path)) /\ DirsFor(path) = {} /\ Raise("notExist")
          \/ /\ ~HoldsWild(Spelled(path))
             /\ \E d \in DirsFor(path) : stack' = <<Frame(d)>>
             /\ waiting' = waiting \ {id}
             /\ UNCHANGED <<disk, raised, loaded, status>>

\* the two layouts keep a root's definition in different places, and a root
\* may not use both; a chain starts with the file that inherits
ReadDefinitionFile ==
  LET file == files[Here.dir]
  IN /\ At("read")
     /\ \/ file = Absent /\ Raise("notExist")
        \/ file # Absent /\ LayoutOf(Here.dir) = "both" /\ Raise("other")
        \/ file = Garbage /\ LayoutOf(Here.dir) # "both" /\ Raise("other")
        \/ /\ file \notin {Absent, Garbage}
           /\ LayoutOf(Here.dir) # "both"
           /\ Becomes([Here EXCEPT !.seen = <<Here.dir>>, !.chain = <<file>>,
                                   !.step = "inherit"])
           /\ UNCHANGED <<disk, waiting, raised, loaded, status>>

Farthest == Here.chain[Len(Here.chain)]
Visited(file) == \E i \in DOMAIN Here.seen : Here.seen[i] = file

\* bug: a base that cannot be read is decoded all the same
LoadUnreadBase ==
  LET base == Farthest.inherits
  IN /\ At("inherit")
     /\ base # NoFile
     /\ ~Visited(base)
     /\ Becomes([Here EXCEPT !.seen = Append(@, base), !.chain = Append(@, files[base])])
     /\ UNCHANGED <<disk, waiting, raised, loaded, status>>

\* bug: a loop overlays each base as it is read and never looks for a cycle
LoadBaseInLoop ==
  LET base == Farthest.inherits
  IN /\ At("inherit")
     /\ base # NoFile
     /\ \/ files[base] = Absent /\ Raise("notExist")
        \/ files[base] = Garbage /\ Raise("other")
        \/ /\ files[base] \notin {Absent, Garbage}
           /\ Becomes([Here EXCEPT !.chain =
                <<[Overlay(@[1], files[base]) EXCEPT !.inherits = files[base].inherits]>>])
           /\ UNCHANGED <<disk, waiting, raised, loaded, status>>

LoadInheritedBase ==
  LET base == Farthest.inherits
  IN /\ At("inherit")
     /\ base # NoFile
     /\ \/ Visited(base) /\ Raise("other")
        \/ ~Visited(base) /\ files[base] = Absent /\ Raise("notExist")
        \/ ~Visited(base) /\ files[base] = Garbage /\ Raise("other")
        \/ /\ ~Visited(base)
           /\ files[base] \notin {Absent, Garbage}
           /\ Becomes([Here EXCEPT !.seen = Append(@, base),
                                   !.chain = Append(@, files[base])])
           /\ UNCHANGED <<disk, waiting, raised, loaded, status>>

\* the farthest base is overlaid first
OverlayBase ==
  LET n == Len(Here.chain)
  IN /\ At("inherit")
     /\ Farthest.inherits = NoFile
     /\ n > 1
     /\ Becomes([Here EXCEPT !.chain =
          Append(SubSeq(@, 1, n - 2), Overlay(@[n - 1], @[n]))])
     /\ UNCHANGED <<disk, waiting, raised, loaded, status>>

Complete(def) == \A g \in Required : def.fields[g] # Unset

ValidateMerged ==
  /\ At("inherit")
  /\ Farthest.inherits = NoFile /\ Len(Here.chain) = 1
  /\ \/ validating /\ ~Complete(Farthest) /\ Raise("other")
     \/ (validating => Complete(Farthest)) /\ Here.dir \in unlisted /\ Raise("other")
     \/ /\ validating => Complete(Farthest)
        /\ Here.dir \notin unlisted
        /\ Becomes([Here EXCEPT !.step = "subs", !.subs = Subs(Here.dir)])
        /\ UNCHANGED <<disk, waiting, raised, loaded, status>>

EnterSubCollection ==
  /\ At("subs")
  /\ \E d \in Here.subs :
       /\ \A e \in Here.subs : d <= e
       /\ stack' = Append([stack EXCEPT ![Len(stack)].subs = @ \ {d}], Frame(d))
  /\ UNCHANGED <<disk, waiting, raised, loaded, status>>

\* an invalid view is only found when validation is asked for, one that cannot
\* be read or parsed always
LoadViews ==
  /\ At("subs")
  /\ Here.subs = {}
  /\ \/ views[Here.dir] = "vanished" /\ Raise("notExist")
     \/ views[Here.dir] = "unreadable" /\ Raise("other")
     \/ views[Here.dir] = "invalid" /\ validating /\ Raise("other")
     \/ /\ views[Here.dir] \in IF validating THEN {"none", "valid"}
                               ELSE {"none", "valid", "invalid"}
        /\ loaded' = [loaded EXCEPT ![Here.dir] = Farthest]
        /\ stack' = SubSeq(stack, 1, Len(stack) - 1)
        /\ UNCHANGED <<disk, waiting, raised, status>>

\* bug: what was loaded below a directory that is skipped is kept
SkipAlone ==
  /\ status = "loading" /\ raised = "notExist"
  /\ Len(stack) > 1 /\ LayoutOf(Here.dir) = "shared"
  /\ stack' = SubSeq(stack, 1, Len(stack) - 1)
  /\ raised' = "no"
  /\ UNCHANGED <<disk, waiting, loaded, status>>

\* no definition.yaml: not a collection.  What was read of it, its
\* subcollections included, is dropped
SkipDirectory ==
  /\ status = "loading" /\ raised = "notExist"
  /\ Len(stack) > 1 /\ LayoutOf(Here.dir) = "shared"
  /\ stack' = SubSeq(stack, 1, Len(stack) - 1)
  /\ raised' = "no"
  /\ loaded' = [d \in Dirs |-> IF d \in Under(Here.dir) THEN Absent ELSE loaded[d]]
  /\ UNCHANGED <<disk, waiting, status>>

Fail == status' = "failed" /\ UNCHANGED <<disk, waiting, stack, raised, loaded>>

\* no caller handles the error: ReadDefinition returns it
FailLoad ==
  /\ status = "loading"
  /\ raised # "no"
  /\ raised = "notExist" => ~(Len(stack) > 1 /\ LayoutOf(Here.dir) = "shared")
  /\ Fail

Loaded == {d \in Dirs : loaded[d] # Absent}
ForeignKeysResolve ==
  \A d \in Loaded : \A g \in Fields : loaded[d].fields[g] \notin Dangling

Finishing == status = "loading" /\ raised = "no" /\ stack = <<>> /\ waiting = {}
Sound ==
  /\ env.subscribers # "unreadable"
  /\ validating => env.subscribers = "fine"
  /\ env.legacy => DOMAIN config # {}
  /\ validating => ForeignKeysResolve

RejectDefinition == Finishing /\ ~Sound /\ Fail
ReturnDefinition ==
  /\ Finishing
  /\ Sound
  /\ status' = "loaded"
  /\ UNCHANGED <<disk, waiting, stack, raised, loaded>>

RejectedConfig == status = "configuring" /\ reading = "rejected" /\ Fail

LoadStep ==
  \/ Configure
  \/ RejectedConfig
  \/ StartLoad
  \/ EnterRoot
  \/ ReadDefinitionFile
  \/ LoadInheritedBase
  \/ OverlayBase
  \/ ValidateMerged
  \/ EnterSubCollection
  \/ LoadViews
  \/ SkipDirectory
  \/ FailLoad
  \/ RejectDefinition
  \/ ReturnDefinition

Next == LoadStep \/ Write

\* the load is one goroutine that is never blocked; a writer may stop for good
Spec == Init /\ [][Next]_vars /\ WF_vars(LoadStep)

-----------------------------------------------------------------------------
(* Properties. *)

\* The variables range over the values the Go types allow.
TypeOK ==
  /\ waiting \subseteq DOMAIN config /\ imports \subseteq DOMAIN config
  /\ reading \in {"begun", "resolving", "read", "rejected"}
  /\ \A id \in DOMAIN config : config[id].from \in {"base", "absolute", "home"}
  /\ \A i \in DOMAIN stack :
       /\ stack[i].dir \in Dirs /\ stack[i].subs \subseteq Dirs
       /\ stack[i].step \in {"read", "inherit", "subs"}
       /\ stack[i].seen \in Seq(Files) /\ stack[i].chain \in Seq(Definition)
  /\ raised \in {"no", "notExist", "other"}
  /\ loaded \in [Dirs -> Definition \cup {Absent}]
  /\ status \in {"configuring", "loading", "loaded", "failed"}

\* the n-th file of the inheritance chain that starts at d
BaseOf(f) == IF f = NoFile THEN NoFile
             ELSE IF files[f] \in {Absent, Garbage} THEN NoFile ELSE files[f].inherits
Depths == 0..Cardinality(Files)
Nth(d) == LET nth[n \in Depths] == IF n = 0 THEN d ELSE BaseOf(nth[n - 1]) IN nth
ChainOf(d) == {Nth(d)[n] : n \in Depths} \ {NoFile}
Cyclic(d)  == Nth(d)[Cardinality(Files)] # NoFile
Resolves(d) == ~Cyclic(d) /\ \A f \in ChainOf(d) : files[f] \notin {Absent, Garbage}

\* what the definition of d says of a field: the nearest file of its chain
\* that sets it wins, and a base has no say in the fields of its own
Setters(d, g) == {n \in Depths : /\ Nth(d)[n] # NoFile
                                 /\ n > 0 => g \in Inherited
                                 /\ files[Nth(d)[n]].fields[g] # Unset}
Nearest(d, g) ==
  IF Setters(d, g) = {} THEN Unset
  ELSE files[Nth(d)[CHOOSE n \in Setters(d, g) : \A m \in Setters(d, g) : n <= m]].fields[g]

\* A collection is only ever loaded from a chain that resolves without a cycle,
\* and then with the nearest value of every field, however deep the chain.
LoadedIsNearestWins ==
  \A d \in Loaded :
    /\ Resolves(d)
    /\ \A g \in Fields : loaded[d].fields[g] = Nearest(d, g)

\* Whatever order the imports are resolved and the root collections visited in,
\* and whoever writes root-collections.yaml meanwhile, the load succeeds exactly
\* when the configuration and every directory it must read are sound, views and
\* directory listings included; then the tree holds those directories and no
\* others, but for what the shared layout skips with all that is below it.  A file
\* that was truncated and not filled is never taken for a database without
\* collections.
ConfigAcceptable ==
  /\ settings \in IF validating THEN {"fine"} ELSE {"fine", "invalid"}
  /\ FileAt(Root) \notin {Unreadable, NoBytes}
  /\ validating =>
       \A id, other \in DOMAIN Entries :
         /\ id.name # <<>> /\ ~HoldsWild(id.name) /\ Entries[id] # Relative(<<>>)
         /\ id.isImport \/ ~HoldsWild(Entries[id].to)
         /\ id # other => Entries[id] # Entries[other]
  /\ \A key \in ImportsOf(Entries) :
       FileAt(Resolved(Entries[key])) \notin {Missing, Unreadable, NoBytes, NoEntries}
RootDirs == UNION {DirsFor(config[id]) : id \in DOMAIN config}

Readable(d)  == files[d] # Absent /\ Resolves(d)
MissingBase(d) == ~Cyclic(d) /\ \E f \in ChainOf(d) : files[f] = Absent
Skippable(d) == LayoutOf(d) = "shared" /\ Parent[d] # NoFile

\* the directories that are visited, and of those the collections
Reached  == From(RootDirs, {d \in Dirs : Readable(d)})
Kept     == {d \in Dirs : Readable(d) /\ views[d] # "vanished"}
Expected == From(RootDirs, Kept) \cap Kept

\* what is read of a directory gives no error, or one that skips it
Tolerated(d) ==
  \/ ~Readable(d) /\ MissingBase(d) /\ Skippable(d)
  \/ /\ Readable(d)
     /\ LayoutOf(d) # "both"
     /\ d \notin unlisted
     /\ views[d] # "unreadable"
     /\ views[d] = "vanished" => Skippable(d)
     /\ validating => views[d] # "invalid" /\ \A g \in Required : Nearest(d, g) # Unset
TreeAcceptable ==
  /\ \A id \in DOMAIN config : DirsFor(config[id]) # {} /\ ~HoldsWild(Spelled(config[id]))
  /\ \A d \in Reached : Tolerated(d)
  /\ validating => \A d \in Expected : \A g \in Fields : Nearest(d, g) \notin Dangling
  /\ RootDirs = {} => ~env.legacy
  /\ env.subscribers \in IF validating THEN {"fine"} ELSE {"fine", "invalid"}
LoadIsSound ==
  ~Nested =>
  /\ status = "loaded" => ConfigAcceptable /\ TreeAcceptable /\ Loaded = Expected
  /\ status = "failed" =>
       \/ ~ConfigAcceptable
       \/ reading = "read" /\ ~TreeAcceptable

\* A base that re-inherits an ancestor is an error, never endless recursion.
LoadEnds == <>(status \in {"loaded", "failed"})

\* A base that cannot be read fails the load: it is never discarded in silence
\* (REQ missing-base-is-load-error).
MissingBaseFailsLoad ==
  status = "loaded" =>
    ~\E d \in Dirs : /\ Parent[d] \in Loaded
                     /\ files[d] # Absent
                     /\ MissingBase(d)

\* A collection that is imported through an absolute path, or one in the user's
\* home directory, is loaded from there: with every imported collection in its
\* place, the load does not fail (resolvePath, root_config.go:207-208, and
\* ReadDefinition, which puts the root before every path).
ImportsAreFound ==
  LET meant(key, path) == Resolved(Entries[key]) \o Spelled(path)
      there(place) == \E d \in Roots : Place[d] = place /\ Readable(d)
  IN status = "failed" =>
       \E key \in ImportsOf(Entries) :
         LET file == FileAt(Resolved(Entries[key]))
         IN \/ ~Importable(file)
            \/ \E id \in DOMAIN file : ~there(meant(key, file[id]))
=============================================================================
