------------------------- MODULE MCDefinitionLoader -------------------------
(* Small instances of DefinitionLoader for TLC. *)
EXTENDS DefinitionLoader, TLC

CONSTANTS a, b, x, y, dangling

\* one root with a subcollection and one below that; the same beside a second
\* root, which is 4
DirTree == [d \in Dirs |-> IF d \in {1, 4} THEN NoFile ELSE d - 1]

Def(base, column, bound) ==
  [inherits |-> base, fields |-> [column |-> column, bound |-> bound]]

DirContents == {Absent, Def(NoFile, x, Unset), Def(a, Unset, x), Def(b, x, Unset)}
BaseContents(other) ==
  {Absent, Garbage, Def(NoFile, y, y), Def(NoFile, Unset, Unset),
   Def(other, y, Unset), Def(other, Unset, y)}

\* files in which the second root, if any, holds nothing
ByFile(dirs, ofA, ofB) ==
  [f \in Dirs \cup {a, b} |-> CASE f = a -> ofA [] f = b -> ofB
                              [] f \in 1..3 -> dirs[f] [] OTHER -> Absent]
Chains == {ByFile(dirs, ofA, ofB) : dirs \in [Dirs \ {4} -> DirContents],
           ofA \in BaseContents(b), ofB \in BaseContents(a)}

Plain == [legacy |-> FALSE, subscribers |-> "fine"]
Unviewed == [d \in Dirs |-> "none"]

\* one root is below the database, the other in a database below it
Base   == <<"db">>
User   == <<"home">>
Stars  == {"*"}
PathOf == [d \in Roots |-> IF d = 1 THEN <<"one">> ELSE <<"sub", "four">>]
Places == [d \in Roots |-> Base \o PathOf[d]]

\* a configuration that names the roots, and nobody writes
IdOf(d) == Collection(<<IF d = 1 THEN "one" ELSE "four">>)
Declaring(roots, w) ==
  [collections |-> Base :> [id \in {IdOf(d) : d \in roots} |->
                              Relative(PathOf[CHOOSE d \in roots : IdOf(d) = id])],
   settings |-> "fine", validating |-> w, pending |-> {}]

\* every inheritance of three nested collections, in both layouts
ChainCases ==
  {[config |-> Declaring({1}, TRUE), files |-> fs, layout |-> [r \in Roots |-> l],
    views |-> Unviewed, unlisted |-> {}, env |-> Plain] : fs \in Chains, l \in {"perCollection", "shared"}}

\* two roots and a subcollection, with a foreign key that dangles, a file that
\* inherits itself, any mixture of layouts and an invalid view somewhere
RootFiles(contents) ==
  {[f \in Dirs \cup {a, b} |-> IF f \in Bases THEN Def(NoFile, y, Unset)
                              ELSE IF f = 3 THEN Absent ELSE dirs[f]] :
   dirs \in [{1, 2, 4} -> contents]}
RootContents == {Absent, Garbage, Def(a, Unset, Unset), Def(1, x, Unset),
                 Def(NoFile, dangling, Unset)}
RootCases ==
  {[config |-> Declaring(Roots, w), files |-> fs, layout |-> l,
    views |-> [Unviewed EXCEPT ![d] = v], unlisted |-> {}, env |-> Plain] :
     fs \in RootFiles(RootContents), l \in [Roots -> {"perCollection", "shared", "both"}],
     d \in {1, 2, 4}, v \in {"none", "invalid"}, w \in BOOLEAN}

\* every state of the views of three nested collections, and a directory that
\* cannot be listed
ViewFiles ==
  {[f \in Dirs \cup {a, b} |->
      IF f = 1 THEN Def(NoFile, x, Unset) ELSE IF f \in {2, 3} THEN dirs[f] ELSE Absent] :
     dirs \in [{2, 3} -> {Def(NoFile, x, Unset), Def(a, x, Unset), Def(NoFile, dangling, Unset)}]}
ViewCases ==
  {[config |-> Declaring({1}, w), files |-> fs, layout |-> [r \in Roots |-> l],
    views |-> [d \in Dirs |-> IF d = 4 THEN "none" ELSE vs[d]], unlisted |-> u, env |-> Plain] :
     fs \in ViewFiles, l \in {"perCollection", "shared"}, vs \in [1..3 -> ViewStates],
     u \in {{}, {2}}, w \in BOOLEAN}

\* every state of what lies beside the definitions
Environments == [legacy : BOOLEAN, subscribers : {"fine", "invalid", "unreadable"}]
EnvironmentCases ==
  {[config |-> Declaring(r, w), files |-> fs, layout |-> [d \in Roots |-> "shared"],
    views |-> Unviewed, unlisted |-> {}, env |-> e] :
     fs \in RootFiles({Def(a, Unset, Unset), Def(NoFile, dangling, Unset)}),
     r \in SUBSET Roots, w \in BOOLEAN, e \in Environments}

\* both roots are sound; the database below holds any kind of file and another
\* one there, which lies, makes the ids of two imports collide
SoundRoots ==
  [f \in Dirs \cup {a, b} |-> IF f \in Roots THEN Def(NoFile, x, Unset) ELSE Absent]
Four     == Collection(<<"four">>) :> Relative(<<"four">>)
Deep     == Collection(<<"t", "four">>) :> Relative(<<"four">>)
Beneath  == {Missing, Unreadable, NoBytes, NoEntries, Four, Deep,
             Four @@ (Import(<<"t">>) :> Relative(<<"t">>))}
Configuring(entries, below, w, s, writes) ==
  [config |-> [collections |-> (Base :> entries) @@ (Base \o <<"sub">> :> below)
                                 @@ (Base \o <<"lies">> :> Four),
               settings |-> s, validating |-> w, pending |-> writes],
   files |-> SoundRoots, layout |-> [d \in Roots |-> "shared"],
   views |-> Unviewed, unlisted |-> {}, env |-> Plain]

\* any entry beside a sound one, and any two entries whose ids can collide
ConfigIds == {Collection(<<"one">>), Collection(<<"s", "four">>), Collection(<<"*">>),
              Import(<<>>), Import(<<"s">>), Import(<<"s", "t">>)}
ConfigPaths == {Relative(<<>>), Relative(<<"*">>), Relative(<<"one">>), Relative(<<"sub">>),
                Relative(<<"lies">>), Path("absolute", Base \o <<"sub">>)}
One      == Collection(<<"one">>) :> Relative(<<"one">>)
Sub      == Import(<<"s">>) :> Relative(<<"sub">>)
Colliding == {Collection(<<"s", "four">>), Import(<<"s", "t">>)}
Maps == {(id :> path) @@ One : id \in ConfigIds, path \in ConfigPaths} \cup
        {(id :> path) @@ Sub : id \in Colliding, path \in ConfigPaths}
MapCases == {Configuring(m, below, w, "fine", {}) :
               m \in Maps, below \in Beneath, w \in BOOLEAN}

\* a writer that deregisters everything, or registers something else
WriteCases == {Configuring(m, Four, w, s, writes) :
                 m \in {Missing, Unreadable, NoBytes, NoEntries, One, One @@ Sub}, w \in BOOLEAN,
                 s \in {"fine", "invalid", "unreadable"},
                 writes \in SUBSET {NoEntries, Sub, One}}

AllCases == <<ChainCases, RootCases, ViewCases, EnvironmentCases, MapCases, WriteCases>>
SharedChains == <<{c \in ChainCases : \A r \in Roots : c.layout[r] = "shared"}>>

\* the database below is in the home directory instead
HomePlaces == [d \in Roots |-> IF d = 1 THEN Base \o <<"one">> ELSE User \o <<"sub", "four">>]
HomeCases ==
  <<{[config |-> [collections |-> (Base :> (One @@ (Import(<<"s">>) :> path)))
                                  @@ (User \o <<"sub">> :> Four),
                settings |-> "fine", validating |-> w, pending |-> {}],
    files |-> SoundRoots, layout |-> [d \in Roots |-> l], views |-> Unviewed, unlisted |-> {}, env |-> Plain] :
     path \in {Path("home", <<"sub">>), Path("absolute", User \o <<"sub">>)},
     w \in BOOLEAN, l \in {"perCollection", "shared"}}>>
=============================================================================
