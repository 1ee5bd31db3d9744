--------------------------- MODULE MCRecordMerge ---------------------------
(* Small instances of RecordMerge for TLC. *)
EXTENDS RecordMerge

CONSTANTS f, g, x, y, none

MCFields == {f, g}
MCValues == {x, y}

\* versions of a two-field record: one that lacks f, and edits of f and of g
Pair(u, v) == [h \in MCFields |-> IF h = f THEN u ELSE v]
Versions2  == {Pair(x, x), Pair(y, x), Pair(x, y), Pair(none, x)}

Row(k, v) == [key |-> k, fields |-> v]

\* map files of up to two keys, given in descending key order so that parseMap
\* has to sort; record 2 only moves between two versions
MapStages ==
  LET ones == {Row(1, v) : v \in Versions2}
      twos == {Row(2, Pair(x, x)), Row(2, Pair(y, x))}
  IN {[ok |-> TRUE, rows |-> <<>>]}
       \cup {[ok |-> TRUE, rows |-> <<r>>] : r \in ones \cup twos}
       \cup {[ok |-> TRUE, rows |-> <<r, q>>] : r \in twos, q \in ones}

\* list files of up to two rows, with repeated and missing keys
ListRows  == {Row(1, v) : v \in {Pair(x, x), Pair(y, x)}} \cup {Row(k, Pair(x, x)) : k \in {2, 0}}
ListStages ==
  {[ok |-> FALSE, rows |-> <<>>], [ok |-> TRUE, rows |-> <<>>]}
    \cup {[ok |-> TRUE, rows |-> <<r>>] : r \in ListRows}
    \cup {[ok |-> TRUE, rows |-> <<r, q>>] : r \in ListRows, q \in ListRows}

\* every kind of list, and the layouts that cannot be merged
ListLayouts == Layouts \ {"map"}

Unset == [db |-> "unset", col |-> "unset"]
CasesOf(kinds, scopes, stages) ==
  {c \in [layout : kinds, settings : scopes, files : [Sides -> stages]] : Consistent(c)}
MapCases == CasesOf({"map"}, [db : Scopes, col : Scopes], MapStages)
AllCases == MapCases \cup CasesOf(ListLayouts, {Unset}, ListStages)
KeyedListCases == CasesOf({"sequencePK"}, {Unset}, ListStages)
=============================================================================
