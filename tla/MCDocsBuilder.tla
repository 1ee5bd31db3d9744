---------------------------- MODULE MCDocsBuilder ----------------------------
(* Small instances of DocsBuilder for TLC. *)
EXTENDS DocsBuilder

CONSTANTS a, b

\* 1 holds 2, and 2 holds 3; 4 is a root of its own, and 5 does not exist
Tree == [c \in 1..4 |-> IF c \in {1, 4} THEN NoCollection ELSE c - 1]

\* everything about this collection is fixed
Fixed(c) ==
  [parent |-> Tree[c], dir |-> c, titles |-> {"en", "lt"}, columns |-> {a, b},
   order |-> <<b, a>>, hideColumns |-> FALSE, fromMap |-> FALSE, preview |-> FALSE,
   orderBy |-> Unordered, orderShown |-> TRUE, top |-> 0]

\* what two columns hold: each row another value, and all the same
Falling == [row \in Rows |-> 0 - row]
Ties    == [row \in Rows |-> 7]

\* a preview of the rows of a map file
OfMap(def, column) ==
  [def EXCEPT !.preview = TRUE, !.fromMap = TRUE, !.orderBy = column]

\* a directory each and a preview, of a directory or of the top of a map file;
\* then titles, columns and a preview that are left to chance; then 2 and 4 keep
\* their data with 1
Ordered == [c \in 1..4 |-> [Fixed(c) EXCEPT !.preview = c = 2]]
Topmost ==
  [c \in 1..4 |-> IF c = 4 THEN [OfMap(Fixed(c), Falling) EXCEPT !.top = 1] ELSE Fixed(c)]
Shuffled ==
  [c \in 1..4 |->
     CASE c = 1 -> [Fixed(c) EXCEPT !.order = <<>>]
       [] c = 2 -> [Fixed(c) EXCEPT !.hideColumns = TRUE]
       [] c = 3 -> [Fixed(c) EXCEPT !.titles = {"lt", "lv"}]
       [] c = 4 -> OfMap(Fixed(c), Ties)]
Shared == [c \in 1..4 |-> [Fixed(c) EXCEPT !.dir = IF c = 3 THEN 3 ELSE 1]]
Databases == {Ordered, Topmost, Shuffled, Shared}

\* one collection, whose preview is ordered by a column that it does not show
Hidden == [c \in {4} |-> [OfMap(Fixed(c), Falling) EXCEPT !.orderShown = FALSE]]
HiddenOrder == {Hidden}
OneCollection == {[kind |-> "one", of |-> 4]}

Asked(kind, c) == [kind |-> kind, of |-> c]
AllPatterns == {Asked("one", 2), Asked("one", 5), Asked("direct", 1), Asked("all", 1),
                Asked("everything", 5)}
=============================================================================
