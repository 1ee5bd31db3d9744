--------------------------- MODULE MCRecordRules ---------------------------
(* Small instances of RecordRules for TLC.  Columns a and b, a column that   *)
(* has the name of the builtin `len`, and "$ID".                             *)
EXTENDS RecordRules

CONSTANTS first, second, isA, isB, textA, lenA, bad

\* `a != None`, `b != None`, `a`, `len > 0` and a text that does not parse
NamesIn == [s \in Sources |-> CASE s \in {isA, textA} -> {"a"} [] s = isB -> {"b"}
                              [] s = lenA -> {"len"} [] OTHER -> {}]
Asks(present) == IF present THEN "true" ELSE "false"
Starlark(source, fields) ==
  LET bound(x) == x \in DOMAIN fields /\ fields[x] # Nil
  IN CASE source = isA -> Asks(bound("a"))
       [] source = isB -> Asks(bound("b"))
       [] source = textA -> IF bound("a") /\ fields["a"].kind = "bool"
                            THEN Asks(fields["a"].n = 1) ELSE "other"
       [] OTHER -> IF bound("len") /\ fields["len"].kind \in Numbers
                   THEN Asks(fields["len"].n > 0) ELSE "failure"

V(kind, n) == [kind |-> kind, n |-> n, items |-> <<>>]
Items(kind, items) == [kind |-> kind, n |-> 0, items |-> items]
Text == V("string", 2)
Scalars == {V("bool", 1), Text, V("string", 0), V("int", 2), V("int", 6), V("uint", 6),
            V("float", 3), V("float", 6), V("time", 0), V("bool", 0)}
SomeValues == Scalars \cup {Items("list", <<>>), Items("list", <<Text>>),
                            Items("list", <<Text, Nil>>), Items("list", <<V("time", 0)>>),
                            Items("list", <<V("int", 2), V("float", 3)>>),
                            Items("map", <<Text>>), Items("map", <<V("int", 2), Text>>)}

Plain(type) == [type |-> type, formula |-> NoSource, required |-> FALSE, when |-> NoSource,
                enum |-> {}, minValue |-> Unset, maxValue |-> Unset,
                length |-> Unset, minLength |-> Unset, maxLength |-> Unset]
Computed(source) == [Plain("int") EXCEPT !.formula = source]
When(source) == [Plain("any") EXCEPT !.when = source]

Collection(columns, record, keyed) == [columns |-> columns, record |-> record, keyed |-> keyed]
NoFields == [x \in {} |-> Nil]
One(x, value) == [y \in {x} |-> value]
Two(x, v, y, w) == [z \in {x, y} |-> IF z = x THEN v ELSE w]
Alone(collections) == [{first} -> collections]

\* every value against every kind of column
Constraints ==
  {Plain(t) : t \in Types}
    \cup {[Plain("any") EXCEPT !.enum = e] :
            e \in {{V("int", 2), Text}, {V("float", 6)}, {V("uint", 6), Items("list", <<>>)},
                   {Items("map", <<Text>>)}}}
    \cup {[Plain(t) EXCEPT !.minValue = l, !.maxValue = u] :
            t \in {"int", "float", "any"}, l \in {Unset, 3}, u \in {Unset, 2, 3}}
    \cup {[Plain(t) EXCEPT !.length = n, !.minLength = l, !.maxLength = u] :
            t \in {"string", "any", "[]string"}, n \in {Unset, 1},
            l \in {Unset, 1}, u \in {Unset, 0, 1}}
ValueCases ==
  Alone({Collection(One("a", col), One("a", v), FALSE) : col \in Constraints, v \in SomeValues})

\* required, conditional and computed columns beside each other
Columned == {Plain("any"), [Plain("any") EXCEPT !.required = TRUE], Computed(isA), Computed(lenA),
             When(isA), When(textA), When(lenA), When(bad),
             [When(isA) EXCEPT !.required = TRUE], [Computed(isB) EXCEPT !.when = isA],
             [Computed(isB) EXCEPT !.type = "temporal"]}
FieldValues == {V("bool", 1), V("bool", 0), Text, V("int", 2), V("time", 0),
                Items("list", <<V("time", 0)>>), Nil}
SiblingCases ==
  Alone({Collection(Two("a", col, x, other), record, keyed) :
           col \in Columned, other \in Columned, x \in {"b", "len"}, keyed \in {FALSE},
           record \in {NoFields} \cup {One(y, v) : y \in {"a", "b"}, v \in FieldValues}
                      \cup {One("len", V("int", 2))}}
        \cup
        {Collection(One("$ID", col), record, keyed) :
           col \in Columned, keyed \in BOOLEAN,
           record \in {NoFields, One("$ID", Nil), One("$ID", V("int", 2)), One("a", Text)}})

\* two collections that share the text of an expression
Sharing == {Collection(Two("a", col, "b", other), record, FALSE) :
              col \in {Plain("any"), Computed(lenA), When(isB)},
              other \in {When(isA), When(textA), Computed(isA)},
              record \in {NoFields, One("a", V("int", 2))}}
           \cup {Collection(One("b", col), NoFields, FALSE) : col \in {When(isA), Computed(isA)}}
           \cup {Collection(Two("a", Plain("any"), "len", When(isA)), NoFields, FALSE)}
SharedCases == [Callers -> Sharing]

AllCases == ValueCases \cup SiblingCases \cup SharedCases

\* bounds that exclude each other, a number that only fits an unsigned integer,
\* and a column that is not required, beside a time that its condition `b != None`
\* does not ask about
Unsigned == [x \in {"a", "len"} |-> IF x = "a" THEN V("uint", 6) ELSE V("time", 0)]
DisputedCases ==
  Alone({Collection([x \in {"a", "b", "len"} |->
                       CASE x = "a" -> [Plain("int") EXCEPT !.minValue = 4, !.maxValue = 2]
                         [] x = "b" -> When(isB)
                         [] x = "len" -> Plain("temporal")], Unsigned, FALSE)})
=============================================================================
