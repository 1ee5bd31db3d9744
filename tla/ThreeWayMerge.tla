--------------------------- MODULE ThreeWayMerge ---------------------------
(***************************************************************************)
(* What a three-way merge of keyed records promises, without any order of  *)
(* evaluation: one rule for records and for their fields, where "absent"   *)
(* is one more value.  A side that left the base alone yields to the       *)
(* other, sides that agree are taken, anything else is contested.          *)
(***************************************************************************)
CONSTANTS Keys, Fields, NoRecord

VARIABLES base, ours, theirs,  \* each side's records, by key
          splice,              \* may two edits of one record be combined?
          single,              \* must the result hold a record?
          usable,              \* could the definition and the sides be read?
          verdict,             \* "open", then "escalated" or "merged"
          union                \* the merged records, by key

inputs == <<base, ours, theirs, splice, single, usable>>
vars   == <<inputs, verdict, union>>

OneSided(b, o, t) == o = b \/ t = b \/ o = t
Pick(b, o, t)     == IF o = b THEN t ELSE o

CanSplice(b, o, t) ==
  /\ splice
  /\ NoRecord \notin {b, o, t}
  /\ \A f \in Fields : OneSided(b[f], o[f], t[f])

Safe(b, o, t) == OneSided(b, o, t) \/ CanSplice(b, o, t)
Rule(b, o, t) ==
  IF OneSided(b, o, t) THEN Pick(b, o, t)
  ELSE [f \in Fields |-> Pick(b[f], o[f], t[f])]

Union == [k \in Keys |-> Rule(base[k], ours[k], theirs[k])]

Mergeable ==
  /\ usable
  /\ \A k \in Keys : Safe(base[k], ours[k], theirs[k])
  /\ single => \E k \in Keys : Union[k] # NoRecord

Init ==
  /\ verdict = "open"
  /\ union = [k \in Keys |-> NoRecord]

\* the conflict is left to the user exactly when it cannot be merged
Escalate ==
  /\ verdict = "open"
  /\ ~Mergeable
  /\ verdict' = "escalated"
  /\ UNCHANGED <<inputs, union>>

Merge ==
  /\ verdict = "open"
  /\ Mergeable
  /\ verdict' = "merged"
  /\ union' = Union
  /\ UNCHANGED inputs

Next == Escalate \/ Merge

Spec == Init /\ [][Next]_vars
=============================================================================
