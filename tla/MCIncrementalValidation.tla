---------------------- MODULE MCIncrementalValidation ----------------------
(* Small instances of IncrementalValidation for TLC: people with one file    *)
(* per record, tags with all of theirs in one file.                          *)
EXTENDS IncrementalValidation

CONSTANTS people, tags,                         \* collections
          peopleDefinition,                     \* definition file
          alice, bob, tagsFile                  \* record files

One(record) == [k \in {1} |-> record]
Two(first, second) == [k \in {1, 2} |-> IF k = 1 THEN first ELSE second]

\* the definition of the tags stays as it is
PeopleDefined == [c \in Collections |-> IF c = people THEN {peopleDefinition} ELSE {}]

OwnFiles == [f \in RecordFiles |-> IF f = tagsFile THEN {tags} ELSE {people}]
\* enough of alice for her to change, of bob for a renaming and a broken file, and
\* of the tags for a file with several records, one of them at fault
SomeContents == [f \in RecordFiles |->
  CASE f = tagsFile -> {Two("fits", "bad")}
    [] f = bob -> {Garbage}
    [] OTHER -> {One("fits"), One("loose")}]
=============================================================================
