---------------------------- MODULE MCValidation ----------------------------
(* Small instances of Validation for TLC.  Modules, names and subcollection  *)
(* ids are integers: module 1 holds "countries" (1) and "orders" (2), there  *)
(* is another "countries" without a module, and orders have details (3).     *)
EXTENDS Validation

Countries == Id(1, 1)
Others    == Id(0, 1)
Orders    == Id(1, 2)
Details   == <<Orders, Id(0, 3)>>
Notes     == Append(Details, Id(0, 4))
Paths     == {<<Countries>>, <<Others>>, <<Orders>>, Details, Notes}

Plain(ref) == [fits |-> TRUE, ref |-> ref]
Misfit     == [fits |-> FALSE, ref |-> NoRef]

File(first, second) == [k \in Keys |-> IF k = 1 THEN first ELSE second]
FilesOf(cells) == [Keys -> cells]
OrderFiles == {File(Plain(1), NoRecord), File(Plain(2), Plain(NoRef)), File(Garbage, Plain(1))}
EmptyFile  == File(NoRecord, NoRecord)

DiskOf(c, t, o, d, n) ==
  [i \in Instances |-> CASE i.path = <<Countries>> -> c
                          [] i.path = <<Others>> -> t
                          [] i.path = <<Orders>> -> o
                          [] i.path = Details -> d[i.keys[1]]
                          [] OTHER -> n[i.keys]]
NoNotes == [keys \in [1..2 -> Keys] |-> EmptyFile]
Calm(disks) == [disk : disks, edits : {0}]

\* country keys come and go, order details may be misfits or refer
ShopCases ==
  Calm({DiskOf(c, EmptyFile, o, d, NoNotes) :
          c \in FilesOf({NoRecord, Plain(NoRef)}) \cup {Broken}, o \in OrderFiles,
          d \in [Keys -> FilesOf({NoRecord, Misfit, Plain(2)})]})

\* two collections called countries, and notes (4) below the order details
NestedCases ==
  Calm({DiskOf(File(Plain(NoRef), NoRecord), t, o, d, n) :
          t \in FilesOf({NoRecord, Plain(NoRef)}), o \in OrderFiles,
          d \in [Keys -> {EmptyFile, File(Plain(1), Garbage), File(Misfit, Plain(2))}],
          n \in [[1..2 -> Keys] -> {EmptyFile, File(Plain(2), Misfit)}]})

\* a few of these states, to edit
EditedCases ==
  [disk : {DiskOf(c, EmptyFile, o, d, NoNotes) :
             c \in {File(Plain(NoRef), NoRecord), Broken},
             o \in {File(Plain(1), NoRecord), File(Plain(2), Plain(1))},
             d \in [Keys -> {EmptyFile, File(Plain(2), Misfit)}]},
   edits : {1}]
AllCases == ShopCases \cup NestedCases \cup EditedCases

RecordLayouts == [p \in Collections |->
  CASE p = <<Countries>> -> "shared" [] p = <<Others>> -> "opaque" [] OTHER -> "single"]

\* orders and details say `foreign_key: countries`, notes name another module
RefersTo == [p \in Collections |-> CASE p \in {<<Orders>>, Details} -> Others
                                    [] Len(p) = 1 -> NoRef
                                    [] OTHER -> Countries]
AtLeast == [p \in Collections |-> IF p = Details THEN 1 ELSE -1]
AtMost  == [p \in Collections |-> IF p \in {<<Orders>>, Details} THEN 1 ELSE -1]
=============================================================================
