-------------------------- MODULE ValidationProofs --------------------------
(***************************************************************************)
(* Theorems about Validation, for any collections, keys and files, any     *)
(* depth of subcollections, and any edits in the meantime.                 *)
(***************************************************************************)
EXTENDS Validation, FiniteSetTheorems, FunctionTheorems, SequenceTheorems,
        WellFoundedInduction, TLAPS

-----------------------------------------------------------------------------
(* The inductive invariant. *)

Held(s)  == UNION {s[i] : i \in DOMAIN s}
Parts(s) == \A i, j \in DOMAIN s : i # j => s[i] \cap s[j] = {}
Waiting  == Held(work)

\* what is below an instance, whether or not its parent records exist
Below(i) ==
  {j \in Instances : Len(i.path) < Len(j.path) /\ Ancestor(j, Len(i.path)) = i}

\* a task, and the tasks that it may lead to
Steps == {"visit", "expand"}
Reach(task) ==
  {task} \cup IF task.step = "expand" THEN Tasks(Steps, Below(task.inst)) ELSE {}
Visit(i)  == [step |-> "visit", inst |-> i]
Awaits(i) == \E task \in Waiting : Visit(i) \in Reach(task)

Resting == phase \notin {"walk", "refs"} => work = <<>>

\* no task is done twice
Apart ==
  /\ Parts(work)
  /\ \A t, u \in Waiting : t # u => Reach(t) \cap Reach(u) = {}

\* the walks keep to instances whose parent records exist
OnTheWay == \A task \in Waiting : Still(task.inst) => OnPath(task.inst)

\* the schema passes: nothing is found before an instance is read, and what is
\* found then is exact
Unjudged(i) ==
  \/ phase = "schema" /\ (Len(i.path) > 1 \/ i.path[1] \in todo)
  \/ phase = "walk" /\ Awaits(i)
Judged(i) ==
  /\ \A k \in Keys : <<i, k>> \notin edited =>
       (Finding("record", i, k) \in findings
          <=> OnPath(i) /\ Finding("record", i, k) \in SchemaFindings(i))
  /\ (\A k \in Keys : <<i, k>> \notin edited) =>
       \A f \in {Finding(kind, i, NoKey) : kind \in {"file", "few", "many"}} :
         f \in findings <=> OnPath(i) /\ f \in SchemaFindings(i) \cup CountFindings(i)
Judgements ==
  \A i \in Instances :
    /\ Unjudged(i) => \A f \in findings : f.inst = i => f.kind = "reference"
    /\ ~Unjudged(i) /\ Still(i) => Judged(i)

\* the foreign-key pass: the index is exact, and so is what is found with it
IsIndexed(r) == (phase = "index" /\ r \notin todo) \/ phase \in {"refs", "done"}
Indexed ==
  \A r \in RootIds : IsIndexed(r) =>
    \A k \in Keys : <<RootInstance(r), k>> \notin edited =>
      (k \in index[r] <=> k \in Loads(RootInstance(r)))
Unreferred(i) == phase \in {"schema", "walk", "index"} \/ (phase = "refs" /\ Awaits(i))
Referred(i) ==
  \A k \in Keys : <<i, k>> \notin edited /\ TargetStill(i) =>
    (Finding("reference", i, k) \in findings <=> OnPath(i) /\ Dangling(i, k))
References ==
  \A i \in Instances :
    /\ Unreferred(i) => \A f \in findings : f.inst = i => f.kind # "reference"
    /\ ~Unreferred(i) /\ Still(i) => Referred(i)

IInv ==
  /\ TypeOK /\ IsFiniteSet(findings) /\ CountsMatchFindings
  /\ Resting /\ Apart /\ OnTheWay
  /\ Judgements /\ Indexed /\ References

-----------------------------------------------------------------------------
(* Paths and instances. *)

LEMMA Least ==
  ASSUME NEW T, T \subseteq Nat, T # {}
  PROVE  \E n \in T : \A m \in T : n <= m
<1>1. PICK n \in T : \A m \in T : <<m, n>> \notin OpToRel(<, Nat)
  BY WFMin, NatLessThanWellFounded, Zenon
<1>2. \A m \in T : ~(m < n)
  BY <1>1, Zenon DEF OpToRel
<1> QED
  BY <1>2

\* Of a collection, every collection above it is one.
LEMMA PathsAbove ==
  ASSUME NEW p \in Collections
  PROVE  /\ p \in Seq(Ids) /\ Len(p) \in Nat \ {0}
         /\ \A n \in 1..Len(p) : SubSeq(p, 1, n) \in Collections
<1>1. p \in Seq(Ids) /\ Len(p) \in Nat \ {0}
  BY PathAssumption
<1> DEFINE T == {m \in Nat : m < Len(p) /\ SubSeq(p, 1, Len(p) - m) \notin Collections}
<1>2. T = {}
  <2> SUFFICES ASSUME T # {}
               PROVE  FALSE
    OBVIOUS
  <2>1. PICK m \in T : \A k \in T : m <= k
    <3>1. T \subseteq Nat /\ T # {}
      OBVIOUS
    <3> HIDE DEF T
    <3> QED BY <3>1, Least
  <2>2. m # 0
    <3>1. SubSeq(p, 1, Len(p)) = p /\ Len(p) - 0 = Len(p)
      BY <1>1
    <3>2. SubSeq(p, 1, Len(p) - 0) \in Collections
      BY <3>1
    <3> QED BY <2>1, <3>2
  <2> DEFINE n == Len(p) - m
             q == SubSeq(p, 1, n + 1)
  <2>3. m \in Nat \ {0} /\ n \in Nat \ {0} /\ n < Len(p) /\ m - 1 \in Nat
        /\ Len(p) - (m - 1) = n + 1 /\ m - 1 < Len(p)
    BY <1>1, <2>1, <2>2
  <2>4. q \in Collections
    BY <2>1, <2>3
  <2>5. Len(q) > 1 /\ Front(q) = SubSeq(p, 1, n)
    BY <1>1, <2>3 DEF Front
  <2>6. SubSeq(p, 1, n) \in Collections
    <3> HIDE DEF q, n
    <3> QED BY <2>4, <2>5, PathAssumption
  <2> QED BY <2>1, <2>6
<1>3. ASSUME NEW n \in 1..Len(p)
      PROVE  SubSeq(p, 1, n) \in Collections
  <2>1. Len(p) - n \in Nat /\ Len(p) - n < Len(p) /\ Len(p) - (Len(p) - n) = n
    BY <1>1
  <2> QED BY <1>2, <2>1
<1> QED
  BY <1>1, <1>3

LEMMA InstanceIs ==
  ASSUME NEW i \in Instances
  PROVE  /\ i = [path |-> i.path, keys |-> i.keys]
         /\ i.path \in Collections /\ i.path \in Seq(Ids) /\ Len(i.path) \in Nat \ {0}
         /\ i.keys \in Seq(Keys) /\ Len(i.keys) = Len(i.path) - 1
         /\ DOMAIN i.keys = 1..(Len(i.path) - 1)
<1>1. PICK p \in Collections : i \in [path : {p}, keys : [1..(Len(p) - 1) -> Keys]]
  BY DEF Instances
<1>2. i = [path |-> i.path, keys |-> i.keys] /\ i.path = p
      /\ i.keys \in [1..(Len(p) - 1) -> Keys]
  BY <1>1
<1>3. p \in Seq(Ids) /\ Len(p) \in Nat \ {0} /\ Len(p) - 1 \in Nat
  BY PathsAbove
<1> HIDE <1>1
<1>4. i.keys \in Seq(Keys) /\ Len(i.keys) = Len(p) - 1 /\ DOMAIN i.keys = 1..(Len(p) - 1)
  BY <1>2, <1>3
<1> QED
  BY <1>2, <1>3, <1>4

LEMMA IsInstance ==
  ASSUME NEW p \in Collections, NEW keys \in Seq(Keys), Len(keys) = Len(p) - 1
  PROVE  [path |-> p, keys |-> keys] \in Instances
<1>1. keys \in [1..(Len(p) - 1) -> Keys]
  OBVIOUS
<1> QED
  BY <1>1 DEF Instances

LEMMA AncestorIs ==
  ASSUME NEW i \in Instances, NEW n \in 1..Len(i.path)
  PROVE  /\ Ancestor(i, n) \in Instances /\ Len(Ancestor(i, n).path) = n
         /\ \A m \in 1..(n - 1) : Ancestor(i, n).keys[m] = i.keys[m]
         /\ \A m \in 1..n : Ancestor(Ancestor(i, n), m) = Ancestor(i, m)
         /\ n = Len(i.path) => Ancestor(i, n) = i
<1> DEFINE p == i.path
           s == i.keys
<1>1. /\ i = [path |-> p, keys |-> s]
      /\ p \in Collections /\ p \in Seq(Ids) /\ Len(p) \in Nat \ {0}
      /\ s \in Seq(Keys) /\ Len(s) = Len(p) - 1
  BY InstanceIs
<1>2. Ancestor(i, n) = [path |-> SubSeq(p, 1, n), keys |-> SubSeq(s, 1, n - 1)]
  BY DEF Ancestor
<1> HIDE DEF p, s
<1>3. n \in 1..Len(p)
  BY DEF p
<1>4. SubSeq(p, 1, n) \in Collections
  BY <1>1, <1>3, PathsAbove
<1>5. /\ SubSeq(p, 1, n) \in Seq(Ids) /\ Len(SubSeq(p, 1, n)) = n
      /\ SubSeq(s, 1, n - 1) \in Seq(Keys) /\ Len(SubSeq(s, 1, n - 1)) = n - 1
      /\ \A m \in 1..(n - 1) : SubSeq(s, 1, n - 1)[m] = s[m]
  BY <1>1, <1>3
<1>6. Ancestor(i, n) \in Instances /\ Len(Ancestor(i, n).path) = n
  <2> DEFINE q == SubSeq(p, 1, n)
             t == SubSeq(s, 1, n - 1)
  <2>1. q \in Collections /\ t \in Seq(Keys) /\ Len(t) = Len(q) - 1 /\ Len(q) = n
    BY <1>4, <1>5
  <2>2. Ancestor(i, n) = [path |-> q, keys |-> t]
    BY <1>2
  <2> HIDE DEF q, t
  <2> QED BY <2>1, <2>2, IsInstance
<1>7. ASSUME NEW m \in 1..n
      PROVE  Ancestor(Ancestor(i, n), m) = Ancestor(i, m)
  <2>1. SubSeq(SubSeq(p, 1, n), 1, m) = SubSeq(p, 1, m)
    BY <1>1, <1>3
  <2>2. SubSeq(SubSeq(s, 1, n - 1), 1, m - 1) = SubSeq(s, 1, m - 1)
    BY <1>1, <1>3
  <2> QED BY <1>2, <2>1, <2>2 DEF Ancestor, p, s
<1>8. n = Len(p) => Ancestor(i, n) = i
  <2>1. SubSeq(p, 1, Len(p)) = p /\ SubSeq(s, 1, Len(s)) = s
    BY <1>1
  <2> QED BY <1>1, <1>2, <2>1
<1> QED
  BY <1>2, <1>5, <1>6, <1>7, <1>8 DEF p, s

LEMMA RootsAre ==
  /\ \A r \in RootIds : RootInstance(r) \in Instances /\ Len(RootInstance(r).path) = 1
                        /\ RootInstance(r).path[1] = r
  /\ \A i \in Instances : i.path[1] \in RootIds /\ Ancestor(i, 1) = RootInstance(i.path[1])
<1>1. ASSUME NEW r \in RootIds
      PROVE  /\ RootInstance(r) \in Instances /\ Len(RootInstance(r).path) = 1
             /\ RootInstance(r).path[1] = r
  <2>1. PICK p \in Collections : Len(p) = 1 /\ p[1] = r
    BY DEF RootIds, Roots
  <2>2. p = <<r>>
    BY <2>1, PathsAbove
  <2>3. <<>> \in Seq(Keys) /\ Len(<<>>) = Len(p) - 1
    BY <2>1
  <2>4. [path |-> p, keys |-> <<>>] \in Instances
    BY <2>3, IsInstance
  <2> QED BY <2>1, <2>2, <2>4 DEF RootInstance
<1>2. ASSUME NEW i \in Instances
      PROVE  i.path[1] \in RootIds /\ Ancestor(i, 1) = RootInstance(i.path[1])
  <2> DEFINE p == i.path
             s == i.keys
  <2>1. p \in Collections /\ p \in Seq(Ids) /\ Len(p) \in Nat \ {0} /\ s \in Seq(Keys)
    BY InstanceIs
  <2>2. Ancestor(i, 1) = [path |-> SubSeq(p, 1, 1), keys |-> SubSeq(s, 1, 0)]
    BY DEF Ancestor
  <2> HIDE DEF p, s
  <2>3. SubSeq(p, 1, 1) \in Collections
    BY <2>1, PathsAbove
  <2> DEFINE q == SubSeq(p, 1, 1)
  <2>4. q \in Seq(Ids) /\ Len(q) = 1 /\ q[1] = p[1] /\ SubSeq(s, 1, 0) = <<>>
    BY <2>1
  <2>5. q \in Collections
    BY <2>3
  <2>6. Ancestor(i, 1) = [path |-> q, keys |-> SubSeq(s, 1, 0)]
    BY <2>2
  <2> HIDE DEF q
  <2>7. q = <<p[1]>>
    BY <2>4
  <2>8. p[1] \in RootIds
    BY <2>4, <2>5 DEF RootIds, Roots
  <2> QED BY <2>4, <2>6, <2>7, <2>8 DEF p, s, RootInstance
<1> QED
  BY <1>1, <1>2

LEMMA ChildIs ==
  ASSUME NEW i \in Instances, NEW c \in Children(i)
  PROVE  /\ c \in Instances /\ Len(c.path) = Len(i.path) + 1
         /\ Ancestor(c, Len(i.path)) = i
         /\ c.keys[Len(i.path)] \in Loads(i)
         /\ \A m \in 1..(Len(i.path) - 1) : c.keys[m] = i.keys[m]
<1>1. PICK p \in Collections, k \in Loads(i) :
        /\ Len(p) > 1 /\ Front(p) = i.path
        /\ c = [path |-> p, keys |-> Append(i.keys, k)]
  BY DEF Children, Child
<1>2. /\ i = [path |-> i.path, keys |-> i.keys]
      /\ i.path \in Seq(Ids) /\ Len(i.path) \in Nat \ {0}
      /\ i.keys \in Seq(Keys) /\ Len(i.keys) = Len(i.path) - 1
  BY InstanceIs
<1>3. p \in Seq(Ids) /\ Len(p) \in Nat \ {0} /\ k \in Keys
  BY PathsAbove DEF Loads, Present
<1>4. Len(p) = Len(i.path) + 1 /\ SubSeq(p, 1, Len(i.path)) = i.path
  BY <1>1, <1>3 DEF Front
<1> DEFINE s == i.keys
           n == Len(i.path)
<1>5. s \in Seq(Keys) /\ n \in Nat \ {0} /\ Len(s) = n - 1
  BY <1>2
<1> HIDE DEF s, n
<1>6. /\ Append(s, k) \in Seq(Keys) /\ Len(Append(s, k)) = n
      /\ SubSeq(Append(s, k), 1, n - 1) = s
      /\ Append(s, k)[n] = k /\ \A m \in 1..(n - 1) : Append(s, k)[m] = s[m]
  BY <1>3, <1>5
<1>7. c \in Instances
  <2> DEFINE t == Append(s, k)
  <2>1. c = [path |-> p, keys |-> t] /\ t \in Seq(Keys) /\ Len(t) = Len(p) - 1
    BY <1>1, <1>3, <1>4, <1>5, <1>6 DEF s, n
  <2> HIDE DEF t
  <2> QED BY <2>1, IsInstance
<1> QED
  BY <1>1, <1>2, <1>4, <1>6, <1>7 DEF s, n, Ancestor

\* An instance below another is in one of its children, if the parent record
\* of that one can be loaded.
LEMMA IsBelowChild ==
  ASSUME NEW i \in Instances, NEW j \in Below(i), j.keys[Len(i.path)] \in Loads(i)
  PROVE  Ancestor(j, Len(i.path) + 1) \in Children(i)
<1> DEFINE n == Len(i.path)
           p == j.path
           s == j.keys
           q == SubSeq(p, 1, n + 1)
<1>1. /\ j \in Instances /\ n < Len(p) /\ Ancestor(j, n) = i
      /\ n \in Nat \ {0} /\ p \in Collections /\ p \in Seq(Ids) /\ Len(p) \in Nat \ {0}
      /\ s \in Seq(Keys) /\ Len(s) = Len(p) - 1
  BY InstanceIs DEF Below
<1>2. Ancestor(j, n + 1) = [path |-> q, keys |-> SubSeq(s, 1, n)]
  BY <1>1 DEF Ancestor
<1>3. i.path = SubSeq(p, 1, n) /\ i.keys = SubSeq(s, 1, n - 1)
  BY <1>1 DEF Ancestor
<1>4. s[n] \in Loads(i)
  OBVIOUS
<1> HIDE DEF n, p, s
<1>5. q \in Collections
  BY <1>1, PathsAbove
<1>6. Front(q) = SubSeq(p, 1, n) /\ Len(q) = n + 1
  BY <1>1 DEF Front
<1>7. SubSeq(s, 1, n) = Append(SubSeq(s, 1, n - 1), s[n])
  BY <1>1
<1>8. Ancestor(j, n + 1) = [path |-> q, keys |-> Append(i.keys, s[n])]
  BY <1>2, <1>3, <1>7
<1>9. Len(q) > 1 /\ Front(q) = i.path
  BY <1>1, <1>3, <1>6
<1> HIDE DEF q
<1>10. Ancestor(j, n + 1) \in Children(i)
  <2> DEFINE a == Ancestor(j, n + 1)
             k == s[n]
  <2>1. k \in Loads(i) /\ a = Child(i, q, k)
    BY <1>4, <1>8 DEF Child
  <2> HIDE DEF a, k
  <2>2. q \in {r \in Collections : Len(r) > 1 /\ Front(r) = i.path}
    BY <1>5, <1>9
  <2>3. a \in Children(i)
    BY <2>1, <2>2 DEF Children
  <2> QED BY <2>3 DEF a
<1> QED
  BY <1>10 DEF n

LEMMA RecordsAreChosen ==
  ASSUME NEW i \in Instances, NEW c \in Children(i)
  PROVE  /\ Still(c) <=> Still(i) /\ <<i, c.keys[Len(i.path)]>> \notin edited
         /\ OnPath(c) <=> OnPath(i)
<1> DEFINE n == Len(i.path)
<1>1. /\ c \in Instances /\ Len(c.path) = n + 1 /\ Ancestor(c, n) = i
      /\ c.keys[n] \in Loads(i)
      /\ \A m \in 1..(n - 1) : c.keys[m] = i.keys[m]
      /\ n \in Nat \ {0}
  BY ChildIs, InstanceIs
<1>2. \A m \in 1..n : Ancestor(i, m) = Ancestor(c, m)
  <2>1. n \in 1..Len(c.path)
    BY <1>1
  <2>2. \A m \in 1..n : Ancestor(Ancestor(c, n), m) = Ancestor(c, m)
    BY <1>1, <2>1, AncestorIs
  <2> QED BY <1>1, <2>2
<1> HIDE DEF n
<1>3. 1..(Len(c.path) - 1) = (1..(n - 1)) \cup {n}
  BY <1>1
<1>4. Still(c) <=> Still(i) /\ <<i, c.keys[n]>> \notin edited
  <2>1. Still(c) <=> \A m \in (1..(n - 1)) \cup {n} : <<Ancestor(c, m), c.keys[m]>> \notin edited
    BY <1>3 DEF Still
  <2>2. Still(i) <=> \A m \in 1..(n - 1) : <<Ancestor(i, m), i.keys[m]>> \notin edited
    BY DEF Still, n
  <2>3. \A m \in 1..(n - 1) : m \in 1..n
    BY <1>1
  <2> QED BY <1>1, <1>2, <2>1, <2>2, <2>3
<1>5. OnPath(c) <=> OnPath(i)
  <2>1. OnPath(c) <=> \A m \in (1..(n - 1)) \cup {n} : c.keys[m] \in Loads(Ancestor(c, m))
    BY <1>3 DEF OnPath
  <2>2. OnPath(i) <=> \A m \in 1..(n - 1) : i.keys[m] \in Loads(Ancestor(i, m))
    BY DEF OnPath, n
  <2>3. \A m \in 1..(n - 1) : m \in 1..n
    BY <1>1
  <2> QED BY <1>1, <1>2, <2>1, <2>2, <2>3
<1> QED
  BY <1>4, <1>5 DEF n
-----------------------------------------------------------------------------
(* What a task leads to. *)

LEMMA TasksAre ==
  ASSUME NEW steps, NEW insts, NEW t
  PROVE  t \in Tasks(steps, insts) <=> /\ t = [step |-> t.step, inst |-> t.inst]
                                       /\ t.step \in steps /\ t.inst \in insts
BY DEF Tasks

AllTasks == Tasks(Steps, Instances)

\* what expanding an instance leads to, task by task
LEMMA ReachUnfolds ==
  ASSUME NEW t \in AllTasks, t.step = "expand"
  PROVE  LET B == Tasks(Steps, Children(t.inst))
         IN /\ B \subseteq AllTasks
            /\ \A u \in B : u \in Reach(u) /\ Reach(u) \subseteq Reach(t) \ {t}
            /\ \A u, v \in B : u # v => Reach(u) \cap Reach(v) = {}
<1> DEFINE i == t.inst
           n == Len(i.path)
           B == Tasks(Steps, Children(i))
<1>1. i \in Instances /\ n \in Nat \ {0}
  BY TasksAre, InstanceIs DEF AllTasks
<1>2. ASSUME NEW u \in B
      PROVE  /\ u \in AllTasks /\ u.inst \in Instances /\ Len(u.inst.path) = n + 1
             /\ Ancestor(u.inst, n) = i /\ u.step \in Steps /\ u.inst \in Below(i)
             /\ u = [step |-> u.step, inst |-> u.inst]
  <2>1. /\ u.inst \in Children(i) /\ u.step \in Steps
        /\ u = [step |-> u.step, inst |-> u.inst]
    BY TasksAre
  <2>2. /\ u.inst \in Instances /\ Len(u.inst.path) = n + 1
        /\ Ancestor(u.inst, n) = i
    BY <1>1, <2>1, ChildIs
  <2>3. u \in AllTasks
    BY <2>1, <2>2, TasksAre DEF AllTasks
  <2>4. u.inst \in Below(i)
    BY <1>1, <2>2 DEF Below
  <2> QED BY <2>1, <2>2, <2>3, <2>4
<1> HIDE DEF B
<1>3. ASSUME NEW u \in B, NEW j \in Below(u.inst)
      PROVE  /\ j \in Instances /\ Ancestor(j, n + 1) = u.inst
             /\ n + 1 < Len(j.path) /\ j \in Below(i)
  <2>1. j \in Instances /\ Ancestor(j, n + 1) = u.inst /\ n + 1 < Len(j.path)
    BY <1>2 DEF Below
  <2>2. n + 1 \in 1..Len(j.path) /\ n \in 1..(n + 1) /\ n < Len(j.path)
    BY <1>1, <2>1, InstanceIs
  <2>3. Ancestor(Ancestor(j, n + 1), n) = Ancestor(j, n)
    BY <2>1, <2>2, AncestorIs
  <2>4. Ancestor(j, n) = i
    BY <1>2, <2>1, <2>3
  <2> QED BY <2>1, <2>2, <2>4 DEF Below
<1>4. ASSUME NEW u \in B
      PROVE  Reach(u) \subseteq Reach(t) \ {t} /\ u \in Reach(u)
  <2>1. Reach(t) = {t} \cup Tasks(Steps, Below(i))
    BY DEF Reach
  <2>2. \A w \in Reach(u) : w = [step |-> w.step, inst |-> w.inst]
                            /\ w.step \in Steps /\ w.inst \in Below(i)
    BY <1>2, <1>3, TasksAre DEF Reach
  <2>3. t.inst \notin Below(i)
    BY <1>1 DEF Below
  <2> QED BY <2>1, <2>2, <2>3, TasksAre DEF Reach
<1>5. ASSUME NEW u \in B, NEW v \in B, u # v
      PROVE  Reach(u) \cap Reach(v) = {}
  <2> SUFFICES ASSUME NEW w \in Reach(u), w \in Reach(v)
               PROVE  FALSE
    OBVIOUS
  <2>1. w = u \/ w.inst \in Below(u.inst)
    BY TasksAre DEF Reach
  <2>2. w = v \/ w.inst \in Below(v.inst)
    BY TasksAre DEF Reach
  <2>3. u = [step |-> u.step, inst |-> u.inst] /\ v = [step |-> v.step, inst |-> v.inst]
    BY <1>2
  <2>4. u.inst = v.inst => u.step # v.step
    BY <1>5, <2>3
  <2>5. CASE w = u
    <3>1. w.inst \in Below(v.inst)
      BY <1>5, <2>2, <2>5
    <3>2. n + 1 < Len(w.inst.path)
      BY <1>3, <3>1
    <3> QED BY <1>1, <1>2, <2>5, <3>2
  <2>6. CASE w = v
    <3>1. w.inst \in Below(u.inst)
      BY <1>5, <2>1, <2>6
    <3>2. n + 1 < Len(w.inst.path)
      BY <1>3, <3>1
    <3> QED BY <1>1, <1>2, <2>6, <3>2
  <2>7. CASE w.inst \in Below(u.inst) /\ w.inst \in Below(v.inst)
    <3>1. u.inst = v.inst
      BY <1>3, <2>7
    <3>2. w # u /\ w # v
      BY <1>1, <1>2, <1>3, <2>7
    <3>3. u.step = "expand" /\ v.step = "expand"
      BY <3>2 DEF Reach
    <3> QED BY <2>4, <3>1, <3>3
  <2> QED BY <2>1, <2>2, <2>5, <2>6, <2>7
<1> QED
  BY <1>2, <1>4, <1>5 DEF B

\* An instance whose parent records exist stays awaited when one above it is
\* expanded.
LEMMA StillAwaited ==
  ASSUME NEW t \in AllTasks, t.step = "expand",
         NEW j \in Instances, OnPath(j), Visit(j) \in Reach(t)
  PROVE  \E u \in Tasks(Steps, Children(t.inst)) : Visit(j) \in Reach(u)
<1> DEFINE i == t.inst
           n == Len(i.path)
           c == Ancestor(j, n + 1)
<1>1. i \in Instances /\ n \in Nat \ {0}
  BY TasksAre, InstanceIs DEF AllTasks
<1>2. Visit(j) # t
  BY DEF Visit
<1>3. j \in Below(i)
  BY <1>2, TasksAre DEF Reach, Visit
<1>4. n < Len(j.path) /\ Ancestor(j, n) = i /\ Len(j.path) \in Nat
  BY <1>3, InstanceIs DEF Below
<1>5. n \in 1..(Len(j.path) - 1) /\ n + 1 \in 1..Len(j.path)
  BY <1>1, <1>4
<1>6. j.keys[n] \in Loads(i)
  BY <1>4, <1>5 DEF OnPath
<1>7. c \in Children(i)
  BY <1>1, <1>3, <1>6, IsBelowChild
<1>8. Len(c.path) = n + 1 /\ (n + 1 = Len(j.path) => c = j)
  BY <1>5, AncestorIs
<1>9. CASE n + 1 = Len(j.path)
  <2>1. Visit(j) \in Tasks(Steps, Children(i)) /\ Visit(j) \in Reach(Visit(j))
    BY <1>7, <1>8, <1>9, TasksAre DEF Visit, Steps, Reach
  <2> QED BY <2>1
<1>10. CASE n + 1 # Len(j.path)
  <2> DEFINE u == [step |-> "expand", inst |-> c]
  <2>1. u \in Tasks(Steps, Children(i))
    BY <1>7, TasksAre DEF Steps
  <2>2. j \in Below(c)
    BY <1>5, <1>8, <1>10 DEF Below
  <2>3. Visit(j) \in Tasks(Steps, Below(c))
    BY <2>2, TasksAre DEF Visit, Steps
  <2>4. Visit(j) \in Reach(u)
    BY <2>3 DEF Reach
  <2> QED BY <2>1, <2>4
<1> QED
  BY <1>9, <1>10

-----------------------------------------------------------------------------
(* Frames. *)

LEMMA Framed ==
  ASSUME NEW s \in Seq(SUBSET AllTasks), NEW A \in SUBSET AllTasks,
         Parts(s), A \cap Held(s) = {}
  PROVE  /\ s \o Frame(A) \in Seq(SUBSET AllTasks)
         /\ Parts(s \o Frame(A)) /\ Held(s \o Frame(A)) = Held(s) \cup A
<1>1. CASE A = {}
  BY <1>1 DEF Frame
<1>2. CASE A # {}
  <2> DEFINE t == Append(s, A)
  <2>1. s \o Frame(A) = t
    BY <1>2 DEF Frame
  <2>2. /\ t \in Seq(SUBSET AllTasks) /\ DOMAIN t = (DOMAIN s) \cup {Len(s) + 1}
        /\ \A i \in DOMAIN s : t[i] = s[i] /\ i # Len(s) + 1
        /\ t[Len(s) + 1] = A
    OBVIOUS
  <2> HIDE DEF t
  <2>3. Parts(t)
    BY <2>2 DEF Parts, Held
  <2>4. Held(t) = Held(s) \cup A
    BY <2>2 DEF Held
  <2> QED BY <2>1, <2>2, <2>3, <2>4
<1> QED
  BY <1>1, <1>2

LEMMA Dropped ==
  ASSUME work \in Seq(SUBSET AllTasks), work # <<>>, Parts(work)
  PROVE  /\ Drop \in Seq(SUBSET AllTasks) /\ Parts(Drop)
         /\ Here \in SUBSET AllTasks /\ Here \subseteq Waiting
         /\ Held(Drop) = Waiting \ Here
<1> DEFINE n == Len(work)
<1>1. /\ n \in Nat \ {0} /\ n \in DOMAIN work /\ DOMAIN work = 1..n
      /\ Drop \in Seq(SUBSET AllTasks) /\ DOMAIN Drop = 1..(n - 1)
      /\ \A i \in DOMAIN Drop : Drop[i] = work[i] /\ i \in DOMAIN work /\ i # n
      /\ \A i \in DOMAIN work : i = n \/ i \in DOMAIN Drop
      /\ Here = work[n]
  BY DEF Drop, Here
<1> HIDE DEF n
<1>2. Parts(Drop)
  BY <1>1 DEF Parts
<1>3. Here \in SUBSET AllTasks /\ Here \subseteq Waiting
  BY <1>1 DEF Waiting, Held
<1>4. Held(Drop) = Waiting \ Here
  BY <1>1 DEF Waiting, Held, Parts
<1> QED
  BY <1>1, <1>2, <1>3, <1>4

LEMMA NextFrames ==
  ASSUME work \in Seq(SUBSET AllTasks), work # <<>>, Parts(work),
         NEW t \in Here, NEW B \in SUBSET AllTasks, B \cap Waiting = {}
  PROVE  /\ Drop \o Frame(Here \ {t}) \o Frame(B) \in Seq(SUBSET AllTasks)
         /\ Parts(Drop \o Frame(Here \ {t}) \o Frame(B))
         /\ Held(Drop \o Frame(Here \ {t}) \o Frame(B)) = (Waiting \ {t}) \cup B
<1> DEFINE s == Drop \o Frame(Here \ {t})
<1>1. /\ Drop \in Seq(SUBSET AllTasks) /\ Parts(Drop) /\ Here \ {t} \in SUBSET AllTasks
      /\ (Here \ {t}) \cap Held(Drop) = {}
      /\ Held(Drop) \cup (Here \ {t}) = Waiting \ {t}
  BY Dropped
<1>2. s \in Seq(SUBSET AllTasks) /\ Parts(s) /\ Held(s) = Waiting \ {t}
  BY <1>1, Framed
<1> HIDE DEF s
<1>3. B \cap Held(s) = {}
  BY <1>2
<1>4. /\ s \o Frame(B) \in Seq(SUBSET AllTasks) /\ Parts(s \o Frame(B))
      /\ Held(s \o Frame(B)) = Held(s) \cup B
  BY <1>2, <1>3, Framed
<1> QED
  BY <1>2, <1>4 DEF s

\* One frame of tasks, to begin a walk with.
LEMMA OneFrame ==
  ASSUME NEW A \in SUBSET AllTasks
  PROVE  /\ Frame(A) \in Seq(SUBSET AllTasks) /\ Parts(Frame(A)) /\ Held(Frame(A)) = A
<1>1. CASE A = {}
  BY <1>1 DEF Frame, Parts, Held
<1>2. CASE A # {}
  <2> DEFINE t == <<A>>
  <2>1. Frame(A) = t
    BY <1>2 DEF Frame
  <2>2. t \in Seq(SUBSET AllTasks) /\ DOMAIN t = {1} /\ t[1] = A
    OBVIOUS
  <2> HIDE DEF t
  <2>3. Parts(t) /\ Held(t) = A
    BY <2>2 DEF Parts, Held
  <2> QED BY <2>1, <2>2, <2>3
<1> QED
  BY <1>1, <1>2
-----------------------------------------------------------------------------
(* Foreign keys. *)

\* The collection a foreign key is resolved to is the one it means.
LEMMA TargetsAreMeant ==
  ASSUME NEW i \in Instances, ForeignKeys[i.path] # NoRef
  PROVE  Targets(i) = Meant(i)
<1> DEFINE fk == ForeignKeys[i.path]
           root == i.path[1]
<1>1. /\ fk \in Ids /\ root \in Ids
  BY InstanceIs, DefinitionAssumption
<1>2. RootIds \subseteq Ids
  BY PathAssumption DEF RootIds, Roots
<1>3. Targets(i) = ResolveForeignKey(root, fk)
  BY DEF Targets
<1>4. /\ Named(i) = {r \in RootIds : r = fk \/ (fk = Id(NoModule, r.name) /\ r.module = root.module)}
      /\ Meant(i) = {r \in Named(i) : \A s \in Named(i) : s.module = root.module => r = s}
  BY DEF Named, Meant
<1> HIDE DEF fk, root
<1> DEFINE q == Id(root.module, fk.name)
<1>5. q \in Ids /\ q.module = root.module /\ q.name = fk.name
  BY <1>1 DEF Id, Ids
<1>6. CASE fk.module # NoModule
  <2>1. \A r \in RootIds : fk # Id(NoModule, r.name)
    BY <1>6 DEF Id
  <2>2. Named(i) = {fk} \cap RootIds
    BY <1>4, <2>1
  <2>3. ResolveForeignKey(root, fk) = {fk} \cap RootIds
    BY <1>6 DEF ResolveForeignKey
  <2> QED BY <1>3, <1>4, <2>2, <2>3
<1>7. CASE fk.module = NoModule
  <2>1. \A r \in RootIds : (fk = Id(NoModule, r.name) /\ r.module = root.module) <=> r = q
    <3> SUFFICES ASSUME NEW r \in RootIds
                 PROVE  (fk = Id(NoModule, r.name) /\ r.module = root.module) <=> r = q
      OBVIOUS
    <3>1. /\ r = [module |-> r.module, name |-> r.name]
          /\ fk = [module |-> fk.module, name |-> fk.name]
      BY <1>1, <1>2 DEF Ids
    <3> QED BY <1>7, <3>1 DEF Id
  <2>2. Named(i) = {fk, q} \cap RootIds
    BY <1>4, <2>1
  <2>3. CASE root.module # NoModule /\ q \in RootIds
    <3>1. ResolveForeignKey(root, fk) = {q}
      BY <1>7, <2>3 DEF ResolveForeignKey
    <3>2. Meant(i) = {q}
      BY <1>4, <1>5, <1>7, <2>2, <2>3
    <3> QED BY <1>3, <3>1, <3>2
  <2>4. CASE ~(root.module # NoModule /\ q \in RootIds)
    <3>1. ResolveForeignKey(root, fk) = {fk} \cap RootIds
      BY <1>7, <2>4 DEF ResolveForeignKey
    <3>2. root.module = NoModule => q = fk
      <4>1. fk = [module |-> fk.module, name |-> fk.name]
        BY <1>1 DEF Ids
      <4> QED BY <1>7, <4>1 DEF Id
    <3>3. Named(i) = {fk} \cap RootIds
      BY <2>2, <2>4, <3>2
    <3> QED BY <1>3, <1>4, <3>1, <3>3
  <2> QED BY <2>3, <2>4
<1> QED
  BY <1>6, <1>7

LEMMA MeantAreRoots ==
  ASSUME NEW i \in Instances
  PROVE  Meant(i) \subseteq RootIds
BY DEF Meant, Named

-----------------------------------------------------------------------------
(* Counting an instance. *)

LEMMA LoadsAreKeys ==
  ASSUME NEW i
  PROVE  /\ Loads(i) \subseteq Keys /\ Present(i) \subseteq Keys /\ Failing(i) \subseteq Present(i)
         /\ Layout(i) # "opaque" /\ disk[i] # Broken =>
              Loads(i) = {k \in Keys : disk[i][k] # NoRecord /\ disk[i][k] # Garbage}
BY DEF Loads, Present, Failing

LEMMA SchemaFindingsAre ==
  ASSUME NEW i \in Instances
  PROVE  /\ \A f \in SchemaFindings(i) :
              /\ f.inst = i /\ f.kind \in {"record", "file"} /\ f.key \in Keys \cup {NoKey}
              /\ f = [kind |-> f.kind, inst |-> f.inst, key |-> f.key]
         /\ \A f \in CountFindings(i) :
              /\ f.inst = i /\ f.kind \in {"few", "many"} /\ f.key \in Keys \cup {NoKey}
              /\ f = [kind |-> f.kind, inst |-> f.inst, key |-> f.key]
         /\ \A f \in DanglingFindings(i) :
              /\ f.inst = i /\ f.kind = "reference" /\ f.key \in Keys \cup {NoKey}
              /\ f = [kind |-> f.kind, inst |-> f.inst, key |-> f.key]
         /\ IsFiniteSet(CountFindings(i)) /\ IsFiniteSet(DanglingFindings(i))
<1>1. \A f \in SchemaFindings(i) :
        /\ f.inst = i /\ f.kind \in {"record", "file"} /\ f.key \in Keys \cup {NoKey}
        /\ f = [kind |-> f.kind, inst |-> f.inst, key |-> f.key]
  BY LoadsAreKeys DEF SchemaFindings, Finding
<1>2. \A f \in CountFindings(i) :
        /\ f.inst = i /\ f.kind \in {"few", "many"} /\ f.key \in Keys \cup {NoKey}
        /\ f = [kind |-> f.kind, inst |-> f.inst, key |-> f.key]
  BY DEF CountFindings, Finding
<1>3. \A f \in DanglingFindings(i) :
        /\ f.inst = i /\ f.kind = "reference" /\ f.key \in Keys \cup {NoKey}
        /\ f = [kind |-> f.kind, inst |-> f.inst, key |-> f.key]
  BY DEF DanglingFindings, Finding
<1>4. IsFiniteSet(CountFindings(i))
  <2>1. CountFindings(i) \subseteq {Finding("few", i, NoKey), Finding("many", i, NoKey)}
    BY DEF CountFindings
  <2>2. IsFiniteSet({Finding("few", i, NoKey)} \cup {Finding("many", i, NoKey)})
    BY FS_Singleton, FS_Union
  <2> QED BY <2>1, <2>2, FS_Subset
<1>5. IsFiniteSet(DanglingFindings(i))
  <2> DEFINE K == {l \in Keys : \E t \in Targets(i) :
                     Refers(i, l, t) /\ disk[i][l].ref \notin index[t]}
  <2>1. IsFiniteSet(K)
    BY KeysAssumption, FS_Subset
  <2>2. DanglingFindings(i) = {Finding("reference", i, k) : k \in K}
    BY DEF DanglingFindings
  <2> HIDE DEF K
  <2> DEFINE g == [k \in K |-> Finding("reference", i, k)]
  <2>3. g \in Surjection(K, DanglingFindings(i))
    BY <2>2 DEF Surjection
  <2> QED BY <2>1, <2>3, FS_Surjection
<1> QED
  BY <1>1, <1>2, <1>3, <1>4, <1>5

\* What does not pass is found once.
LEMMA CountedOnce ==
  ASSUME TypeOK, NEW i \in Instances
  PROVE  /\ Passed(i) \in Nat /\ Total(i) \in Nat
         /\ IsFiniteSet(SchemaFindings(i))
         /\ Total(i) - Passed(i) = Cardinality(SchemaFindings(i))
<1> DEFINE P == Present(i)
           F == Failing(i)
<1>1. /\ P \subseteq Keys /\ F \subseteq P
      /\ IsFiniteSet(P) /\ IsFiniteSet(F) /\ IsFiniteSet(P \ F)
  BY LoadsAreKeys, KeysAssumption, FS_Subset
<1>2. /\ Cardinality(P) \in Nat /\ Cardinality(F) \in Nat /\ Cardinality(P \ F) \in Nat
      /\ Cardinality(P \ F) = Cardinality(P) - Cardinality(F)
  <2>1. P \cap F = F
    BY <1>1
  <2>2. Cardinality(P \ F) = Cardinality(P) - Cardinality(P \cap F)
    BY <1>1, FS_Difference
  <2> QED BY <1>1, <2>1, <2>2, FS_CardinalityType
<1>3. Total(i) \in Nat /\ Passed(i) \in Nat
  BY <1>2 DEF Total, Passed
<1>4. CASE Layout(i) = "opaque"
  <2>1. SchemaFindings(i) = {} /\ Passed(i) = Total(i)
    BY <1>4 DEF SchemaFindings, Passed
  <2> QED BY <1>3, <2>1, FS_EmptySet
<1>5. CASE Layout(i) # "opaque" /\ disk[i] = Broken
  <2>1. SchemaFindings(i) = {Finding("file", i, NoKey)} /\ Passed(i) = 0 /\ Total(i) = 1
    BY <1>5 DEF SchemaFindings, Passed, Total
  <2> QED BY <1>3, <2>1, FS_Singleton
<1>6. CASE Layout(i) # "opaque" /\ disk[i] # Broken
  <2> DEFINE S == SchemaFindings(i)
             g == [k \in F |-> Finding("record", i, k)]
  <2>1. S = {Finding("record", i, k) : k \in F}
    BY <1>6 DEF SchemaFindings
  <2>2. Total(i) = Cardinality(P) /\ Passed(i) = Cardinality(P \ F)
    BY <1>6 DEF Total, Passed
  <2> HIDE DEF F, P, S
  <2>3. \A k, l : Finding("record", i, k) = Finding("record", i, l) => k = l
    BY DEF Finding
  <2>4. g \in Bijection(F, S)
    BY <2>1, <2>3 DEF Bijection, Injection, Surjection, IsInjective
  <2>5. IsFiniteSet(S) /\ Cardinality(S) = Cardinality(F)
    <3> HIDE DEF g
    <3>1. ExistsBijection(F, S)
      BY <2>4 DEF ExistsBijection
    <3>2. IsFiniteSet(F)
      BY <1>1
    <3> QED BY <3>1, <3>2, FS_Bijection
  <2>6. Cardinality(P) - Cardinality(P \ F) = Cardinality(F)
    BY <1>2
  <2> QED BY <1>3, <2>2, <2>5, <2>6 DEF S
<1> QED
  BY <1>4, <1>5, <1>6

IsCounted(f, p) == f.inst.path = p /\ f.kind \in {"record", "file"}

LEMMA ValidateStep ==
  ASSUME TypeOK, IsFiniteSet(findings), CountsMatchFindings,
         NEW i \in Instances, \A f \in findings : f.inst = i => f.kind = "reference",
         Validate(i)
  PROVE  /\ CountsMatchFindings' /\ IsFiniteSet(findings')
         /\ counts' \in [Collections -> [passed : Nat, total : Nat]]
         /\ findings' \subseteq [kind : {"record", "file", "few", "many", "reference"},
                                 inst : Instances, key : Keys \cup {NoKey}]
<1> DEFINE S == SchemaFindings(i)
           C == CountFindings(i)
<1>1. findings' = findings \cup S \cup C
  BY DEF Validate
<1>2. counts' = [counts EXCEPT ![i.path] = [passed |-> @.passed + Passed(i),
                                            total  |-> @.total + Total(i)]]
  BY DEF Validate, Count
<1>3. /\ \A f \in S : /\ f.inst = i /\ f.kind \in {"record", "file"}
                      /\ f.key \in Keys \cup {NoKey}
                      /\ f = [kind |-> f.kind, inst |-> f.inst, key |-> f.key]
      /\ \A f \in C : /\ f.inst = i /\ f.kind \in {"few", "many"}
                      /\ f.key \in Keys \cup {NoKey}
                      /\ f = [kind |-> f.kind, inst |-> f.inst, key |-> f.key]
      /\ IsFiniteSet(C)
  BY SchemaFindingsAre
<1>4. /\ Passed(i) \in Nat /\ Total(i) \in Nat /\ IsFiniteSet(S)
      /\ Total(i) - Passed(i) = Cardinality(S)
  BY CountedOnce
<1> HIDE DEF S, C
<1>5. IsFiniteSet(findings')
  BY <1>1, <1>3, <1>4, FS_Union
<1>6. /\ counts \in [Collections -> [passed : Nat, total : Nat]] /\ i.path \in Collections
  BY InstanceIs DEF TypeOK
<1>7. counts' \in [Collections -> [passed : Nat, total : Nat]]
  BY <1>2, <1>4, <1>6
<1>8. findings' \subseteq [kind : {"record", "file", "few", "many", "reference"},
                           inst : Instances, key : Keys \cup {NoKey}]
  BY <1>1, <1>3 DEF TypeOK
<1>9. ASSUME NEW p \in Collections
      PROVE  counts'[p].total - counts'[p].passed = Cardinality({f \in findings' : IsCounted(f, p)})
  <2> DEFINE K  == {f \in findings : IsCounted(f, p)}
             K1 == {f \in findings' : IsCounted(f, p)}
  <2>1. counts[p].total - counts[p].passed = Cardinality(K)
        /\ counts[p].total \in Nat /\ counts[p].passed \in Nat
    BY <1>6 DEF CountsMatchFindings, IsCounted
  <2>2. IsFiniteSet(K)
    BY FS_Subset
  <2>3. CASE p # i.path
    <3>1. K1 = K
      BY <1>1, <1>3, <2>3 DEF IsCounted
    <3>2. counts'[p] = counts[p]
      BY <1>2, <1>6, <2>3
    <3> QED BY <2>1, <3>1, <3>2
  <2>4. CASE p = i.path
    <3>1. K1 = K \cup S /\ K \cap S = {}
      BY <1>1, <1>3, <2>4 DEF IsCounted
    <3>2. /\ counts'[p].total = counts[p].total + Total(i)
          /\ counts'[p].passed = counts[p].passed + Passed(i)
      BY <1>2, <1>6, <2>4
    <3> HIDE DEF K, K1
    <3>3. Cardinality(K1) = Cardinality(K) + Cardinality(S)
      <4>1. IsFiniteSet(K) /\ IsFiniteSet(S)
        BY <1>4, <2>2
      <4>2. Cardinality(K \cup S) = Cardinality(K) + Cardinality(S) - Cardinality(K \cap S)
        BY <4>1, FS_Union
      <4>3. Cardinality(K) \in Nat /\ Cardinality(S) \in Nat
        BY <4>1, FS_CardinalityType
      <4>4. Cardinality(K \cap S) = 0
        BY <3>1, FS_EmptySet
      <4> QED BY <3>1, <4>2, <4>3, <4>4
    <3>4. counts'[p].total - counts'[p].passed = Cardinality(K1)
      BY <1>4, <2>1, <3>2, <3>3
    <3> QED BY <3>4 DEF K1
  <2> QED BY <2>3, <2>4
<1> QED
  BY <1>5, <1>7, <1>8, <1>9 DEF CountsMatchFindings, IsCounted
-----------------------------------------------------------------------------
(* Doing a task. *)

IsWork == work \in Seq(SUBSET AllTasks)

LEMMA DoingIs ==
  ASSUME IsWork, Apart, NEW step, NEW t \in Doing(step)
  PROVE  /\ work # <<>> /\ t \in Here /\ t \in Waiting /\ t \in AllTasks /\ t.step = step
         /\ t.inst \in Instances /\ t = [step |-> step, inst |-> t.inst]
<1>1. work # <<>> /\ t \in Here /\ t.step = step
  BY DEF Doing
<1>2. Here \in SUBSET AllTasks /\ Here \subseteq Waiting
  BY <1>1, Dropped DEF IsWork, Apart
<1>3. t \in AllTasks
  BY <1>1, <1>2
<1> QED
  BY <1>1, <1>2, <1>3, TasksAre DEF AllTasks

LEMMA Visited ==
  ASSUME IsWork, Apart, NEW t \in Doing("visit"), work' = Drop \o Frame(Here \ {t})
  PROVE  /\ IsWork' /\ Apart' /\ Waiting' = Waiting \ {t}
         /\ Awaits(t.inst) /\ \A j : Awaits(j)' <=> Awaits(j) /\ j # t.inst
<1>1. /\ work # <<>> /\ t \in Here /\ t \in Waiting /\ t.step = "visit"
      /\ t = [step |-> "visit", inst |-> t.inst]
  BY DoingIs
<1>2. IsWork' /\ Parts(work)' /\ Waiting' = Waiting \ {t}
  <2>1. /\ Drop \in Seq(SUBSET AllTasks) /\ Parts(Drop) /\ Here \ {t} \in SUBSET AllTasks
        /\ (Here \ {t}) \cap Held(Drop) = {}
        /\ Held(Drop) \cup (Here \ {t}) = Waiting \ {t}
    BY <1>1, Dropped DEF IsWork, Apart
  <2> DEFINE s == Drop \o Frame(Here \ {t})
  <2>2. s \in Seq(SUBSET AllTasks) /\ Parts(s) /\ Held(s) = Waiting \ {t}
    BY <2>1, Framed
  <2>3. work' = s
    OBVIOUS
  <2> HIDE DEF s
  <2> QED BY <2>2, <2>3 DEF IsWork, Waiting, Parts, Held
<1>3. Apart'
  BY <1>2 DEF Apart
<1>4. Reach(t) = {t} /\ t = Visit(t.inst)
  BY <1>1 DEF Reach, Visit
<1>5. \A j : Visit(j) \in Reach(t) <=> j = t.inst
  BY <1>4 DEF Visit
<1>6. \A u \in Waiting : u # t => t \notin Reach(u)
  BY <1>1, <1>4 DEF Apart
<1>7. Awaits(t.inst)
  BY <1>1, <1>5 DEF Awaits
<1>8. \A j : Awaits(j)' <=> Awaits(j) /\ j # t.inst
  BY <1>1, <1>2, <1>4, <1>5, <1>6 DEF Awaits
<1> QED
  BY <1>2, <1>3, <1>7, <1>8

LEMMA Expanded ==
  ASSUME IsWork, Apart, OnTheWay, NEW t \in Doing("expand"),
         work' = Drop \o Frame(Here \ {t}) \o Frame(Tasks(Steps, Children(t.inst))),
         UNCHANGED <<disk, edited>>
  PROVE  /\ IsWork' /\ Apart' /\ OnTheWay'
         /\ \A j \in Instances : Awaits(j)' => Awaits(j)
         /\ \A j \in Instances : Awaits(j) /\ OnPath(j) => Awaits(j)'
<1> DEFINE B == Tasks(Steps, Children(t.inst))
<1>1. /\ work # <<>> /\ t \in Here /\ t \in Waiting /\ t \in AllTasks /\ t.step = "expand"
      /\ t.inst \in Instances
  BY DoingIs
<1>2. /\ B \subseteq AllTasks
      /\ \A u \in B : u \in Reach(u) /\ Reach(u) \subseteq Reach(t) \ {t}
      /\ \A u, v \in B : u # v => Reach(u) \cap Reach(v) = {}
  BY <1>1, ReachUnfolds
<1>3. \A j \in Instances : OnPath(j) /\ Visit(j) \in Reach(t) =>
        \E u \in B : Visit(j) \in Reach(u)
  BY <1>1, StillAwaited
<1>4. \A u \in B : Still(u.inst) => Still(t.inst) /\ (OnPath(u.inst) <=> OnPath(t.inst))
  BY <1>1, TasksAre, RecordsAreChosen
<1> HIDE DEF B
<1>5. \A u \in Waiting : u \in Reach(u)
  BY DEF Reach
<1>6. B \cap Waiting = {}
  BY <1>1, <1>2, <1>5 DEF Apart
<1>7. IsWork' /\ Parts(work)' /\ Waiting' = (Waiting \ {t}) \cup B
  <2> DEFINE s == Drop \o Frame(Here \ {t}) \o Frame(B)
  <2>1. s \in Seq(SUBSET AllTasks) /\ Parts(s) /\ Held(s) = (Waiting \ {t}) \cup B
    BY <1>1, <1>2, <1>6, NextFrames DEF IsWork, Apart
  <2>2. work' = s
    BY DEF B
  <2> HIDE DEF s
  <2> QED BY <2>1, <2>2 DEF IsWork, Waiting, Parts, Held
<1>8. Apart'
  <2>1. \A u, v \in Waiting' : u # v => Reach(u) \cap Reach(v) = {}
    BY <1>1, <1>2, <1>7 DEF Apart
  <2> QED BY <1>7, <2>1 DEF Apart
<1>9. OnTheWay'
  <2>1. \A u \in Waiting' : Still(u.inst) => OnPath(u.inst)
    BY <1>1, <1>4, <1>7 DEF OnTheWay
  <2>2. \A u : (Still(u.inst)' <=> Still(u.inst)) /\ (OnPath(u.inst)' <=> OnPath(u.inst))
    BY DEF Still, OnPath, Loads, Layout, Present
  <2> QED BY <2>1, <2>2 DEF OnTheWay
<1>10. \A j \in Instances : Awaits(j)' => Awaits(j)
  BY <1>1, <1>2, <1>7 DEF Awaits
<1>11. \A j \in Instances : Awaits(j) /\ OnPath(j) => Awaits(j)'
  BY <1>3, <1>7 DEF Awaits
<1> QED
  BY <1>7, <1>8, <1>9, <1>10, <1>11

-----------------------------------------------------------------------------
(* What a step leaves as it is. *)

LEMMA SameFiles ==
  ASSUME UNCHANGED <<disk, edited>>, NEW i
  PROVE  /\ Still(i)' <=> Still(i)
         /\ OnPath(i)' <=> OnPath(i)
         /\ TargetStill(i)' <=> TargetStill(i)
         /\ Loads(i)' = Loads(i)
         /\ SchemaFindings(i)' = SchemaFindings(i)
         /\ CountFindings(i)' = CountFindings(i)
         /\ \A k : Dangling(i, k)' <=> Dangling(i, k)
BY DEF Still, OnPath, TargetStill, Loads, Layout, Present, SchemaFindings, Failing,
       CountFindings, Total, Dangling

LEMMA FindingIs ==
  ASSUME NEW kind, NEW i, NEW k
  PROVE  Finding(kind, i, k).kind = kind /\ Finding(kind, i, k).inst = i
BY DEF Finding

LEMMA StillJudged ==
  ASSUME UNCHANGED <<disk, edited>>, NEW i,
         \A f : f.inst = i /\ f.kind # "reference" => (f \in findings' <=> f \in findings)
  PROVE  Judged(i)' <=> Judged(i)
<1>1. \A kind \in {"record", "file", "few", "many"} : \A k :
        Finding(kind, i, k) \in findings' <=> Finding(kind, i, k) \in findings
  BY FindingIs
<1> QED
  BY <1>1, SameFiles DEF Judged

LEMMA StillReferred ==
  ASSUME UNCHANGED <<disk, edited>>, NEW i,
         \A f : f.inst = i /\ f.kind = "reference" => (f \in findings' <=> f \in findings)
  PROVE  Referred(i)' <=> Referred(i)
<1>1. \A k : Finding("reference", i, k) \in findings' <=> Finding("reference", i, k) \in findings
  BY FindingIs
<1> QED
  BY <1>1, SameFiles DEF Referred

\* Of an instance whose parent records do not all exist, nothing is to be found.
LEMMA NothingToFind ==
  ASSUME NEW i, ~OnPath(i)
  PROVE  /\ (\A f \in findings : f.inst = i => f.kind = "reference") => Judged(i)
         /\ (\A f \in findings : f.inst = i => f.kind # "reference") => Referred(i)
BY FindingIs DEF Judged, Referred

\* What the schema pass finds in an instance is what there is to find.
LEMMA NowJudged ==
  ASSUME UNCHANGED <<disk, edited>>, NEW i \in Instances, OnPath(i),
         \A f \in findings : f.inst = i => f.kind = "reference",
         findings' = findings \cup SchemaFindings(i) \cup CountFindings(i)
  PROVE  Judged(i)'
<1>1. \A kind \in {"record", "file", "few", "many"} : \A k :
        Finding(kind, i, k) \in findings'
          <=> Finding(kind, i, k) \in SchemaFindings(i) \cup CountFindings(i)
  BY FindingIs
<1>2. \A k : Finding("record", i, k) \notin CountFindings(i)
  BY FindingIs, SchemaFindingsAre
<1> QED
  BY <1>1, <1>2, SameFiles DEF Judged
\* With an exact index, what the foreign-key pass finds in an instance is what
\* there is to find.
LEMMA NowReferred ==
  ASSUME UNCHANGED <<disk, edited>>, NEW i \in Instances, OnPath(i),
         phase = "refs", Indexed, disk \in [Instances -> [Keys -> Cells] \cup {Broken}],
         \A f \in findings : f.inst = i => f.kind # "reference",
         findings' = findings \cup DanglingFindings(i)
  PROVE  Referred(i)'
<1>1. SUFFICES ASSUME NEW k \in Keys, <<i, k>> \notin edited, TargetStill(i)
               PROVE  Finding("reference", i, k) \in DanglingFindings(i) <=> Dangling(i, k)
  <2>1. \A k : Finding("reference", i, k) \in findings'
                 <=> Finding("reference", i, k) \in DanglingFindings(i)
    BY FindingIs
  <2> QED BY <1>1, <2>1, SameFiles DEF Referred
<1>2. \A l : Finding("reference", i, k) = Finding("reference", i, l) => k = l
  BY DEF Finding
<1>3. Finding("reference", i, k) \in DanglingFindings(i) <=>
        \E t \in Targets(i) : Refers(i, k, t) /\ disk[i][k].ref \notin index[t]
  BY <1>2 DEF DanglingFindings
<1>4. CASE ForeignKeys[i.path] = NoRef
  <2>1. Targets(i) = {}
    BY <1>4 DEF Targets
  <2> QED BY <1>3, <1>4, <2>1 DEF Dangling
<1>5. CASE ForeignKeys[i.path] # NoRef
  <2>1. Targets(i) = Meant(i)
    BY <1>5, TargetsAreMeant
  <2>2. ASSUME NEW t \in Meant(i), k \in Loads(i), disk[i][k].ref # NoRef
        PROVE  disk[i][k].ref \in index[t] <=> disk[i][k].ref \in Loads(RootInstance(t))
    <3>1. disk[i][k].ref \in Keys
      <4>1. disk[i] # Broken /\ disk[i][k] # NoRecord /\ disk[i][k] # Garbage
        BY <2>2 DEF Loads, Present
      <4>2. disk[i][k] \in Cells
        BY <4>1
      <4>3. disk[i][k] \in Records
        BY <4>1, <4>2 DEF Cells
      <4> QED BY <2>2, <4>3 DEF Records
    <3>2. t \in RootIds /\ <<RootInstance(t), disk[i][k].ref>> \notin edited
      BY <1>1, <3>1, MeantAreRoots DEF TargetStill
    <3> QED BY <3>1, <3>2 DEF Indexed, IsIndexed
  <2> QED BY <1>3, <1>5, <2>1, <2>2 DEF Dangling, Refers
<1> QED
  BY <1>4, <1>5

-----------------------------------------------------------------------------
(* The invariant holds. *)

LEMMA RootsStand ==
  \A i \in Instances : /\ Len(i.path) \in Nat \ {0}
                       /\ Len(i.path) = 1 => i = RootInstance(i.path[1]) /\ OnPath(i)
                       /\ Len(i.path) # 1 => i \in Below(RootInstance(i.path[1]))
<1> SUFFICES ASSUME NEW i \in Instances
             PROVE  /\ Len(i.path) \in Nat \ {0}
                    /\ Len(i.path) = 1 => i = RootInstance(i.path[1]) /\ OnPath(i)
                    /\ Len(i.path) # 1 => i \in Below(RootInstance(i.path[1]))
  OBVIOUS
<1>1. Len(i.path) \in Nat \ {0}
  BY InstanceIs
<1>2. i.path[1] \in RootIds /\ Ancestor(i, 1) = RootInstance(i.path[1])
  BY RootsAre
<1>3. Len(RootInstance(i.path[1]).path) = 1
  BY <1>2, RootsAre
<1>4. ASSUME Len(i.path) = 1
      PROVE  i = RootInstance(i.path[1]) /\ OnPath(i)
  <2>1. 1 \in 1..Len(i.path) /\ 1 = Len(i.path)
    BY <1>4
  <2>2. Ancestor(i, 1) = i
    BY <2>1, AncestorIs
  <2> QED BY <1>2, <1>4, <2>2 DEF OnPath
<1>5. ASSUME Len(i.path) # 1
      PROVE  i \in Below(RootInstance(i.path[1]))
  <2> DEFINE r == RootInstance(i.path[1])
  <2>1. Len(r.path) = 1 /\ 1 < Len(i.path) /\ Ancestor(i, 1) = r
    <3> DEFINE n == Len(i.path)
    <3>1. n \in Nat \ {0} /\ n # 1
      BY <1>1, <1>5
    <3> HIDE DEF n
    <3>2. 1 < n
      BY <3>1
    <3> QED BY <1>2, <1>3, <3>2 DEF n
  <2> HIDE DEF r
  <2>2. Ancestor(i, Len(r.path)) = r /\ Len(r.path) < Len(i.path)
    BY <2>1
  <2>3. i \in Below(r)
    BY <2>2 DEF Below
  <2> QED BY <2>3 DEF r
<1> QED
  BY <1>1, <1>4, <1>5

\* The roots are the first tasks of both walks, and everything is below them.
LEMMA WalkBegins ==
  ASSUME NEW steps \in SUBSET Steps, "expand" \in steps,
         work' = Frame(RootTasks(steps)), UNCHANGED <<disk, edited>>
  PROVE  /\ IsWork' /\ Apart' /\ OnTheWay'
         /\ \A j \in Instances : Awaits(j)' <=> Len(j.path) # 1 \/ "visit" \in steps
<1> DEFINE A == RootTasks(steps)
<1>1. ASSUME NEW t \in A
      PROVE  /\ t = [step |-> t.step, inst |-> t.inst] /\ t.step \in steps /\ t.step \in Steps
             /\ t.inst \in Instances /\ Len(t.inst.path) = 1 /\ OnPath(t.inst)
  <2>1. \E r \in RootIds : t \in Tasks(steps, {RootInstance(r)})
    <3>1. t.inst \in {RootInstance(r) : r \in RootIds} /\ t.step \in steps
          /\ t = [step |-> t.step, inst |-> t.inst]
      BY TasksAre DEF RootTasks
    <3> QED BY <3>1, TasksAre
  <2>2. PICK r \in RootIds : t.inst = RootInstance(r) /\ t.step \in steps
                             /\ t = [step |-> t.step, inst |-> t.inst]
    BY <2>1, TasksAre
  <2>3. t.inst \in Instances /\ Len(t.inst.path) = 1
    BY <2>2, RootsAre
  <2> QED BY <2>2, <2>3, RootsStand
<1>2. \A r \in RootIds, step \in steps : [step |-> step, inst |-> RootInstance(r)] \in A
  BY TasksAre DEF RootTasks
<1> HIDE DEF A
<1>3. A \in SUBSET AllTasks
  BY <1>1, TasksAre DEF AllTasks
<1>4. IsWork' /\ Parts(work)' /\ Waiting' = A
  <2> DEFINE s == Frame(A)
  <2>1. s \in Seq(SUBSET AllTasks) /\ Parts(s) /\ Held(s) = A
    BY <1>3, OneFrame
  <2>2. work' = s
    BY DEF A
  <2> HIDE DEF s
  <2> QED BY <2>1, <2>2 DEF IsWork, Waiting, Parts, Held
<1>5. ASSUME NEW t \in A, NEW w \in Reach(t)
      PROVE  /\ w = t \/ (w.inst \in Instances /\ 1 < Len(w.inst.path) /\ t.step = "expand")
             /\ Ancestor(w.inst, 1) = t.inst
  <2>1. CASE w = t
    <3> DEFINE n == Len(t.inst.path)
    <3>1. t.inst \in Instances /\ 1 \in 1..n /\ 1 = n
      <4>1. t.inst \in Instances /\ n = 1
        BY <1>1
      <4> HIDE DEF n
      <4> QED BY <4>1
    <3>2. Ancestor(t.inst, 1) = t.inst
      BY <3>1, AncestorIs
    <3> QED BY <2>1, <3>2
  <2>2. CASE w # t
    <3>1. t.step = "expand" /\ w.inst \in Below(t.inst)
      BY <2>2, TasksAre DEF Reach
    <3> QED BY <1>1, <3>1 DEF Below
  <2> QED BY <2>1, <2>2
<1>6. Apart'
  <2>1. ASSUME NEW t \in A, NEW u \in A, t # u
        PROVE  Reach(t) \cap Reach(u) = {}
    <3> SUFFICES ASSUME NEW w \in Reach(t), w \in Reach(u)
                 PROVE  FALSE
      OBVIOUS
    <3>1. t.inst = u.inst /\ t.step # u.step
      BY <1>1, <1>5, <2>1
    <3>2. /\ w = t \/ (1 < Len(w.inst.path) /\ t.step = "expand")
          /\ w = u \/ (1 < Len(w.inst.path) /\ u.step = "expand")
      BY <1>5
    <3>3. Len(t.inst.path) = 1 /\ Len(u.inst.path) = 1
      BY <1>1
    <3>4. w = t \/ w = u
      BY <3>1, <3>2
    <3>5. ~(1 < Len(w.inst.path))
      <4> DEFINE n == Len(w.inst.path)
      <4>1. n = 1
        BY <3>3, <3>4
      <4> HIDE DEF n
      <4>2. ~(1 < n)
        BY <4>1
      <4> QED BY <4>2 DEF n
    <3> QED BY <2>1, <3>2, <3>5
  <2> QED BY <1>4, <2>1 DEF Apart
<1>7. OnTheWay'
  <2>1. \A t \in Waiting' : OnPath(t.inst)'
    BY <1>1, <1>4, SameFiles
  <2> QED BY <2>1 DEF OnTheWay
<1>8. ASSUME NEW j \in Instances
      PROVE  Awaits(j)' <=> Len(j.path) # 1 \/ "visit" \in steps
  <2> DEFINE r == j.path[1]
  <2>1. /\ r \in RootIds /\ Len(j.path) \in Nat \ {0}
        /\ Len(j.path) = 1 => j = RootInstance(r)
        /\ Len(j.path) # 1 => j \in Below(RootInstance(r))
    BY RootsAre, RootsStand
  <2> HIDE DEF r
  <2>2. ASSUME Len(j.path) # 1
        PROVE  Awaits(j)'
    <3> DEFINE t == [step |-> "expand", inst |-> RootInstance(r)]
    <3>1. t \in A
      BY <1>2, <2>1
    <3>2. Visit(j) \in Reach(t)
      BY <2>1, <2>2, TasksAre DEF Reach, Visit, Steps
    <3> QED BY <1>4, <3>1, <3>2 DEF Awaits
  <2>3. ASSUME Len(j.path) = 1, "visit" \in steps
        PROVE  Awaits(j)'
    <3>1. Visit(j) \in A
      BY <1>2, <2>1, <2>3 DEF Visit
    <3>2. Visit(j) \in Reach(Visit(j))
      BY DEF Reach
    <3> QED BY <1>4, <3>1, <3>2 DEF Awaits
  <2>4. ASSUME Awaits(j)', Len(j.path) = 1
        PROVE  "visit" \in steps
    <3>1. PICK t \in A : Visit(j) \in Reach(t)
      BY <1>4, <2>4 DEF Awaits
    <3>2. Visit(j) = t
      <4>1. Visit(j) = t \/ 1 < Len(Visit(j).inst.path)
        BY <1>5, <3>1
      <4>2. Visit(j).inst = j
        BY DEF Visit
      <4>3. ~(1 < Len(j.path))
        <5> DEFINE n == Len(j.path)
        <5>1. n = 1
          BY <2>4
        <5> HIDE DEF n
        <5>2. ~(1 < n)
          BY <5>1
        <5> QED BY <5>2 DEF n
      <4> QED BY <4>1, <4>2, <4>3
    <3> QED BY <1>1, <3>2 DEF Visit
  <2> QED BY <2>2, <2>3, <2>4
<1> QED
  BY <1>4, <1>6, <1>7, <1>8
LEMMA Initially ==
  ASSUME Init
  PROVE  IInv
<1>1. TypeOK
  <2>1. disk \in [Instances -> [Keys -> Cells] \cup {Broken}]
    BY CaseAssumption DEF Init
  <2>2. counts \in [Collections -> [passed : Nat, total : Nat]]
    BY DEF Init
  <2>3. work \in Seq(SUBSET Tasks({"visit", "expand"}, Instances))
    BY DEF Init
  <2> QED BY <2>1, <2>2, <2>3 DEF Init, TypeOK
<1>2. findings = {} /\ phase = "schema" /\ work = <<>> /\ IsFiniteSet(findings)
  BY FS_EmptySet DEF Init
<1>3. CountsMatchFindings
  <2> SUFFICES ASSUME NEW p \in Collections
               PROVE  counts[p].total - counts[p].passed = Cardinality(
                        {f \in findings : f.inst.path = p /\ f.kind \in {"record", "file"}})
    BY DEF CountsMatchFindings
  <2>1. counts[p].total - counts[p].passed = 0
    BY DEF Init
  <2>2. {f \in findings : f.inst.path = p /\ f.kind \in {"record", "file"}} = {}
    BY <1>2
  <2> QED BY <2>1, <2>2, FS_EmptySet
<1>4. Waiting = {}
  BY <1>2 DEF Waiting, Held
<1>5. Resting /\ Apart /\ OnTheWay
  BY <1>2, <1>4 DEF Resting, Apart, OnTheWay, Parts
<1>6. Judgements
  <2>1. \A i \in Instances : Unjudged(i)
    <3>1. \A i \in Instances : i.path[1] \in todo
      BY RootsAre DEF Init
    <3> QED BY <1>2, <3>1 DEF Unjudged
  <2> QED BY <1>2, <2>1 DEF Judgements
<1>7. Indexed /\ References
  BY <1>2 DEF Indexed, IsIndexed, References, Unreferred
<1> QED
  BY <1>1, <1>2, <1>3, <1>5, <1>6, <1>7 DEF IInv

\* The frame of most steps: when the files stay, an instance's judgement stands
\* unless something is found in it.
LEMMA Elsewhere ==
  ASSUME UNCHANGED <<disk, edited>>, Judgements, NEW j \in Instances,
         ~Unjudged(j),
         \A f : f.inst = j /\ f.kind # "reference" => (f \in findings' <=> f \in findings)
  PROVE  Still(j)' => Judged(j)'
<1>1. Judged(j)' <=> Judged(j)
  BY StillJudged
<1>2. Still(j)' <=> Still(j)
  BY SameFiles
<1> QED
  BY <1>1, <1>2 DEF Judgements

LEMMA ReferredElsewhere ==
  ASSUME UNCHANGED <<disk, edited>>, References, NEW j \in Instances,
         ~Unreferred(j),
         \A f : f.inst = j /\ f.kind = "reference" => (f \in findings' <=> f \in findings)
  PROVE  Still(j)' => Referred(j)'
<1>1. Referred(j)' <=> Referred(j)
  BY StillReferred
<1>2. Still(j)' <=> Still(j)
  BY SameFiles
<1> QED
  BY <1>1, <1>2 DEF References

LEMMA KeepIndexed ==
  ASSUME UNCHANGED <<disk, edited, index>>, Indexed,
         \A r \in RootIds : IsIndexed(r)' => IsIndexed(r)
  PROVE  Indexed'
<1>1. \A r : Loads(RootInstance(r))' = Loads(RootInstance(r))
  BY SameFiles
<1> QED
  BY <1>1 DEF Indexed

LEMMA KeepWork ==
  ASSUME UNCHANGED <<disk, edited, work>>, Apart, OnTheWay
  PROVE  Apart' /\ OnTheWay' /\ \A j : Awaits(j)' <=> Awaits(j)
<1>1. Waiting' = Waiting
  BY DEF Waiting, Held
<1>2. Apart'
  BY <1>1 DEF Apart, Parts
<1>3. \A t : (Still(t.inst)' <=> Still(t.inst)) /\ (OnPath(t.inst)' <=> OnPath(t.inst))
  BY SameFiles
<1> QED
  BY <1>1, <1>2, <1>3 DEF OnTheWay, Awaits

LEMMA KeepCounts ==
  ASSUME UNCHANGED counts, CountsMatchFindings, IsFiniteSet(findings),
         NEW S, IsFiniteSet(S), \A f \in S : f.kind = "reference", findings' = findings \cup S
  PROVE  CountsMatchFindings' /\ IsFiniteSet(findings')
<1>1. \A p : {f \in findings' : f.inst.path = p /\ f.kind \in {"record", "file"}}
               = {f \in findings : f.inst.path = p /\ f.kind \in {"record", "file"}}
  OBVIOUS
<1>2. IsFiniteSet(findings')
  BY FS_Union
<1> QED
  BY <1>1, <1>2 DEF CountsMatchFindings

LEMMA RootStep ==
  ASSUME IInv, ValidateRoot
  PROVE  IInv'
<1>1. PICK r \in todo : Validate(RootInstance(r)) /\ todo' = todo \ {r}
  BY DEF ValidateRoot
<1>2. /\ phase = "schema" /\ phase' = phase /\ work' = work /\ index' = index
      /\ disk' = disk /\ edited' = edited
  BY DEF ValidateRoot, Files
<1> DEFINE i == RootInstance(r)
<1>3. /\ r \in RootIds /\ i \in Instances /\ Len(i.path) = 1 /\ i.path[1] = r
      /\ OnPath(i)
  <2>1. /\ r \in RootIds /\ i \in Instances /\ Len(i.path) = 1 /\ i.path[1] = r
    BY RootsAre DEF IInv, TypeOK
  <2> QED BY <2>1, RootsStand
<1>4. Validate(i)
  BY <1>1
<1> HIDE DEF i
<1>5. Unjudged(i) /\ \A f \in findings : f.inst = i => f.kind = "reference"
  BY <1>2, <1>3 DEF Unjudged, IInv, Judgements
<1>6. /\ CountsMatchFindings' /\ IsFiniteSet(findings')
      /\ counts' \in [Collections -> [passed : Nat, total : Nat]]
      /\ findings' \subseteq [kind : {"record", "file", "few", "many", "reference"},
                              inst : Instances, key : Keys \cup {NoKey}]
  BY <1>3, <1>4, <1>5, ValidateStep DEF IInv
<1>7. TypeOK'
  BY <1>1, <1>2, <1>6 DEF IInv, TypeOK
<1>8. Resting' /\ Apart' /\ OnTheWay'
  BY <1>2, KeepWork DEF IInv, Resting
<1>9. findings' = findings \cup SchemaFindings(i) \cup CountFindings(i)
  BY <1>4 DEF Validate
<1>10. \A f : f \in findings' => f \in findings \/ (f.inst = i /\ f.kind # "reference")
  BY <1>3, <1>9, SchemaFindingsAre
<1>11. Judgements'
  <2> SUFFICES ASSUME NEW j \in Instances
               PROVE  /\ Unjudged(j)' => \A f \in findings' : f.inst = j => f.kind = "reference"
                      /\ ~Unjudged(j)' /\ Still(j)' => Judged(j)'
    BY DEF Judgements
  <2>1. CASE j = i
    <3>1. ~Unjudged(j)'
      <4> DEFINE n == Len(j.path)
      <4>1. n = 1 /\ j.path[1] = r
        BY <1>3, <2>1
      <4> HIDE DEF n
      <4>2. ~(n > 1)
        BY <4>1
      <4> QED BY <1>1, <1>2, <4>1, <4>2 DEF n, Unjudged
    <3>2. Judged(i)'
      BY <1>2, <1>3, <1>5, <1>9, NowJudged
    <3> QED BY <2>1, <3>1, <3>2
  <2>2. CASE j # i
    <3>1. Unjudged(j)' <=> Unjudged(j)
      <4>1. Len(j.path) = 1 /\ j.path[1] = r => j = i
        BY RootsStand DEF i
      <4>2. Len(j.path) \in Nat \ {0}
        BY RootsStand
      <4> DEFINE n == Len(j.path)
      <4>3. n # 1 <=> n > 1
        <5>1. n \in Nat \ {0}
          BY <4>2
        <5> HIDE DEF n
        <5> QED BY <5>1
      <4> QED BY <1>1, <1>2, <2>2, <4>1, <4>3 DEF Unjudged
    <3>2. \A f : f.inst = j => (f \in findings' <=> f \in findings)
      BY <1>9, <1>10, <2>2
    <3>3. CASE Unjudged(j)
      BY <3>1, <3>2, <3>3 DEF IInv, Judgements
    <3>4. CASE ~Unjudged(j)
      BY <1>2, <3>1, <3>2, <3>4, Elsewhere DEF IInv
    <3> QED BY <3>3, <3>4
  <2> QED BY <2>1, <2>2
<1>12. Indexed'
  BY <1>2 DEF Indexed, IsIndexed
<1>13. References'
  <2>1. \A j : Unreferred(j) /\ Unreferred(j)'
    BY <1>2 DEF Unreferred
  <2> QED BY <1>10, <2>1 DEF References, IInv
<1> QED
  BY <1>6, <1>7, <1>8, <1>11, <1>12, <1>13 DEF IInv

LEMMA WalkStep ==
  ASSUME IInv, StartWalk
  PROVE  IInv'
<1>1. /\ phase = "schema" /\ todo = {} /\ phase' = "walk"
      /\ work' = Frame(RootTasks({"expand"}))
      /\ UNCHANGED <<disk, edits, edited, todo, counts, findings, index>>
  BY DEF StartWalk, Files
<1>2. {"expand"} \in SUBSET Steps /\ "expand" \in {"expand"} /\ "visit" \notin {"expand"}
  BY DEF Steps
<1>3. /\ IsWork' /\ Apart' /\ OnTheWay'
      /\ \A j \in Instances : Awaits(j)' <=> Len(j.path) # 1
  BY <1>1, <1>2, WalkBegins
<1>4. TypeOK'
  BY <1>1, <1>3 DEF IInv, TypeOK, IsWork, AllTasks, Steps
<1>5. CountsMatchFindings' /\ IsFiniteSet(findings') /\ Resting'
  BY <1>1 DEF IInv, CountsMatchFindings, Resting
<1>6. Judgements'
  <2> SUFFICES ASSUME NEW j \in Instances
               PROVE  /\ Unjudged(j)' => \A f \in findings' : f.inst = j => f.kind = "reference"
                      /\ ~Unjudged(j)' /\ Still(j)' => Judged(j)'
    BY DEF Judgements
  <2> DEFINE n == Len(j.path)
  <2>1. n # 1 <=> n > 1
    <3>1. n \in Nat \ {0}
      BY RootsStand
    <3> HIDE DEF n
    <3> QED BY <3>1
  <2>2. Unjudged(j)' <=> Unjudged(j)
    BY <1>1, <1>3, <2>1 DEF Unjudged
  <2>3. CASE Unjudged(j)
    BY <1>1, <2>2, <2>3 DEF IInv, Judgements
  <2>4. CASE ~Unjudged(j)
    BY <1>1, <2>2, <2>4, Elsewhere DEF IInv
  <2> QED BY <2>3, <2>4
<1>7. Indexed'
  BY <1>1 DEF Indexed, IsIndexed
<1>8. References'
  <2>1. \A j : Unreferred(j) /\ Unreferred(j)'
    BY <1>1 DEF Unreferred
  <2> QED BY <1>1, <2>1 DEF References, IInv
<1> QED
  BY <1>3, <1>4, <1>5, <1>6, <1>7, <1>8 DEF IInv
LEMMA ExpandStep ==
  ASSUME IInv, ExpandInstance
  PROVE  IInv'
<1>1. PICK t \in Doing("expand") :
        /\ work' = Drop \o Frame(Here \ {t}) \o Frame(Tasks({"visit", "expand"}, Children(t.inst)))
        /\ UNCHANGED <<Files, phase, todo, counts, findings, index>>
  BY DEF ExpandInstance
<1>2. UNCHANGED <<disk, edits, edited, phase, todo, counts, findings, index>>
  BY <1>1 DEF Files
<1>3. IsWork
  BY DEF IInv, TypeOK, IsWork, AllTasks, Steps
<1>4. phase \in {"walk", "refs"}
  BY <1>1, <1>3, DoingIs DEF IInv, Resting
<1>5. /\ IsWork' /\ Apart' /\ OnTheWay'
      /\ \A j \in Instances : Awaits(j)' => Awaits(j)
      /\ \A j \in Instances : Awaits(j) /\ OnPath(j) => Awaits(j)'
  BY <1>1, <1>2, <1>3, Expanded DEF IInv, Steps
<1>6. TypeOK'
  BY <1>2, <1>5 DEF IInv, TypeOK, IsWork, AllTasks, Steps
<1>7. CountsMatchFindings' /\ IsFiniteSet(findings') /\ Resting'
  BY <1>2, <1>4 DEF IInv, CountsMatchFindings, Resting
<1>8. Judgements'
  <2> SUFFICES ASSUME NEW j \in Instances
               PROVE  /\ Unjudged(j)' => \A f \in findings' : f.inst = j => f.kind = "reference"
                      /\ ~Unjudged(j)' /\ Still(j)' => Judged(j)'
    BY DEF Judgements
  <2>1. Unjudged(j)' => Unjudged(j)
    BY <1>2, <1>4, <1>5 DEF Unjudged
  <2>2. CASE ~Unjudged(j)
    BY <1>2, <2>1, <2>2, Elsewhere DEF IInv
  <2>3. CASE Unjudged(j)
    <3>1. \A f \in findings : f.inst = j => f.kind = "reference"
      BY <2>3 DEF IInv, Judgements
    <3>2. ~Unjudged(j)' => ~OnPath(j)
      BY <1>2, <1>4, <1>5, <2>3 DEF Unjudged
    <3>3. ~Unjudged(j)' => Judged(j)
      BY <3>1, <3>2, NothingToFind
    <3>4. Judged(j)' <=> Judged(j)
      BY <1>2, StillJudged
    <3> QED BY <1>2, <3>1, <3>3, <3>4
  <2> QED BY <2>2, <2>3
<1>9. Indexed'
  BY <1>2, KeepIndexed DEF IInv, IsIndexed
<1>10. References'
  <2> SUFFICES ASSUME NEW j \in Instances
               PROVE  /\ Unreferred(j)' => \A f \in findings' : f.inst = j => f.kind # "reference"
                      /\ ~Unreferred(j)' /\ Still(j)' => Referred(j)'
    BY DEF References
  <2>1. Unreferred(j)' => Unreferred(j)
    BY <1>2, <1>4, <1>5 DEF Unreferred
  <2>2. CASE ~Unreferred(j)
    BY <1>2, <2>1, <2>2, ReferredElsewhere DEF IInv
  <2>3. CASE Unreferred(j)
    <3>1. \A f \in findings : f.inst = j => f.kind # "reference"
      BY <2>3 DEF IInv, References
    <3>2. ~Unreferred(j)' => ~OnPath(j)
      BY <1>2, <1>4, <1>5, <2>3 DEF Unreferred
    <3>3. ~Unreferred(j)' => Referred(j)
      BY <3>1, <3>2, NothingToFind
    <3>4. Referred(j)' <=> Referred(j)
      BY <1>2, StillReferred
    <3> QED BY <1>2, <3>1, <3>3, <3>4
  <2> QED BY <2>2, <2>3
<1> QED
  BY <1>5, <1>6, <1>7, <1>8, <1>9, <1>10 DEF IInv

LEMMA InstanceStep ==
  ASSUME IInv, ValidateInstance
  PROVE  IInv'
<1>1. PICK t \in Doing("visit") : Validate(t.inst) /\ work' = Drop \o Frame(Here \ {t})
  BY DEF ValidateInstance
<1>2. phase = "walk" /\ UNCHANGED <<disk, edits, edited, phase, todo, index>>
  BY DEF ValidateInstance, Files
<1>3. IsWork
  BY DEF IInv, TypeOK, IsWork, AllTasks, Steps
<1>4. t \in Waiting /\ t.inst \in Instances
  BY <1>1, <1>3, DoingIs DEF IInv
<1>5. /\ IsWork' /\ Apart' /\ Waiting' = Waiting \ {t}
      /\ Awaits(t.inst) /\ \A j : Awaits(j)' <=> Awaits(j) /\ j # t.inst
  BY <1>1, <1>3, Visited DEF IInv
<1> DEFINE i == t.inst
<1>6. Unjudged(i) /\ \A f \in findings : f.inst = i => f.kind = "reference"
  BY <1>2, <1>4, <1>5 DEF Unjudged, IInv, Judgements
<1>7. /\ i \in Instances /\ Validate(i) /\ (Still(i) => OnPath(i))
      /\ \A j : Awaits(j)' <=> Awaits(j) /\ j # i
  BY <1>1, <1>4, <1>5 DEF IInv, OnTheWay
<1> HIDE DEF i
<1>8. /\ CountsMatchFindings' /\ IsFiniteSet(findings')
      /\ counts' \in [Collections -> [passed : Nat, total : Nat]]
      /\ findings' \subseteq [kind : {"record", "file", "few", "many", "reference"},
                              inst : Instances, key : Keys \cup {NoKey}]
  BY <1>6, <1>7, ValidateStep DEF IInv
<1>9. TypeOK'
  BY <1>2, <1>5, <1>8 DEF IInv, TypeOK, IsWork, AllTasks, Steps
<1>10. Resting' /\ OnTheWay'
  <2>1. \A u : (Still(u.inst)' <=> Still(u.inst)) /\ (OnPath(u.inst)' <=> OnPath(u.inst))
    BY <1>2, SameFiles
  <2> QED BY <1>2, <1>5, <2>1 DEF IInv, Resting, OnTheWay
<1>11. findings' = findings \cup SchemaFindings(i) \cup CountFindings(i)
  BY <1>7 DEF Validate
<1>12. \A f : f \in findings' => f \in findings \/ (f.inst = i /\ f.kind # "reference")
  BY <1>7, <1>11, SchemaFindingsAre
<1>13. Judgements'
  <2> SUFFICES ASSUME NEW j \in Instances
               PROVE  /\ Unjudged(j)' => \A f \in findings' : f.inst = j => f.kind = "reference"
                      /\ ~Unjudged(j)' /\ Still(j)' => Judged(j)'
    BY DEF Judgements
  <2>1. CASE j = i
    <3>1. ~Unjudged(j)'
      BY <1>2, <1>7, <2>1 DEF Unjudged
    <3>2. Still(i)' => Judged(i)'
      BY <1>2, <1>6, <1>7, <1>11, NowJudged, SameFiles
    <3> QED BY <2>1, <3>1, <3>2
  <2>2. CASE j # i
    <3>1. Unjudged(j)' <=> Unjudged(j)
      BY <1>2, <1>7, <2>2 DEF Unjudged
    <3>2. \A f : f.inst = j => (f \in findings' <=> f \in findings)
      BY <1>11, <1>12, <2>2
    <3>3. CASE Unjudged(j)
      BY <3>1, <3>2, <3>3 DEF IInv, Judgements
    <3>4. CASE ~Unjudged(j)
      BY <1>2, <3>1, <3>2, <3>4, Elsewhere DEF IInv
    <3> QED BY <3>3, <3>4
  <2> QED BY <2>1, <2>2
<1>14. Indexed'
  BY <1>2 DEF Indexed, IsIndexed
<1>15. References'
  <2>1. \A j : Unreferred(j) /\ Unreferred(j)'
    BY <1>2 DEF Unreferred
  <2> QED BY <1>12, <2>1 DEF References, IInv
<1> QED
  BY <1>5, <1>8, <1>9, <1>10, <1>13, <1>14, <1>15 DEF IInv

LEMMA NothingAwaits ==
  ASSUME work = <<>>
  PROVE  \A j : ~Awaits(j)
BY DEF Awaits, Waiting, Held

LEMMA IndexBegins ==
  ASSUME IInv, StartIndex
  PROVE  IInv'
<1>1. /\ phase = "walk" /\ work = <<>> /\ phase' = "index" /\ todo' = RootIds
      /\ UNCHANGED <<disk, edits, edited, work, counts, findings, index>>
  BY DEF StartIndex, Files
<1>2. TypeOK' /\ CountsMatchFindings' /\ IsFiniteSet(findings') /\ Resting'
  BY <1>1 DEF IInv, TypeOK, CountsMatchFindings, Resting
<1>3. Apart' /\ OnTheWay'
  BY <1>1, KeepWork DEF IInv
<1>4. Judgements'
  <2>1. \A j : ~Unjudged(j) /\ ~Unjudged(j)'
    BY <1>1, NothingAwaits DEF Unjudged
  <2> QED BY <1>1, <2>1, Elsewhere DEF Judgements, IInv
<1>5. Indexed'
  BY <1>1 DEF Indexed, IsIndexed
<1>6. References'
  <2>1. \A j : Unreferred(j) /\ Unreferred(j)'
    BY <1>1 DEF Unreferred
  <2> QED BY <1>1, <2>1 DEF References, IInv
<1> QED
  BY <1>2, <1>3, <1>4, <1>5, <1>6 DEF IInv

LEMMA IndexStep ==
  ASSUME IInv, IndexRoot
  PROVE  IInv'
<1>1. PICK r \in todo : /\ index' = [index EXCEPT ![r] = Loads(RootInstance(r))]
                        /\ todo' = todo \ {r}
  BY DEF IndexRoot
<1>2. phase = "index" /\ UNCHANGED <<disk, edits, edited, phase, work, counts, findings>>
  BY DEF IndexRoot, Files
<1>3. index \in [RootIds -> SUBSET Keys] /\ r \in RootIds /\ Loads(RootInstance(r)) \subseteq Keys
  BY LoadsAreKeys DEF IInv, TypeOK
<1>4. TypeOK' /\ CountsMatchFindings' /\ IsFiniteSet(findings') /\ Resting'
  <2>1. index' \in [RootIds -> SUBSET Keys] /\ todo' \subseteq RootIds
    BY <1>1, <1>3 DEF IInv, TypeOK
  <2> QED BY <1>2, <2>1 DEF IInv, TypeOK, CountsMatchFindings, Resting
<1>5. Apart' /\ OnTheWay'
  BY <1>2, KeepWork DEF IInv
<1>6. Judgements'
  <2>1. \A j : ~Unjudged(j) /\ ~Unjudged(j)'
    BY <1>2 DEF Unjudged
  <2> QED BY <1>2, <2>1, Elsewhere DEF Judgements, IInv
<1>7. Indexed'
  <2>1. \A s \in RootIds : index'[s] = IF s = r THEN Loads(RootInstance(r)) ELSE index[s]
    BY <1>1, <1>3
  <2>2. \A s : Loads(RootInstance(s))' = Loads(RootInstance(s))
    BY <1>2, SameFiles
  <2>3. \A s \in RootIds : IsIndexed(s)' => s = r \/ IsIndexed(s)
    BY <1>1, <1>2 DEF IsIndexed
  <2> QED BY <1>2, <2>1, <2>2, <2>3 DEF Indexed, IInv
<1>8. References'
  <2>1. \A j : Unreferred(j) /\ Unreferred(j)'
    BY <1>2 DEF Unreferred
  <2> QED BY <1>2, <2>1 DEF References, IInv
<1> QED
  BY <1>4, <1>5, <1>6, <1>7, <1>8 DEF IInv
LEMMA ReferencesBegin ==
  ASSUME IInv, StartReferences
  PROVE  IInv'
<1>1. /\ phase = "index" /\ todo = {} /\ phase' = "refs"
      /\ work' = Frame(RootTasks({"visit", "expand"}))
      /\ UNCHANGED <<disk, edits, edited, todo, counts, findings, index>>
  BY DEF StartReferences, Files
<1>2. /\ IsWork' /\ Apart' /\ OnTheWay'
      /\ \A j \in Instances : Awaits(j)'
  BY <1>1, WalkBegins DEF Steps
<1>3. TypeOK'
  BY <1>1, <1>2 DEF IInv, TypeOK, IsWork, AllTasks, Steps
<1>4. CountsMatchFindings' /\ IsFiniteSet(findings') /\ Resting'
  BY <1>1 DEF IInv, CountsMatchFindings, Resting
<1>5. Judgements'
  <2>1. \A j : ~Unjudged(j) /\ ~Unjudged(j)'
    BY <1>1 DEF Unjudged
  <2> QED BY <1>1, <2>1, Elsewhere DEF Judgements, IInv
<1>6. Indexed'
  BY <1>1, KeepIndexed DEF IInv, IsIndexed
<1>7. References'
  <2>1. \A j \in Instances : Unreferred(j) /\ Unreferred(j)'
    BY <1>1, <1>2 DEF Unreferred
  <2> QED BY <1>1, <2>1 DEF References, IInv
<1> QED
  BY <1>2, <1>3, <1>4, <1>5, <1>6, <1>7 DEF IInv

LEMMA ReferenceStep ==
  ASSUME IInv, CheckReferences
  PROVE  IInv'
<1>1. PICK t \in Doing("visit") : /\ findings' = findings \cup DanglingFindings(t.inst)
                                  /\ work' = Drop \o Frame(Here \ {t})
  BY DEF CheckReferences
<1>2. phase = "refs" /\ UNCHANGED <<disk, edits, edited, phase, todo, counts, index>>
  BY DEF CheckReferences, Files
<1>3. IsWork
  BY DEF IInv, TypeOK, IsWork, AllTasks, Steps
<1>4. t \in Waiting /\ t.inst \in Instances
  BY <1>1, <1>3, DoingIs DEF IInv
<1>5. /\ IsWork' /\ Apart' /\ Waiting' = Waiting \ {t}
      /\ Awaits(t.inst) /\ \A j : Awaits(j)' <=> Awaits(j) /\ j # t.inst
  BY <1>1, <1>3, Visited DEF IInv
<1> DEFINE i == t.inst
           S == DanglingFindings(i)
<1>6. \A f \in findings : f.inst = i => f.kind # "reference"
  BY <1>2, <1>4, <1>5 DEF Unreferred, IInv, References
<1>7. /\ i \in Instances /\ findings' = findings \cup S /\ (Still(i) => OnPath(i))
      /\ \A j : Awaits(j)' <=> Awaits(j) /\ j # i
  BY <1>1, <1>4, <1>5 DEF IInv, OnTheWay
<1>8. /\ IsFiniteSet(S)
      /\ \A f \in S : /\ f.inst = i /\ f.kind = "reference" /\ f.key \in Keys \cup {NoKey}
                      /\ f = [kind |-> f.kind, inst |-> f.inst, key |-> f.key]
  BY <1>4, SchemaFindingsAre
<1>9. Still(i)' => Referred(i)'
  BY <1>2, <1>6, <1>7, NowReferred, SameFiles DEF IInv, TypeOK
<1> HIDE DEF i, S
<1>10. CountsMatchFindings' /\ IsFiniteSet(findings')
  BY <1>2, <1>7, <1>8, KeepCounts DEF IInv
<1>11. findings' \subseteq [kind : {"record", "file", "few", "many", "reference"},
                            inst : Instances, key : Keys \cup {NoKey}]
  BY <1>7, <1>8 DEF IInv, TypeOK
<1>12. TypeOK'
  BY <1>2, <1>5, <1>11 DEF IInv, TypeOK, IsWork, AllTasks, Steps
<1>13. Resting' /\ OnTheWay'
  <2>1. \A u : (Still(u.inst)' <=> Still(u.inst)) /\ (OnPath(u.inst)' <=> OnPath(u.inst))
    BY <1>2, SameFiles
  <2> QED BY <1>2, <1>5, <2>1 DEF IInv, Resting, OnTheWay
<1>14. Judgements'
  <2>1. \A j : ~Unjudged(j) /\ ~Unjudged(j)'
    BY <1>2 DEF Unjudged
  <2>2. \A f : f.kind # "reference" => (f \in findings' <=> f \in findings)
    BY <1>7, <1>8
  <2> QED BY <1>2, <2>1, <2>2, Elsewhere DEF Judgements, IInv
<1>15. Indexed'
  BY <1>2, KeepIndexed DEF IInv, IsIndexed
<1>16. References'
  <2> SUFFICES ASSUME NEW j \in Instances
               PROVE  /\ Unreferred(j)' => \A f \in findings' : f.inst = j => f.kind # "reference"
                      /\ ~Unreferred(j)' /\ Still(j)' => Referred(j)'
    BY DEF References
  <2>1. CASE j = i
    <3>1. ~Unreferred(j)'
      BY <1>2, <1>7, <2>1 DEF Unreferred
    <3> QED BY <1>9, <2>1, <3>1
  <2>2. CASE j # i
    <3>1. Unreferred(j)' <=> Unreferred(j)
      BY <1>2, <1>7, <2>2 DEF Unreferred
    <3>2. \A f : f.inst = j => (f \in findings' <=> f \in findings)
      BY <1>7, <1>8, <2>2
    <3>3. CASE Unreferred(j)
      BY <3>1, <3>2, <3>3 DEF IInv, References
    <3>4. CASE ~Unreferred(j)
      BY <1>2, <3>1, <3>2, <3>4, ReferredElsewhere DEF IInv
    <3> QED BY <3>3, <3>4
  <2> QED BY <2>1, <2>2
<1> QED
  BY <1>5, <1>10, <1>12, <1>13, <1>14, <1>15, <1>16 DEF IInv

LEMMA ReturnStep ==
  ASSUME IInv, ReturnResult
  PROVE  IInv'
<1>1. /\ phase = "refs" /\ work = <<>> /\ phase' = "done"
      /\ UNCHANGED <<disk, edits, edited, todo, work, counts, findings, index>>
  BY DEF ReturnResult, Files
<1>2. TypeOK' /\ CountsMatchFindings' /\ IsFiniteSet(findings') /\ Resting'
  BY <1>1 DEF IInv, TypeOK, CountsMatchFindings, Resting
<1>3. Apart' /\ OnTheWay'
  BY <1>1, KeepWork DEF IInv
<1>4. Judgements'
  <2>1. \A j : ~Unjudged(j) /\ ~Unjudged(j)'
    BY <1>1 DEF Unjudged
  <2> QED BY <1>1, <2>1, Elsewhere DEF Judgements, IInv
<1>5. Indexed'
  BY <1>1, KeepIndexed DEF IInv, IsIndexed
<1>6. References'
  <2>1. \A j : ~Unreferred(j) /\ ~Unreferred(j)'
    BY <1>1, NothingAwaits DEF Unreferred
  <2> QED BY <1>1, <2>1, ReferredElsewhere DEF References, IInv
<1> QED
  BY <1>2, <1>3, <1>4, <1>5, <1>6 DEF IInv

\* An edit touches what depends on the edited record, and nothing else.
LEMMA EditIs ==
  ASSUME IInv, Edit
  PROVE  /\ UNCHANGED <<phase, todo, work, counts, findings, index>>
         /\ edited \subseteq edited'
         /\ disk' \in [Instances -> [Keys -> Cells] \cup {Broken}]
         /\ \A j \in Instances, l \in Keys : <<j, l>> \notin edited' =>
              disk'[j][l] = disk[j][l] /\ (disk'[j] = Broken <=> disk[j] = Broken)
         /\ \A j \in Instances : (\A l \in Keys : <<j, l>> \notin edited') => disk'[j] = disk[j]
<1>1. PICK i \in Instances, k \in Keys, c \in Cells :
        /\ disk[i] # Broken
        /\ disk' = [disk EXCEPT ![i][k] = c]
        /\ edited' = edited \cup {<<i, k>>}
  BY DEF Edit
<1>2. UNCHANGED <<phase, todo, work, counts, findings, index>>
  BY DEF Edit
<1>3. disk \in [Instances -> [Keys -> Cells] \cup {Broken}]
  BY DEF IInv, TypeOK
<1>4. disk[i] \in [Keys -> Cells]
  BY <1>1, <1>3
<1> DEFINE d == [disk[i] EXCEPT ![k] = c]
<1>5. d \in [Keys -> Cells] /\ \A l \in Keys : l # k => d[l] = disk[i][l]
  BY <1>4
<1>6. disk' = [disk EXCEPT ![i] = d]
  BY <1>1
<1>7. d # Broken
  BY <1>5, CellAssumption
<1> HIDE DEF d
<1>8. disk' \in [Instances -> [Keys -> Cells] \cup {Broken}]
  BY <1>3, <1>5, <1>6
<1>9. \A j \in Instances : disk'[j] = IF j = i THEN d ELSE disk[j]
  BY <1>3, <1>6
<1>10. \A l \in Keys : <<i, l>> \notin edited' => l # k
  BY <1>1
<1>11. ASSUME NEW j \in Instances, NEW l \in Keys, <<j, l>> \notin edited'
       PROVE  disk'[j][l] = disk[j][l] /\ (disk'[j] = Broken <=> disk[j] = Broken)
  <2>1. CASE j = i
    <3>1. disk'[j] = d /\ l # k
      BY <1>9, <1>10, <1>11, <2>1
    <3> QED BY <1>1, <1>5, <1>7, <2>1, <3>1
  <2>2. CASE j # i
    <3>1. disk'[j] = disk[j]
      BY <1>9, <2>2
    <3> QED BY <3>1
  <2> QED BY <2>1, <2>2
<1>12. ASSUME NEW j \in Instances, \A l \in Keys : <<j, l>> \notin edited'
       PROVE  disk'[j] = disk[j]
  <2>1. j # i
    BY <1>1, <1>12
  <2> QED BY <1>9, <2>1
<1> QED
  BY <1>1, <1>2, <1>8, <1>11, <1>12

LEMMA EditKeeps ==
  ASSUME IInv, Edit, NEW i \in Instances
  PROVE  /\ Still(i)' => Still(i) /\ (OnPath(i)' <=> OnPath(i))
         /\ TargetStill(i)' => TargetStill(i)
         /\ \A k \in Keys : <<i, k>> \notin edited' =>
              /\ <<i, k>> \notin edited
              /\ k \in Loads(i)' <=> k \in Loads(i)
              /\ Finding("record", i, k) \in SchemaFindings(i)'
                   <=> Finding("record", i, k) \in SchemaFindings(i)
              /\ TargetStill(i)' => (Dangling(i, k)' <=> Dangling(i, k))
         /\ (\A k \in Keys : <<i, k>> \notin edited') =>
              /\ SchemaFindings(i)' = SchemaFindings(i)
              /\ CountFindings(i)' = CountFindings(i)
<1>1. /\ edited \subseteq edited'
      /\ \A j \in Instances, l \in Keys : <<j, l>> \notin edited' =>
           disk'[j][l] = disk[j][l] /\ (disk'[j] = Broken <=> disk[j] = Broken)
      /\ \A j \in Instances : (\A l \in Keys : <<j, l>> \notin edited') => disk'[j] = disk[j]
  BY EditIs
<1>2. \A j \in Instances, l \in Keys : <<j, l>> \notin edited' =>
        (l \in Loads(j)' <=> l \in Loads(j))
  BY <1>1 DEF Loads, Layout, Present
<1>3. ASSUME Still(i)'
      PROVE  Still(i) /\ (OnPath(i)' <=> OnPath(i))
  <2>1. ASSUME NEW n \in 1..(Len(i.path) - 1)
        PROVE  /\ Ancestor(i, n) \in Instances /\ i.keys[n] \in Keys
               /\ <<Ancestor(i, n), i.keys[n]>> \notin edited'
    <3> DEFINE m == Len(i.path)
               s == i.keys
    <3>1. m \in Nat \ {0} /\ s \in Seq(Keys) /\ DOMAIN s = 1..(m - 1)
      BY InstanceIs
    <3>2. n \in 1..(m - 1)
      OBVIOUS
    <3> HIDE DEF m, s
    <3>3. n \in 1..m /\ s[n] \in Keys
      BY <3>1, <3>2
    <3>4. Ancestor(i, n) \in Instances
      BY <3>3, AncestorIs DEF m
    <3> QED BY <1>3, <3>3, <3>4 DEF Still, s
  <2> QED BY <1>1, <1>2, <2>1 DEF Still, OnPath
<1>4. TargetStill(i)' => TargetStill(i)
  BY <1>1 DEF TargetStill
<1>5. ASSUME NEW k \in Keys, <<i, k>> \notin edited'
      PROVE  /\ <<i, k>> \notin edited
             /\ k \in Loads(i)' <=> k \in Loads(i)
             /\ Finding("record", i, k) \in SchemaFindings(i)'
                  <=> Finding("record", i, k) \in SchemaFindings(i)
             /\ TargetStill(i)' => (Dangling(i, k)' <=> Dangling(i, k))
  <2>1. disk'[i][k] = disk[i][k] /\ (disk'[i] = Broken <=> disk[i] = Broken)
    BY <1>1, <1>5
  <2>2. k \in Failing(i)' <=> k \in Failing(i)
    BY <2>1 DEF Failing, Present
  <2>3. \A l : Finding("record", i, k) = Finding("record", i, l) => k = l
    BY DEF Finding
  <2>4. Finding("record", i, k) # Finding("file", i, NoKey)
    BY DEF Finding
  <2>5. Finding("record", i, k) \in SchemaFindings(i)
          <=> Layout(i) # "opaque" /\ disk[i] # Broken /\ k \in Failing(i)
    BY <2>3, <2>4 DEF SchemaFindings
  <2>6. Finding("record", i, k) \in SchemaFindings(i)'
          <=> Layout(i) # "opaque" /\ disk'[i] # Broken /\ k \in Failing(i)'
    BY <2>3, <2>4 DEF SchemaFindings, Layout
  <2>7. ASSUME TargetStill(i)'
        PROVE  Dangling(i, k)' <=> Dangling(i, k)
    <3>1. \A t \in Meant(i) : Loads(RootInstance(t))' = Loads(RootInstance(t))
      <4> SUFFICES ASSUME NEW t \in Meant(i)
                   PROVE  Loads(RootInstance(t))' = Loads(RootInstance(t))
        OBVIOUS
      <4> DEFINE r == RootInstance(t)
      <4>1. r \in Instances
        BY MeantAreRoots, RootsAre
      <4>2. \A l \in Keys : <<r, l>> \notin edited'
        BY <2>7 DEF TargetStill, Meant, Named
      <4> HIDE DEF r
      <4>3. disk'[r] = disk[r]
        BY <1>1, <4>1, <4>2
      <4>4. Loads(r)' = Loads(r)
        BY <4>3 DEF Loads, Layout, Present
      <4> QED BY <4>4 DEF r
    <3>2. Meant(i)' = Meant(i)
      BY DEF Meant, Named
    <3> QED BY <1>2, <1>5, <2>1, <3>1, <3>2 DEF Dangling
  <2> QED BY <1>1, <1>2, <1>5, <2>1, <2>2, <2>5, <2>6, <2>7
<1>6. ASSUME \A k \in Keys : <<i, k>> \notin edited'
      PROVE  SchemaFindings(i)' = SchemaFindings(i) /\ CountFindings(i)' = CountFindings(i)
  <2>1. disk'[i] = disk[i]
    BY <1>1, <1>6
  <2> QED BY <2>1 DEF SchemaFindings, CountFindings, Failing, Total, Present, Layout
<1> QED
  BY <1>3, <1>4, <1>5, <1>6

LEMMA EditStep ==
  ASSUME IInv, Edit
  PROVE  IInv'
<1>1. /\ UNCHANGED <<phase, todo, work, counts, findings, index>>
      /\ disk' \in [Instances -> [Keys -> Cells] \cup {Broken}]
  BY EditIs
<1>2. TypeOK' /\ CountsMatchFindings' /\ IsFiniteSet(findings') /\ Resting'
  BY <1>1 DEF IInv, TypeOK, CountsMatchFindings, Resting
<1>3. Waiting' = Waiting
  BY <1>1 DEF Waiting, Held
<1>4. Apart' /\ \A j : Awaits(j)' <=> Awaits(j)
  BY <1>1, <1>3 DEF IInv, Apart, Parts, Awaits
<1>5. OnTheWay'
  <2>1. \A t \in Waiting : t.inst \in Instances
    BY TasksAre DEF IInv, TypeOK, Waiting, Held
  <2> QED BY <1>3, <2>1, EditKeeps DEF IInv, OnTheWay
<1>6. Judgements'
  <2> SUFFICES ASSUME NEW j \in Instances
               PROVE  /\ Unjudged(j)' => \A f \in findings' : f.inst = j => f.kind = "reference"
                      /\ ~Unjudged(j)' /\ Still(j)' => Judged(j)'
    BY DEF Judgements
  <2>1. Unjudged(j)' <=> Unjudged(j)
    BY <1>1, <1>4 DEF Unjudged
  <2>2. ASSUME Still(j)', Judged(j)
        PROVE  Judged(j)'
    <3>1. OnPath(j)' <=> OnPath(j)
      BY <2>2, EditKeeps
    <3>2. \A k \in Keys : <<j, k>> \notin edited' =>
            (Finding("record", j, k) \in findings'
               <=> OnPath(j)' /\ Finding("record", j, k) \in SchemaFindings(j)')
      BY <1>1, <2>2, <3>1, EditKeeps DEF Judged
    <3>3. (\A k \in Keys : <<j, k>> \notin edited') =>
            \A f \in {Finding(kind, j, NoKey) : kind \in {"file", "few", "many"}} :
              f \in findings' <=> OnPath(j)' /\ f \in SchemaFindings(j)' \cup CountFindings(j)'
      <4> SUFFICES ASSUME \A k \in Keys : <<j, k>> \notin edited'
                   PROVE  \A f \in {Finding(kind, j, NoKey) : kind \in {"file", "few", "many"}} :
                            f \in findings' <=>
                              OnPath(j)' /\ f \in SchemaFindings(j)' \cup CountFindings(j)'
        OBVIOUS
      <4>1. /\ \A k \in Keys : <<j, k>> \notin edited
            /\ SchemaFindings(j)' = SchemaFindings(j) /\ CountFindings(j)' = CountFindings(j)
        BY EditKeeps
      <4> QED BY <1>1, <2>2, <3>1, <4>1 DEF Judged
    <3> QED BY <3>2, <3>3 DEF Judged
  <2>3. Still(j)' => Still(j)
    BY EditKeeps
  <2> QED BY <1>1, <2>1, <2>2, <2>3 DEF IInv, Judgements
<1>7. Indexed'
  <2> SUFFICES ASSUME NEW r \in RootIds, IsIndexed(r)', NEW k \in Keys,
                      <<RootInstance(r), k>> \notin edited'
               PROVE  k \in index'[r] <=> k \in Loads(RootInstance(r))'
    BY DEF Indexed
  <2> DEFINE i == RootInstance(r)
  <2>1. i \in Instances
    BY RootsAre
  <2>2. IsIndexed(r)
    BY <1>1 DEF IsIndexed
  <2>3. <<i, k>> \notin edited => (k \in index[r] <=> k \in Loads(i))
    BY <2>2 DEF IInv, Indexed
  <2>4. <<i, k>> \notin edited'
    OBVIOUS
  <2> HIDE DEF i
  <2>5. <<i, k>> \notin edited /\ (k \in Loads(i)' <=> k \in Loads(i))
    BY <2>1, <2>4, EditKeeps
  <2>6. k \in index'[r] <=> k \in Loads(i)'
    BY <1>1, <2>3, <2>5
  <2> QED BY <2>6 DEF i
<1>8. References'
  <2> SUFFICES ASSUME NEW j \in Instances
               PROVE  /\ Unreferred(j)' => \A f \in findings' : f.inst = j => f.kind # "reference"
                      /\ ~Unreferred(j)' /\ Still(j)' => Referred(j)'
    BY DEF References
  <2>1. Unreferred(j)' <=> Unreferred(j)
    BY <1>1, <1>4 DEF Unreferred
  <2>2. ASSUME Still(j)', Referred(j)
        PROVE  Referred(j)'
    <3>1. OnPath(j)' <=> OnPath(j)
      BY <2>2, EditKeeps
    <3>2. ASSUME NEW k \in Keys, <<j, k>> \notin edited', TargetStill(j)'
          PROVE  Finding("reference", j, k) \in findings' <=> OnPath(j)' /\ Dangling(j, k)'
      <4>1. <<j, k>> \notin edited /\ TargetStill(j) /\ (Dangling(j, k)' <=> Dangling(j, k))
        BY <3>2, EditKeeps
      <4> QED BY <1>1, <2>2, <3>1, <4>1 DEF Referred
    <3> QED BY <3>2 DEF Referred
  <2>3. Still(j)' => Still(j)
    BY EditKeeps
  <2> QED BY <1>1, <2>1, <2>2, <2>3 DEF IInv, References
<1> QED
  BY <1>2, <1>4, <1>5, <1>6, <1>7, <1>8 DEF IInv

LEMMA Stuttering ==
  ASSUME IInv, UNCHANGED vars
  PROVE  IInv'
<1>1. UNCHANGED <<disk, phase, todo, work, counts, findings, index, edits, edited>>
  BY DEF vars
<1>2. TypeOK' /\ CountsMatchFindings' /\ IsFiniteSet(findings') /\ Resting'
  BY <1>1 DEF IInv, TypeOK, CountsMatchFindings, Resting
<1>3. Apart' /\ OnTheWay' /\ \A j : Awaits(j)' <=> Awaits(j)
  BY <1>1, KeepWork DEF IInv
<1>4. Judgements'
  <2>1. \A j : Unjudged(j)' <=> Unjudged(j)
    BY <1>1, <1>3 DEF Unjudged
  <2> QED BY <1>1, <2>1, Elsewhere DEF Judgements, IInv
<1>5. Indexed'
  BY <1>1, KeepIndexed DEF IInv, IsIndexed
<1>6. References'
  <2>1. \A j : Unreferred(j)' <=> Unreferred(j)
    BY <1>1, <1>3 DEF Unreferred
  <2> QED BY <1>1, <2>1, ReferredElsewhere DEF References, IInv
<1> QED
  BY <1>2, <1>3, <1>4, <1>5, <1>6 DEF IInv

LEMMA Invariance == Spec => []IInv
<1>1. Init => IInv
  BY Initially
<1>2. IInv /\ [Next]_vars => IInv'
  <2> SUFFICES ASSUME IInv, [Next]_vars
               PROVE  IInv'
    OBVIOUS
  <2>1. CASE ValidateRoot     BY <2>1, RootStep
  <2>2. CASE StartWalk        BY <2>2, WalkStep
  <2>3. CASE ExpandInstance   BY <2>3, ExpandStep
  <2>4. CASE ValidateInstance BY <2>4, InstanceStep
  <2>5. CASE StartIndex       BY <2>5, IndexBegins
  <2>6. CASE IndexRoot        BY <2>6, IndexStep
  <2>7. CASE StartReferences  BY <2>7, ReferencesBegin
  <2>8. CASE CheckReferences  BY <2>8, ReferenceStep
  <2>9. CASE ReturnResult     BY <2>9, ReturnStep
  <2>10. CASE Edit            BY <2>10, EditStep
  <2>11. CASE UNCHANGED vars  BY <2>11, Stuttering
  <2> QED
    BY <2>1, <2>2, <2>3, <2>4, <2>5, <2>6, <2>7, <2>8, <2>9, <2>10, <2>11
    DEF Next, ValidationStep
<1> QED
  BY <1>1, <1>2, PTL DEF Spec

-----------------------------------------------------------------------------
(* The theorems. *)

\* Every variable keeps its type, through all passes and edits (Validate).
THEOREM TypeCorrect == Spec => []TypeOK
<1>1. IInv => TypeOK
  BY DEF IInv
<1> QED
  BY <1>1, Invariance, PTL

\* At every moment the counts of a collection and its findings tell one story:
\* what does not pass is counted once and found once, in any tree of instances
\* (validateCollectionRecords, walkSubCollectionInstances).
THEOREM CountsAreRight == Spec => []CountsMatchFindings
<1>1. IInv => CountsMatchFindings
  BY DEF IInv
<1> QED
  BY <1>1, Invariance, PTL

\* When Validate returns, a fault of a record, a file, a count or a reference
\* has been found exactly when it is there, but for what an edit in the
\* meantime touched (Validate, validateSubCollections, validateForeignKeys).
THEOREM FindingsStandExactly == Spec => []FindingsAreExact
<1>1. IInv => FindingsAreExact
  <2> SUFFICES ASSUME IInv, phase = "done", NEW i \in Instances, Still(i)
               PROVE  Judged(i) /\ Referred(i)
    BY DEF FindingsAreExact, Judged, Referred
  <2>1. ~Unjudged(i) /\ ~Unreferred(i)
    BY DEF Unjudged, Unreferred
  <2> QED BY <2>1 DEF IInv, Judgements, References
<1> QED
  BY <1>1, Invariance, PTL
=============================================================================
