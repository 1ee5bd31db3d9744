-------------------------- MODULE DocsBuilderProofs --------------------------
(***************************************************************************)
(* Theorems about DocsBuilder, for any tree of collections, any patterns,  *)
(* and any number of updates, edits and faults.                            *)
(***************************************************************************)
EXTENDS DocsBuilder, FiniteSetTheorems, SequenceTheorems,
        WellFoundedInduction, TLAPS

-----------------------------------------------------------------------------
(* The inductive invariant. *)

\* what is processed because a collection is, it included
ReachFor(pattern, c) ==
  IF pattern.kind \in {"all", "everything"} THEN {d \in All : c \in Ancestors(d) \cup {d}}
  ELSE IF pattern.kind = "direct" /\ c = pattern.of THEN {c} \cup Subs(c)
  ELSE {c}
Reach(c) == ReachFor(asked, c)

Held(s)  == UNION {s[i] : i \in DOMAIN s}
Parts(s) == \A i, j \in DOMAIN s : i # j => s[i] \cap s[j] = {}

Waiting   == Held(frames)
Rendering == {current} \ {NoCollection}

\* between updates nothing is waiting
Resting ==
  status # "running" => frames = <<>> /\ current = NoCollection

\* each collection has been processed, is being processed, or waits, once
Apart ==
  /\ Parts(frames)
  /\ \A x, y \in Waiting : x # y => Reach(x) \cap Reach(y) = {}
  /\ \A x \in Waiting : Reach(x) \cap (done \cup Rendering) = {}
  /\ Rendering \cap done = {}
Covered ==
  status \in {"running", "returned"} /\ asked.kind # "conflicts" =>
    Meant(asked) = done \cup Rendering \cup UNION {Reach(x) : x \in Waiting}
Books ==
  /\ IsFiniteSet(done)
  /\ result.updated + result.unchanged + result.errors = Cardinality(done)

\* what the history variables tell
Histories ==
  /\ settled => status = "returned" /\ result.errors = 0 /\ fresh
  /\ noop => fresh /\ asked.kind # "conflicts"

\* nothing has gone wrong since the update began
Clean == settled \/ (status = "running" /\ fresh /\ result.errors = 0)

Prepared ==
  status = "running" /\ fresh /\ current # NoCollection => content \in RenderingsNow(current)
Written ==
  Clean => \A c \in done : \E d \in done : /\ defs[d].dir = defs[c].dir
                                           /\ Readme(c) \in RenderingsNow(d)
Unsolved ==
  Clean /\ asked.kind = "conflicts" =>
    \A c \in All : Readme(c) = Conflicted =>
      \E d \in Waiting \cup Rendering : defs[d].dir = defs[c].dir
Idle ==
  noop /\ (\A c \in Meant(asked) : Settled(c) /\ Alone(c)) =>
    /\ result.updated + result.errors = 0
    /\ \A c \in Meant(asked) : Readme(c) \in RenderingsNow(c)

IInv ==
  /\ TypeOK /\ Resting
  /\ Apart /\ Covered /\ Books
  /\ Histories /\ Prepared /\ Written /\ Unsolved /\ Idle

-----------------------------------------------------------------------------
(* The tree of collections. *)

LEMMA Least ==
  ASSUME NEW T, T \subseteq Nat, T # {}
  PROVE  \E n \in T : \A m \in T : n <= m
<1>1. PICK n \in T : \A m \in T : <<m, n>> \notin OpToRel(<, Nat)
  BY WFMin, NatLessThanWellFounded, Zenon
<1>2. \A m \in T : ~(m < n)
  BY <1>1, Zenon DEF OpToRel
<1> QED
  BY <1>2

LEMMA TreeStands ==
  ASSUME defs \in Definitions
  PROVE  /\ All \subseteq Nat /\ NoCollection \notin All
         /\ \A c \in All : /\ defs[c] \in CollectionDef
                           /\ defs[c].parent # NoCollection =>
                                defs[c].parent \in All /\ defs[c].parent < c
  BY DefinitionAssumption, CollectionAssumption DEF All

\* What passes from a parent to its subcollections holds of all collections
\* if it holds of the roots.
LEMMA TreeInduction ==
  ASSUME defs \in Definitions, NEW S,
         \A c \in All : (defs[c].parent # NoCollection => defs[c].parent \in S) => c \in S
  PROVE  All \subseteq S
<1> SUFFICES ASSUME All \ S # {}
             PROVE  FALSE
  OBVIOUS
<1> DEFINE T == All \ S
<1>1. PICK c \in T : \A d \in T : c <= d
  <2>1. T \subseteq Nat /\ T # {}
    BY TreeStands
  <2> HIDE DEF T
  <2> QED BY <2>1, Least
<1>2. defs[c].parent # NoCollection /\ defs[c].parent \notin S
  BY <1>1
<1>3. defs[c].parent \in T /\ defs[c].parent < c /\ c \in Nat /\ defs[c].parent \in Nat
  BY <1>1, <1>2, TreeStands
<1> QED
  BY <1>1, <1>3

\* The definition by recursion means what it says.
LEMMA AncestorsAre ==
  ASSUME defs \in Definitions, NEW c \in All
  PROVE  Ancestors(c) = IF defs[c].parent = NoCollection THEN {}
                        ELSE Ancestors(defs[c].parent) \cup {defs[c].parent}
<1> DEFINE P(d) == defs[d].parent
           Root(d) == P(d) = NoCollection
           Holds(S, d) == /\ ~Root(d) => P(d) \in S
                          /\ \A x \in S : ~Root(x) => P(x) \in S
           Up(d) == {a \in All : \A S \in SUBSET All : Holds(S, d) => a \in S}
           Step(up) == [d \in All |-> IF Root(d) THEN {} ELSE up[P(d)] \cup {P(d)}]
           least == [d \in All |-> Up(d)]
           up == CHOOSE u : u = Step(u)
<1>1. \A d \in All : ~Root(d) => P(d) \in All
  BY TreeStands
<1>2. ASSUME NEW d \in All, Root(d)
      PROVE  Up(d) = {}
  <2>1. {} \in SUBSET All /\ Holds({}, d)
    BY <1>2
  <2> QED BY <2>1
<1>3. ASSUME NEW d \in All, ~Root(d)
      PROVE  Up(d) = Up(P(d)) \cup {P(d)}
  <2>1. P(d) \in Up(d)
    BY <1>1, <1>3
  <2>2. Up(P(d)) \subseteq Up(d)
    <3> SUFFICES ASSUME NEW a \in Up(P(d)), NEW S \in SUBSET All, Holds(S, d)
                 PROVE  a \in S
      OBVIOUS
    <3>1. Holds(S, P(d))
      BY <1>3
    <3> QED BY <3>1
  <2>3. Up(d) \subseteq Up(P(d)) \cup {P(d)}
    <3> DEFINE S == Up(P(d)) \cup {P(d)}
    <3>1. S \in SUBSET All
      BY <1>1, <1>3
    <3>2. ~Root(P(d)) => P(P(d)) \in Up(P(d))
      BY <1>1, <1>3
    <3>3. \A x \in Up(P(d)) : ~Root(x) => P(x) \in Up(P(d))
      BY <1>1
    <3>4. Holds(S, d)
      BY <3>2, <3>3
    <3> QED BY <3>1, <3>4
  <2> QED BY <2>1, <2>2, <2>3
<1> HIDE DEF Up
<1>4. least = Step(least)
  BY <1>1, <1>2, <1>3
<1> HIDE DEF least
<1>5. up = Step(up)
  <2> HIDE DEF Step
  <2> QED BY <1>4
<1>6. \A d \in All : Ancestors(d) = up[d]
  BY DEF Ancestors
<1> HIDE DEF up
<1>7. up[c] = IF Root(c) THEN {} ELSE up[P(c)] \cup {P(c)}
  BY <1>5
<1> QED
  BY <1>1, <1>6, <1>7

LEMMA AncestorsPrecede ==
  ASSUME defs \in Definitions
  PROVE  \A c \in All : \A a \in Ancestors(c) : a \in All /\ a < c
<1> DEFINE S == {c \in All : \A a \in Ancestors(c) : a \in All /\ a < c}
<1>1. ASSUME NEW c \in All, defs[c].parent # NoCollection => defs[c].parent \in S
      PROVE  c \in S
  <2>1. CASE defs[c].parent = NoCollection
    BY <2>1, AncestorsAre
  <2>2. CASE defs[c].parent # NoCollection
    <3>1. defs[c].parent \in All /\ defs[c].parent < c /\ All \subseteq Nat
      BY <2>2, TreeStands
    <3>2. \A a \in Ancestors(c) : a = defs[c].parent \/ a \in Ancestors(defs[c].parent)
      BY <2>2, AncestorsAre
    <3> QED BY <1>1, <2>2, <3>1, <3>2
  <2> QED BY <2>1, <2>2
<1>2. All \subseteq S
  <2> HIDE DEF S
  <2> QED BY <1>1, TreeInduction
<1> QED
  BY <1>2

\* What is below a collection is below one of its subcollections.
LEMMA BelowOneOfThem ==
  ASSUME defs \in Definitions, NEW c \in All
  PROVE  \A d \in All :
           c \in Ancestors(d) <=> \E s \in Subs(c) : s \in Ancestors(d) \cup {d}
<1> DEFINE S == {d \in All : c \in Ancestors(d) <=>
                               \E s \in Subs(c) : s \in Ancestors(d) \cup {d}}
<1>1. ASSUME NEW d \in All, defs[d].parent # NoCollection => defs[d].parent \in S
      PROVE  d \in S
  <2>1. c # NoCollection
    BY TreeStands
  <2>2. CASE defs[d].parent = NoCollection
    BY <2>1, <2>2, AncestorsAre DEF Subs
  <2>3. CASE defs[d].parent # NoCollection
    <3>1. Ancestors(d) = Ancestors(defs[d].parent) \cup {defs[d].parent}
      BY <2>3, AncestorsAre
    <3> QED BY <1>1, <2>3, <3>1 DEF Subs
  <2> QED BY <2>2, <2>3
<1>2. All \subseteq S
  <2> HIDE DEF S
  <2> QED BY <1>1, TreeInduction
<1> QED
  BY <1>2

\* Two collections of one parent, or two roots, have nothing below both.
LEMMA SiblingsArePart ==
  ASSUME defs \in Definitions, NEW s \in All, NEW t \in All,
         defs[s].parent = defs[t].parent, s # t
  PROVE  \A d \in All : ~(s \in Ancestors(d) \cup {d} /\ t \in Ancestors(d) \cup {d})
<1> DEFINE S == {d \in All : ~(s \in Ancestors(d) \cup {d} /\ t \in Ancestors(d) \cup {d})}
<1>1. ASSUME NEW d \in All, defs[d].parent # NoCollection => defs[d].parent \in S
      PROVE  d \in S
  <2>1. CASE defs[d].parent = NoCollection
    BY <2>1, AncestorsAre
  <2>2. CASE defs[d].parent # NoCollection
    <3> DEFINE p == defs[d].parent
    <3>1. /\ Ancestors(d) = Ancestors(p) \cup {p}
          /\ p \in All /\ p < d /\ All \subseteq Nat
      BY <2>2, AncestorsAre, TreeStands
    <3>2. \A a \in Ancestors(d) : a <= p
      BY <3>1, AncestorsPrecede
    <3>3. ~(s = d /\ t \in Ancestors(d))
      <4> SUFFICES ASSUME s = d, t \in Ancestors(d)
                   PROVE  FALSE
        OBVIOUS
      <4>1. defs[t].parent = p
        OBVIOUS
      <4>2. p < t
        BY <2>2, <4>1, TreeStands
      <4>3. t \in Nat /\ p \in Nat
        BY <3>1
      <4> QED BY <3>2, <4>2, <4>3
    <3>4. ~(t = d /\ s \in Ancestors(d))
      <4> SUFFICES ASSUME t = d, s \in Ancestors(d)
                   PROVE  FALSE
        OBVIOUS
      <4>1. defs[s].parent = p
        OBVIOUS
      <4>2. p < s
        BY <2>2, <4>1, TreeStands
      <4>3. s \in Nat /\ p \in Nat
        BY <3>1
      <4> QED BY <3>2, <4>2, <4>3
    <3> QED BY <1>1, <2>2, <3>1, <3>3, <3>4
  <2> QED BY <2>1, <2>2
<1>2. All \subseteq S
  <2> HIDE DEF S
  <2> QED BY <1>1, TreeInduction
<1> QED
  BY <1>2

\* Every collection is a root or below one.
LEMMA RootsReachAll ==
  ASSUME defs \in Definitions
  PROVE  \A d \in All : \E r \in Roots : r \in Ancestors(d) \cup {d}
<1> DEFINE S == {d \in All : \E r \in Roots : r \in Ancestors(d) \cup {d}}
<1>1. ASSUME NEW d \in All, defs[d].parent # NoCollection => defs[d].parent \in S
      PROVE  d \in S
  <2>1. CASE defs[d].parent = NoCollection
    BY <2>1 DEF Roots, Subs
  <2>2. CASE defs[d].parent # NoCollection
    <3>1. Ancestors(d) = Ancestors(defs[d].parent) \cup {defs[d].parent}
      BY <2>2, AncestorsAre
    <3> QED BY <1>1, <2>2, <3>1
  <2> QED BY <2>1, <2>2
<1>2. All \subseteq S
  <2> HIDE DEF S
  <2> QED BY <1>1, TreeInduction
<1> QED
  BY <1>2
-----------------------------------------------------------------------------
(* What an update reaches. *)

LEMMA ReachUnfolds ==
  ASSUME defs \in Definitions, NEW c \in All
  PROVE  /\ Below(c) \subseteq All
         /\ c \in Reach(c) /\ Reach(c) \subseteq All
         /\ Reach(c) = {c} \cup UNION {Reach(s) : s \in Below(c)}
         /\ \A s \in Below(c) : c \notin Reach(s)
         /\ \A s, t \in Below(c) : s # t => Reach(s) \cap Reach(t) = {}
<1>1. /\ Subs(c) \subseteq All /\ c \in Nat /\ c # NoCollection
      /\ \A s \in Subs(c) : s \in All /\ s \in Nat /\ c < s /\ defs[s].parent = c
  BY TreeStands DEF Subs
<1>2. CASE asked.kind \in {"all", "everything"}
  <2>1. Below(c) = Subs(c)
    BY <1>2 DEF Below
  <2>2. \A x : Reach(x) = {d \in All : x \in Ancestors(d) \cup {d}}
    BY <1>2 DEF Reach, ReachFor
  <2>3. Reach(c) = {c} \cup UNION {Reach(s) : s \in Subs(c)}
    <3>1. \A d \in All : d \in Reach(c) <=> d = c \/ \E s \in Subs(c) : d \in Reach(s)
      BY <2>2, BelowOneOfThem
    <3>2. Reach(c) \subseteq All /\ c \in All /\ \A s \in Subs(c) : Reach(s) \subseteq All
      BY <2>2
    <3> QED BY <3>1, <3>2
  <2>4. \A s \in Subs(c) : c \notin Reach(s)
    <3> SUFFICES ASSUME NEW s \in Subs(c), s \in Ancestors(c) \cup {c}
                 PROVE  FALSE
      BY <2>2
    <3>1. s < c \/ s = c
      BY AncestorsPrecede
    <3> QED BY <1>1, <3>1
  <2>5. \A s, t \in Subs(c) : s # t => Reach(s) \cap Reach(t) = {}
    <3> SUFFICES ASSUME NEW s \in Subs(c), NEW t \in Subs(c), s # t,
                        NEW d \in Reach(s), d \in Reach(t)
                 PROVE  FALSE
      OBVIOUS
    <3>1. d \in All /\ s \in Ancestors(d) \cup {d} /\ t \in Ancestors(d) \cup {d}
      BY <2>2
    <3>2. s \in All /\ t \in All /\ defs[s].parent = defs[t].parent
      BY <1>1
    <3> QED BY <3>1, <3>2, SiblingsArePart
  <2> QED BY <1>1, <2>1, <2>2, <2>3, <2>4, <2>5
<1>3. CASE asked.kind \notin {"all", "everything"} /\ asked.kind = "direct" /\ c = asked.of
  <2>1. Below(c) = Subs(c) /\ Reach(c) = {c} \cup Subs(c)
    BY <1>3 DEF Below, Reach, ReachFor
  <2>2. \A s \in Subs(c) : s # c
    BY <1>1
  <2>3. \A s \in Subs(c) : Reach(s) = {s}
    BY <1>3, <2>2 DEF Reach, ReachFor
  <2> QED BY <1>1, <2>1, <2>2, <2>3
<1>4. CASE asked.kind \notin {"all", "everything"} /\ ~(asked.kind = "direct" /\ c = asked.of)
  BY <1>4 DEF Below, Reach, ReachFor
<1> QED
  BY <1>2, <1>3, <1>4

\* What an update starts from reaches what its pattern means.
LEMMA TargetsReach ==
  ASSUME defs \in Definitions, NEW pattern \in Pattern
  PROVE  /\ Targets(pattern) \subseteq All
         /\ \A x, y \in Targets(pattern) :
              x # y => ReachFor(pattern, x) \cap ReachFor(pattern, y) = {}
         /\ Meant(pattern) = UNION {ReachFor(pattern, x) : x \in Targets(pattern)}
<1>1. /\ pattern.kind \in {"one", "direct", "all", "everything"}
      /\ pattern.of \in Collections /\ pattern.of # NoCollection
  BY CollectionAssumption DEF Pattern
<1>2. CASE pattern.kind = "one"
  BY <1>2 DEF Targets, Meant, ReachFor
<1>3. CASE pattern.kind = "direct"
  <2>1. /\ Targets(pattern) = {pattern.of} \cap All
        /\ Meant(pattern) = {c \in All : pattern.of \in {c, defs[c].parent}}
        /\ ReachFor(pattern, pattern.of) = {pattern.of} \cup Subs(pattern.of)
    BY <1>3 DEF Targets, Meant, ReachFor
  <2>2. CASE pattern.of \in All
    BY <2>1, <2>2 DEF Subs
  <2>3. CASE pattern.of \notin All
    BY <1>1, <2>1, <2>3, TreeStands
  <2> QED BY <2>2, <2>3
<1>4. CASE pattern.kind = "all"
  <2>1. /\ Targets(pattern) = {pattern.of} \cap All
        /\ Meant(pattern) = {c \in All : pattern.of \in Ancestors(c) \cup {c}}
        /\ ReachFor(pattern, pattern.of) = Meant(pattern)
    BY <1>4 DEF Targets, Meant, ReachFor
  <2>2. CASE pattern.of \in All
    BY <2>1, <2>2
  <2>3. CASE pattern.of \notin All
    BY <2>1, <2>3, AncestorsPrecede
  <2> QED BY <2>2, <2>3
<1>5. CASE pattern.kind = "everything"
  <2>1. Targets(pattern) = Roots /\ Meant(pattern) = All
    BY <1>5 DEF Targets, Meant
  <2>2. \A x : ReachFor(pattern, x) = {d \in All : x \in Ancestors(d) \cup {d}}
    BY <1>5 DEF ReachFor
  <2>3. \A x \in Roots : x \in All /\ defs[x].parent = NoCollection
    BY DEF Roots, Subs
  <2>4. \A x, y \in Roots : x # y => ReachFor(pattern, x) \cap ReachFor(pattern, y) = {}
    <3> SUFFICES ASSUME NEW x \in Roots, NEW y \in Roots, x # y,
                        NEW d \in ReachFor(pattern, x), d \in ReachFor(pattern, y)
                 PROVE  FALSE
      OBVIOUS
    <3>1. d \in All /\ x \in Ancestors(d) \cup {d} /\ y \in Ancestors(d) \cup {d}
      BY <2>2
    <3> QED BY <2>3, <3>1, SiblingsArePart
  <2>5. All = UNION {ReachFor(pattern, x) : x \in Roots}
    BY <2>2, RootsReachAll
  <2> QED BY <2>1, <2>3, <2>4, <2>5
<1> QED
  BY <1>1, <1>2, <1>3, <1>4, <1>5

-----------------------------------------------------------------------------
(* Frames. *)

LEMMA Framed ==
  ASSUME NEW s \in Seq(SUBSET All), NEW A \in SUBSET All, Parts(s), A \cap Held(s) = {}
  PROVE  /\ s \o Frame(A) \in Seq(SUBSET All)
         /\ Parts(s \o Frame(A)) /\ Held(s \o Frame(A)) = Held(s) \cup A
<1>1. CASE A = {}
  BY <1>1 DEF Frame
<1>2. CASE A # {}
  <2> DEFINE t == Append(s, A)
  <2>1. s \o Frame(A) = t
    BY <1>2 DEF Frame
  <2>2. /\ t \in Seq(SUBSET All) /\ DOMAIN t = (DOMAIN s) \cup {Len(s) + 1}
        /\ \A i \in DOMAIN s : t[i] = s[i] /\ i # Len(s) + 1
        /\ t[Len(s) + 1] = A
    OBVIOUS
  <2> HIDE DEF t
  <2>3. Parts(t)
    BY <2>2 DEF Parts, Held
  <2>4. Held(t) = Held(s) \cup A
    BY <2>2 DEF Held
  <2> QED BY <2>1, <2>2, <2>3, <2>4
<1> QED
  BY <1>1, <1>2

LEMMA Dropped ==
  ASSUME frames \in Seq(SUBSET All), frames # <<>>, Parts(frames)
  PROVE  /\ Drop \in Seq(SUBSET All) /\ Parts(Drop)
         /\ Here \in SUBSET All /\ Here \subseteq Waiting
         /\ Held(Drop) = Waiting \ Here
<1> DEFINE n == Len(frames)
<1>1. /\ n \in Nat \ {0} /\ n \in DOMAIN frames /\ DOMAIN frames = 1..n
      /\ Drop \in Seq(SUBSET All) /\ DOMAIN Drop = 1..(n - 1)
      /\ \A i \in DOMAIN Drop : Drop[i] = frames[i] /\ i \in DOMAIN frames /\ i # n
      /\ \A i \in DOMAIN frames : i = n \/ i \in DOMAIN Drop
      /\ Here = frames[n]
  BY DEF Drop, Here
<1> HIDE DEF n
<1>2. Parts(Drop)
  BY <1>1 DEF Parts
<1>3. Here \in SUBSET All /\ Here \subseteq Waiting
  BY <1>1 DEF Waiting, Held
<1>4. Held(Drop) = Waiting \ Here
  BY <1>1 DEF Waiting, Held, Parts
<1> QED
  BY <1>1, <1>2, <1>3, <1>4

\* A collection is taken from the frames, and those below it are added.
LEMMA NextFrames ==
  ASSUME frames \in Seq(SUBSET All), frames # <<>>, Parts(frames),
         NEW c \in Here, NEW B \in SUBSET All, B \cap Waiting = {}
  PROVE  /\ Drop \o Frame(Here \ {c}) \o Frame(B) \in Seq(SUBSET All)
         /\ Parts(Drop \o Frame(Here \ {c}) \o Frame(B))
         /\ Held(Drop \o Frame(Here \ {c}) \o Frame(B)) = (Waiting \ {c}) \cup B
<1> DEFINE t == Drop \o Frame(Here \ {c})
<1>1. /\ Drop \in Seq(SUBSET All) /\ Parts(Drop) /\ Here \ {c} \in SUBSET All
      /\ (Here \ {c}) \cap Held(Drop) = {}
      /\ Held(Drop) \cup (Here \ {c}) = Waiting \ {c}
  BY Dropped
<1>2. t \in Seq(SUBSET All) /\ Parts(t) /\ Held(t) = Waiting \ {c}
  BY <1>1, Framed
<1> HIDE DEF t
<1>3. B \cap Held(t) = {}
  BY <1>2
<1>4. /\ t \o Frame(B) \in Seq(SUBSET All) /\ Parts(t \o Frame(B))
      /\ Held(t \o Frame(B)) = Held(t) \cup B
  BY <1>2, <1>3, Framed
<1> QED
  BY <1>2, <1>4 DEF t
-----------------------------------------------------------------------------
(* What stands still. *)

LEMMA StandStill ==
  ASSUME UNCHANGED <<defs, asked>>
  PROVE  /\ All' = All /\ Previewed' = Previewed /\ Meant(asked)' = Meant(asked)
         /\ \A c : Reach(c)' = Reach(c)
         /\ \A c : Settled(c)' <=> Settled(c)
         /\ \A c : Alone(c)' <=> Alone(c)
         /\ \A x : IsRendering(x)' <=> IsRendering(x)
<1>1. All' = All /\ Previewed' = Previewed
  BY DEF All, Previewed
<1>2. \A c : Ancestors(c)' = Ancestors(c)
  BY DEF Ancestors, All
<1>3. \A c : Subs(c)' = Subs(c)
  BY DEF Subs, All
<1>4. Meant(asked)' = Meant(asked)
  BY <1>1, <1>2 DEF Meant
<1>5. \A c : Reach(c)' = Reach(c)
  BY <1>1, <1>2, <1>3 DEF Reach, ReachFor
<1>6. \A c, records : Renderings(c, records)' = Renderings(c, records)
  BY DEF Renderings
<1>7. /\ \A c : Settled(c)' <=> Settled(c)
      /\ \A x : IsRendering(x)' <=> IsRendering(x)
  BY <1>1, <1>6 DEF Settled, IsRendering
<1>8. \A c : Alone(c)' <=> Alone(c)
  BY <1>4 DEF Alone
<1> QED
  BY <1>1, <1>4, <1>5, <1>7, <1>8

LEMMA SourcesStand ==
  ASSUME UNCHANGED <<defs, source>>
  PROVE  \A c : RenderingsNow(c)' = RenderingsNow(c)
BY DEF RenderingsNow, Renderings, Previewed, All

LEMMA FilesStand ==
  ASSUME UNCHANGED <<defs, readmes>>
  PROVE  \A c : Readme(c)' = Readme(c)
BY DEF Readme

\* What is rendered now is a rendering.
LEMMA NowIsRendering ==
  ASSUME TypeOK, NEW c \in All, NEW x \in RenderingsNow(c)
  PROVE  /\ IsRendering(x) /\ x \notin {NoFile, Torn, Conflicted}
         /\ Settled(c) => \A y \in RenderingsNow(c) : x = y
<1> DEFINE records == IF c \in Previewed THEN source[c] ELSE {}
<1>1. records \in SUBSET Rows
  BY DEF TypeOK
<1>2. RenderingsNow(c) = Renderings(c, records)
  BY DEF RenderingsNow
<1> HIDE DEF records
<1>3. x.id = c /\ x.is = "rendered"
  BY <1>2 DEF Renderings
<1>4. x \notin {NoFile, Torn, Conflicted}
  BY <1>3 DEF NoFile, Torn, Conflicted
<1> QED
  BY <1>1, <1>2, <1>3, <1>4 DEF IsRendering, Settled

LEMMA RenderingIsNoMarker ==
  ASSUME NEW x, IsRendering(x)
  PROVE  x \notin {NoFile, Torn, Conflicted}
<1>1. x.is = "rendered"
  BY DEF IsRendering, Renderings
<1> QED
  BY <1>1 DEF NoFile, Torn, Conflicted

-----------------------------------------------------------------------------
(* An update starts. *)

LEMMA Starting ==
  ASSUME IInv, NEW pattern, NEW frame, Start(pattern, frame),
         frame \subseteq All,
         \A x, y \in frame : x # y => ReachFor(pattern, x) \cap ReachFor(pattern, y) = {}
  PROVE  /\ TypeOK' /\ Resting' /\ Apart' /\ Books' /\ Prepared' /\ Written'
         /\ Waiting' = frame /\ Rendering' = {}
<1> USE DEF Start
<1>1. defs' = defs /\ source' = source /\ readmes' = readmes /\ All' = All /\ Previewed' = Previewed
  BY DEF All, Previewed
<1>2. current' = NoCollection /\ current = NoCollection
  BY DEF IInv, Resting
<1>3. frames' \in Seq(SUBSET All) /\ DOMAIN frames' = {1} /\ frames'[1] = frame
  OBVIOUS
<1>4. \A x : IsRendering(x)' <=> IsRendering(x)
  BY <1>1 DEF IsRendering, Renderings
<1>5. TypeOK'
  BY <1>1, <1>2, <1>3, <1>4 DEF IInv, TypeOK, NoResult
<1>6. Waiting' = frame /\ Rendering' = {} /\ Parts(frames')
  BY <1>2, <1>3 DEF Waiting, Held, Rendering, Parts
<1>7. \A x : Reach(x)' = ReachFor(pattern, x)
  <2>1. \A c : Ancestors(c)' = Ancestors(c)
    BY <1>1 DEF Ancestors, All
  <2>2. \A c : Subs(c)' = Subs(c)
    BY <1>1 DEF Subs, All
  <2> QED BY <1>1, <2>1, <2>2 DEF Reach, ReachFor
<1>8. Apart'
  BY <1>6, <1>7 DEF Apart
<1>9. Books'
  BY FS_EmptySet DEF Books, NoResult
<1> QED
  BY <1>2, <1>5, <1>6, <1>8, <1>9 DEF Resting, Prepared, Written

LEMMA UpdateDocsStep ==
  ASSUME IInv, UpdateDocs
  PROVE  IInv'
<1>1. PICK pattern \in Patterns : /\ Start(pattern, Targets(pattern))
                                  /\ noop' = (settled /\ pattern = asked)
  BY DEF UpdateDocs
<1>2. pattern \in Pattern /\ pattern.kind # "conflicts" /\ defs \in Definitions
  BY PatternAssumption DEF Pattern, IInv, TypeOK
<1>3. /\ TypeOK' /\ Resting' /\ Apart' /\ Books' /\ Prepared' /\ Written'
      /\ Waiting' = Targets(pattern) /\ Rendering' = {}
  BY <1>1, <1>2, TargetsReach, Starting
<1>4. /\ UNCHANGED <<defs, source, readmes>> /\ asked' = pattern /\ result' = NoResult
      /\ done' = {} /\ fresh' = TRUE /\ settled' = FALSE
  BY <1>1 DEF Start
<1>5. \A c : Ancestors(c)' = Ancestors(c) /\ Subs(c)' = Subs(c)
  BY <1>4 DEF Ancestors, Subs, All
<1>6. All' = All /\ \A x : Reach(x)' = ReachFor(pattern, x)
  BY <1>4, <1>5 DEF Reach, ReachFor, All
<1>7. Meant(asked)' = Meant(pattern)
  BY <1>4, <1>5, <1>6 DEF Meant
<1>8. Covered'
  BY <1>2, <1>3, <1>4, <1>6, <1>7, TargetsReach DEF Covered
<1>9. Histories'
  BY <1>1, <1>2, <1>4 DEF Histories
<1>10. Unsolved'
  BY <1>2, <1>4 DEF Unsolved
<1>11. Idle'
  <2> SUFFICES ASSUME settled, pattern = asked,
                      \A c \in Meant(asked) : Settled(c)' /\ Alone(c)'
               PROVE  /\ (result.updated + result.errors)' = 0
                      /\ \A c \in Meant(asked) : (Readme(c) \in RenderingsNow(c))'
    BY <1>1, <1>7 DEF Idle
  <2>1. asked' = asked
    BY <1>4
  <2>2. \A c \in Meant(asked) : Settled(c) /\ Alone(c)
    BY <1>4, <2>1, StandStill
  <2>3. done = Meant(asked)
    <3>1. status = "returned" /\ frames = <<>> /\ current = NoCollection
      BY DEF IInv, Histories, Resting
    <3>2. Waiting = {} /\ Rendering = {}
      BY <3>1 DEF Waiting, Held, Rendering
    <3> QED BY <1>2, <3>1, <3>2 DEF IInv, Covered
  <2>4. \A c \in Meant(asked) : Readme(c) \in RenderingsNow(c)
    BY <2>2, <2>3 DEF IInv, Written, Clean, Alone
  <2> QED
    BY <1>4, <2>4, SourcesStand, FilesStand DEF NoResult
<1> QED
  BY <1>3, <1>8, <1>9, <1>10, <1>11 DEF IInv

\* A directory with a README in conflict has a collection that no other of
\* the directory is above.
LEMMA FirstIsFound ==
  ASSUME defs \in Definitions, NEW c \in All
  PROVE  FoundByDir(defs[c].dir) # {}
<1> DEFINE T == {d \in All : defs[d].dir = defs[c].dir}
<1>1. T \subseteq Nat /\ T # {}
  BY TreeStands
<1>2. PICK d \in T : \A e \in T : d <= e
  <2> HIDE DEF T
  <2> QED BY <1>1, Least
<1>3. ASSUME NEW a \in Ancestors(d), defs[a].dir = defs[c].dir
      PROVE  FALSE
  <2>1. a \in All /\ a < d
    BY AncestorsPrecede
  <2>2. a \in T /\ a \in Nat /\ d \in Nat
    BY <1>1, <1>3, <2>1
  <2> QED BY <1>2, <2>1, <2>2
<1> QED
  BY <1>3 DEF FoundByDir

LEMMA ResolveConflictsStep ==
  ASSUME IInv, ResolveConflicts
  PROVE  IInv'
<1> DEFINE dirs == {d \in DirPaths : readmes[d] = Conflicted /\ FoundByDir(d) # {}}
           pattern == [kind |-> "conflicts", of |-> NoCollection]
<1>1. PICK found \in [dirs -> All] :
        /\ \A d \in dirs : found[d] \in FoundByDir(d)
        /\ Start(pattern, {found[d] : d \in dirs})
  BY DEF ResolveConflicts
<1>2. noop' = FALSE
  BY DEF ResolveConflicts
<1> DEFINE frame == {found[d] : d \in dirs}
<1>3. \A x : ReachFor(pattern, x) = {x}
  BY DEF ReachFor
<1>4. frame \subseteq All
  OBVIOUS
<1>5. /\ TypeOK' /\ Resting' /\ Apart' /\ Books' /\ Prepared' /\ Written'
      /\ Waiting' = frame /\ Rendering' = {}
  <2>1. \A x, y \in frame : x # y => ReachFor(pattern, x) \cap ReachFor(pattern, y) = {}
    BY <1>3
  <2> HIDE DEF frame
  <2>2. Start(pattern, frame)
    BY <1>1 DEF frame
  <2> HIDE DEF pattern
  <2> QED BY <1>4, <2>1, <2>2, Starting
<1>6. UNCHANGED <<defs, source, readmes>> /\ asked' = pattern /\ settled' = FALSE
  BY <1>1 DEF Start
<1>7. Covered' /\ Histories' /\ Idle'
  BY <1>2, <1>6 DEF Covered, Histories, Idle
<1>8. Unsolved'
  <2> SUFFICES ASSUME NEW c \in All, Readme(c) = Conflicted
               PROVE  \E d \in frame : defs[d].dir = defs[c].dir
    BY <1>5, <1>6, FilesStand DEF Unsolved, All
  <2>1. defs[c].dir \in dirs
    BY FirstIsFound, TreeStands DEF IInv, TypeOK, Readme, CollectionDef
  <2> QED BY <1>1, <2>1 DEF FoundByDir
<1> QED
  BY <1>5, <1>7, <1>8 DEF IInv
-----------------------------------------------------------------------------
(* A collection is rendered. *)

LEMMA RenderReadmeStep ==
  ASSUME IInv, RenderReadme
  PROVE  IInv'
<1> USE DEF RenderReadme
<1>1. PICK c \in Here : /\ content' \in RenderingsNow(c) /\ current' = c
                        /\ frames' = Drop \o Frame(Here \ {c}) \o Frame(Below(c))
  OBVIOUS
<1>2. /\ UNCHANGED <<defs, source, readmes, asked, done, result, status, bounds, history>>
      /\ status = "running" /\ current = NoCollection /\ frames # <<>>
  OBVIOUS
<1> HIDE DEF RenderReadme
<1>3. /\ defs \in Definitions /\ frames \in Seq(SUBSET All) /\ Parts(frames)
      /\ NoCollection \notin All
  BY TreeStands DEF IInv, TypeOK, Apart
<1>4. Here \subseteq Waiting /\ Here \in SUBSET All /\ c \in All /\ c \in Waiting
  BY <1>2, <1>3, Dropped
<1> DEFINE B == Below(c)
<1>5. /\ B \subseteq All
      /\ c \in Reach(c) /\ Reach(c) = {c} \cup UNION {Reach(s) : s \in B}
      /\ \A s \in B : c \notin Reach(s)
      /\ \A s, t \in B : s # t => Reach(s) \cap Reach(t) = {}
      /\ \A s \in B : s \in Reach(s)
      /\ \A s \in B : Reach(s) \subseteq Reach(c)
  BY <1>3, <1>4, ReachUnfolds
<1> HIDE DEF B
<1>6. /\ \A x, y \in Waiting : x # y => Reach(x) \cap Reach(y) = {}
      /\ \A x \in Waiting : Reach(x) \cap done = {}
  BY DEF IInv, Apart
<1>7. \A x \in Waiting : x \in Reach(x)
  <2>1. Waiting \subseteq All
    BY <1>3 DEF Waiting, Held
  <2> QED BY <1>3, <2>1, ReachUnfolds
<1>8. B \cap Waiting = {}
  BY <1>4, <1>5, <1>6
<1>9. /\ frames' \in Seq(SUBSET All) /\ Parts(frames')
      /\ Waiting' = (Waiting \ {c}) \cup B
  <2>1. frames' = Drop \o Frame(Here \ {c}) \o Frame(B)
    BY <1>1 DEF B
  <2>2. /\ Drop \o Frame(Here \ {c}) \o Frame(B) \in Seq(SUBSET All)
        /\ Parts(Drop \o Frame(Here \ {c}) \o Frame(B))
        /\ Held(Drop \o Frame(Here \ {c}) \o Frame(B)) = (Waiting \ {c}) \cup B
    BY <1>2, <1>3, <1>5, <1>8, NextFrames
  <2>3. Waiting' = Held(frames)'
    BY DEF Waiting
  <2>4. Held(frames)' = Held(Drop \o Frame(Here \ {c}) \o Frame(B))
    BY <2>1 DEF Held
  <2>5. Parts(frames)'
    BY <2>1, <2>2 DEF Parts
  <2> QED BY <2>1, <2>2, <2>3, <2>4, <2>5
<1>10. Rendering' = {c} /\ Rendering = {}
  BY <1>1, <1>2, <1>3, <1>4 DEF Rendering
<1>11. /\ All' = All /\ \A x : Reach(x)' = Reach(x) /\ Previewed' = Previewed
       /\ Meant(asked)' = Meant(asked)
       /\ \A x : IsRendering(x)' <=> IsRendering(x)
       /\ \A x : Settled(x)' <=> Settled(x)
       /\ \A x : Alone(x)' <=> Alone(x)
  BY <1>2, StandStill
<1>12. /\ \A x : RenderingsNow(x)' = RenderingsNow(x)
       /\ \A x : Readme(x)' = Readme(x)
  BY <1>2, SourcesStand, FilesStand
<1>13. TypeOK'
  <2>1. IsRendering(content')
    BY <1>1, <1>4, NowIsRendering DEF IInv
  <2>2. defs' \in Definitions /\ source' \in [Previewed' -> SUBSET Rows]
    BY <1>2, <1>11 DEF IInv, TypeOK
  <2>3. DOMAIN readmes' = DirPaths /\ \A d \in DirPaths :
          readmes'[d] \notin {NoFile, Torn, Conflicted} => IsRendering(readmes[d])'
    BY <1>2, <1>11 DEF IInv, TypeOK
  <2>4. current' \in All' /\ IsRendering(content)'
    BY <1>1, <1>4, <1>11, <2>1
  <2>5. done' \subseteq All' /\ result' \in [{"updated", "unchanged", "errors"} -> Nat]
        /\ status' \in {"none", "running", "returned", "crashed"}
    BY <1>2, <1>11 DEF IInv, TypeOK
  <2> QED BY <1>9, <1>11, <2>2, <2>3, <2>4, <2>5 DEF TypeOK
<1>14. Apart'
  <2>1. \A x, y \in Waiting' : x # y => Reach(x) \cap Reach(y) = {}
    <3> SUFFICES ASSUME NEW x \in Waiting', NEW y \in Waiting', x # y
                 PROVE  Reach(x) \cap Reach(y) = {}
      OBVIOUS
    <3>1. CASE x \in B /\ y \in B
      BY <1>5, <3>1
    <3>2. CASE x \in B /\ y \notin B
      BY <1>4, <1>5, <1>6, <1>9, <3>2
    <3>3. CASE x \notin B /\ y \in B
      BY <1>4, <1>5, <1>6, <1>9, <3>3
    <3>4. CASE x \notin B /\ y \notin B
      BY <1>6, <1>9, <3>4
    <3> QED BY <3>1, <3>2, <3>3, <3>4
  <2>2. \A x \in Waiting' : Reach(x) \cap (done \cup {c}) = {}
    BY <1>4, <1>5, <1>6, <1>9
  <2>3. c \notin done
    BY <1>4, <1>5, <1>6
  <2> QED BY <1>2, <1>9, <1>10, <1>11, <2>1, <2>2, <2>3 DEF Apart
<1>15. Covered'
  <2> SUFFICES ASSUME asked.kind # "conflicts"
               PROVE  Meant(asked) = done \cup {c} \cup UNION {Reach(x) : x \in Waiting'}
    BY <1>2, <1>10, <1>11 DEF Covered
  <2>1. Meant(asked) = done \cup UNION {Reach(x) : x \in Waiting}
    BY <1>2, <1>10 DEF IInv, Covered
  <2>2. UNION {Reach(x) : x \in Waiting} = {c} \cup UNION {Reach(x) : x \in Waiting'}
    <3>1. UNION {Reach(x) : x \in Waiting} =
            Reach(c) \cup UNION {Reach(x) : x \in Waiting \ {c}}
      BY <1>4
    <3>2. UNION {Reach(x) : x \in Waiting'} =
            (UNION {Reach(s) : s \in B}) \cup UNION {Reach(x) : x \in Waiting \ {c}}
      BY <1>9
    <3> QED BY <1>5, <3>1, <3>2
  <2> QED BY <2>1, <2>2
<1>16. Resting' /\ Books' /\ Histories'
  BY <1>2 DEF IInv, Resting, Books, Histories, history
<1>17. Prepared'
  BY <1>1, <1>12 DEF Prepared
<1>18. Written'
  BY <1>2, <1>12 DEF IInv, Written, Clean, history
<1>19. Unsolved'
  <2>1. Waiting \subseteq Waiting' \cup Rendering'
    BY <1>9, <1>10
  <2> QED BY <1>2, <1>10, <1>11, <1>12, <2>1 DEF IInv, Unsolved, Clean, history
<1>20. Idle'
  BY <1>2, <1>11, <1>12 DEF IInv, Idle, history
<1> QED
  BY <1>13, <1>14, <1>15, <1>16, <1>17, <1>18, <1>19, <1>20 DEF IInv

-----------------------------------------------------------------------------
(* A collection is counted. *)

Fields == {"updated", "unchanged", "errors"}

LEMMA CountedStep ==
  ASSUME IInv, NEW c \in All, Rendered(c), NEW field \in Fields, Counted(c, field),
         frames' = frames
  PROVE  /\ Resting' /\ Apart' /\ Covered' /\ Books'
         /\ result' \in [Fields -> Nat] /\ result'[field] = result[field] + 1
         /\ \A f \in Fields \ {field} : result'[f] = result[f]
         /\ done' \subseteq All /\ Waiting' = Waiting
         /\ Rendering = {c} /\ Rendering' = {} /\ ~settled /\ ~settled'
<1>1. /\ done' = done \cup {c} /\ result' = [result EXCEPT ![field] = @ + 1]
      /\ current' = NoCollection /\ content' = NoFile
      /\ UNCHANGED <<defs, source, asked, status, updates, edits, settled>>
      /\ status = "running" /\ current = c
  BY DEF Counted, Rendered
<1>2. Waiting' = Waiting
  BY DEF Waiting, Held
<1>3. Rendering = {c} /\ Rendering' = {}
  BY <1>1, TreeStands DEF Rendering, IInv, TypeOK
<1>4. result \in [Fields -> Nat] /\ done \subseteq All /\ ~settled
  BY <1>1 DEF IInv, TypeOK, Fields, Histories
<1>5. /\ result' \in [Fields -> Nat] /\ result'[field] = result[field] + 1
      /\ \A f \in Fields \ {field} : result'[f] = result[f]
  BY <1>1, <1>4
<1>6. \A x : Reach(x)' = Reach(x) /\ Meant(asked)' = Meant(asked)
  BY <1>1, StandStill
<1>7. c \notin done
  BY <1>3 DEF IInv, Apart
<1>8. Apart'
  <2>1. Parts(frames')
    BY DEF IInv, Apart
  <2> QED BY <1>1, <1>2, <1>3, <1>6, <2>1 DEF IInv, Apart
<1>9. Covered'
  BY <1>1, <1>2, <1>3, <1>6 DEF IInv, Covered
<1>10. Books'
  <2>1. IsFiniteSet(done) /\ result.updated + result.unchanged + result.errors = Cardinality(done)
    BY DEF IInv, Books
  <2>2. IsFiniteSet(done') /\ Cardinality(done') = Cardinality(done) + 1
    BY <1>1, <1>7, <2>1, FS_AddElement
  <2>3. result.updated \in Nat /\ result.unchanged \in Nat /\ result.errors \in Nat
    BY <1>4 DEF Fields
  <2>4. (result.updated + result.unchanged + result.errors)' =
          result.updated + result.unchanged + result.errors + 1
    <3>1. CASE field = "updated"
      BY <1>5, <2>3, <3>1 DEF Fields
    <3>2. CASE field = "unchanged"
      BY <1>5, <2>3, <3>2 DEF Fields
    <3>3. CASE field = "errors"
      BY <1>5, <2>3, <3>3 DEF Fields
    <3> QED BY <3>1, <3>2, <3>3 DEF Fields
  <2> QED BY <2>1, <2>2, <2>4 DEF Books
<1>11. Resting'
  BY <1>1 DEF Resting
<1> QED
  BY <1>1, <1>2, <1>3, <1>4, <1>5, <1>8, <1>9, <1>10, <1>11
LEMMA FileWritten ==
  ASSUME TypeOK, UNCHANGED <<defs, asked>>, NEW c \in All, NEW x,
         readmes' = [readmes EXCEPT ![defs[c].dir] = x],
         x \in {NoFile, Torn, Conflicted} \/ IsRendering(x)
  PROVE  /\ DOMAIN readmes' = DirPaths
         /\ \A d \in DirPaths :
              readmes'[d] \notin {NoFile, Torn, Conflicted} => IsRendering(readmes[d])'
         /\ \A d \in All :
              Readme(d)' = IF defs[d].dir = defs[c].dir THEN x ELSE Readme(d)
<1>1. DOMAIN readmes = DirPaths /\ \A d \in All : defs[d].dir \in DirPaths
  BY TreeStands DEF TypeOK, CollectionDef
<1>2. \A y : IsRendering(y)' <=> IsRendering(y)
  BY StandStill
<1>3. \A d \in DirPaths : readmes'[d] = IF d = defs[c].dir THEN x ELSE readmes[d]
  BY <1>1
<1>4. \A d \in All : Readme(d)' = IF defs[d].dir = defs[c].dir THEN x ELSE Readme(d)
  BY <1>1, <1>3 DEF Readme
<1>5. \A d \in DirPaths :
        readmes'[d] \notin {NoFile, Torn, Conflicted} => IsRendering(readmes'[d])
  BY <1>3 DEF TypeOK
<1> QED
  BY <1>1, <1>2, <1>3, <1>4, <1>5

\* The type invariant of a step that counts, whatever it writes.
LEMMA CountedTypes ==
  ASSUME IInv, NEW c \in All, Rendered(c), NEW field \in Fields, Counted(c, field),
         frames' = frames,
         DOMAIN readmes' = DirPaths,
         \A d \in DirPaths :
           readmes'[d] \notin {NoFile, Torn, Conflicted} => IsRendering(readmes[d])'
  PROVE  TypeOK'
<1>1. /\ result' \in [Fields -> Nat] /\ done' \subseteq All
  BY CountedStep
<1>2. /\ UNCHANGED <<defs, source, asked, status>> /\ current' = NoCollection
  BY DEF Counted
<1>3. All' = All /\ Previewed' = Previewed
  BY <1>2, StandStill
<1> QED
  BY <1>1, <1>2, <1>3 DEF IInv, TypeOK, Fields

\* After a README is what was rendered.
LEMMA ProcessedStep ==
  ASSUME IInv, NEW c \in All, Rendered(c), NEW field \in {"updated", "unchanged"},
         Counted(c, field), frames' = frames,
         DOMAIN readmes' = DirPaths,
         \A d \in DirPaths :
           readmes'[d] \notin {NoFile, Torn, Conflicted} => IsRendering(readmes[d])',
         \A d \in All :
           Readme(d)' = IF defs[d].dir = defs[c].dir THEN content ELSE Readme(d),
         fresh' = fresh, noop' => noop, Idle'
  PROVE  IInv'
<1>1. /\ UNCHANGED <<defs, source, asked, status>> /\ current' = NoCollection
      /\ done' = done \cup {c} /\ status = "running" /\ current = c
  BY DEF Counted, Rendered
<1>2. /\ Resting' /\ Apart' /\ Covered' /\ Books'
      /\ result' \in [Fields -> Nat]
      /\ result'.errors = result.errors
      /\ Waiting' = Waiting /\ Rendering = {c} /\ Rendering' = {} /\ ~settled /\ ~settled'
  BY CountedStep DEF Fields
<1>3. IsRendering(content) /\ content # Conflicted
  BY <1>1, RenderingIsNoMarker, TreeStands DEF IInv, TypeOK
<1>4. \A d \in All :
        Readme(d)' = IF defs[d].dir = defs[c].dir THEN content ELSE Readme(d)
  OBVIOUS
<1>5. TypeOK'
  BY CountedTypes DEF Fields
<1>6. Histories'
  BY <1>1, <1>2 DEF IInv, Histories
<1>7. Prepared'
  BY <1>1 DEF Prepared
<1>8. Clean' => Clean /\ content \in RenderingsNow(c)
  BY <1>1, <1>2, TreeStands DEF Clean, IInv, Prepared, TypeOK
<1>9. \A x : RenderingsNow(x)' = RenderingsNow(x)
  BY <1>1, SourcesStand
<1>10. Written'
  <2> SUFFICES ASSUME Clean, content \in RenderingsNow(c), NEW x \in done \cup {c}
               PROVE  \E d \in done \cup {c} : /\ defs[d].dir = defs[x].dir
                                               /\ Readme(x)' \in RenderingsNow(d)
    BY <1>1, <1>8, <1>9 DEF Written
  <2>1. CASE defs[x].dir = defs[c].dir
    BY <1>4, <2>1 DEF IInv, TypeOK
  <2>2. CASE defs[x].dir # defs[c].dir
    BY <1>4, <2>2 DEF IInv, TypeOK, Written
  <2> QED BY <2>1, <2>2
<1>11. Unsolved'
  <2> SUFFICES ASSUME Clean, asked.kind = "conflicts", NEW x \in All, Readme(x)' = Conflicted
               PROVE  \E d \in Waiting : defs[d].dir = defs[x].dir
    BY <1>1, <1>2, <1>8 DEF Unsolved, All
  <2>1. defs[x].dir # defs[c].dir /\ Readme(x) = Conflicted
    BY <1>3, <1>4
  <2> QED BY <1>2, <2>1 DEF IInv, Unsolved
<1> QED
  BY <1>2, <1>5, <1>6, <1>7, <1>10, <1>11 DEF IInv

LEMMA RenderedStep ==
  ASSUME IInv, NEW c \in All, Rendered(c), Counted(c, "updated"), frames' = frames,
         readmes' = [readmes EXCEPT ![defs[c].dir] = content],
         fresh' = fresh, noop' => noop, Idle'
  PROVE  IInv'
<1>1. IsRendering(content)
  BY TreeStands DEF Rendered, IInv, TypeOK
<1>2. UNCHANGED <<defs, asked>>
  BY DEF Counted
<1>3. /\ DOMAIN readmes' = DirPaths
      /\ \A d \in DirPaths :
           readmes'[d] \notin {NoFile, Torn, Conflicted} => IsRendering(readmes[d])'
      /\ \A d \in All :
           Readme(d)' = IF defs[d].dir = defs[c].dir THEN content ELSE Readme(d)
  BY <1>1, <1>2, FileWritten DEF IInv
<1> QED
  BY <1>3, ProcessedStep

\* What an idle update meets is what it would write.
LEMMA IdleIsUpToDate ==
  ASSUME IInv, NEW c \in All, Rendered(c), noop,
         \A d \in Meant(asked) : Settled(d) /\ Alone(d)
  PROVE  Readme(c) = content
<1>1. status = "running" /\ current = c /\ current # NoCollection /\ Rendering = {c}
  BY TreeStands DEF Rendered, Rendering, IInv, TypeOK
<1>2. fresh /\ asked.kind # "conflicts"
  BY DEF IInv, Histories
<1>3. c \in Meant(asked)
  BY <1>1, <1>2 DEF IInv, Covered
<1>4. content \in RenderingsNow(c) /\ Readme(c) \in RenderingsNow(c)
  BY <1>1, <1>2, <1>3 DEF IInv, Prepared, Idle
<1> QED
  BY <1>3, <1>4, NowIsRendering DEF IInv

LEMMA KeepReadmeStep ==
  ASSUME IInv, KeepReadme
  PROVE  IInv'
<1>1. PICK c \in All : /\ Rendered(c) /\ Readme(c) = content
                       /\ Counted(c, "unchanged")
                       /\ UNCHANGED <<readmes, frames, faults, fresh, noop>>
  BY DEF KeepReadme
<1>2. UNCHANGED <<defs, source, asked, readmes>>
  BY <1>1 DEF Counted
<1>3. /\ DOMAIN readmes' = DirPaths
      /\ \A d \in DirPaths :
           readmes'[d] \notin {NoFile, Torn, Conflicted} => IsRendering(readmes[d])'
      /\ \A d \in All :
           Readme(d)' = IF defs[d].dir = defs[c].dir THEN content ELSE Readme(d)
  <2>1. \A d \in All : defs[d].dir = defs[c].dir => Readme(d) = content
    BY <1>1 DEF Readme
  <2> QED BY <1>1, <1>2, <2>1, StandStill, FilesStand DEF IInv, TypeOK
<1>4. Idle'
  <2>1. /\ \A f \in Fields \ {"unchanged"} : result'[f] = result[f]
    BY <1>1, CountedStep DEF Fields
  <2>2. result'.updated = result.updated /\ result'.errors = result.errors
    BY <2>1 DEF Fields
  <2>3. (\A d \in Meant(asked) : Settled(d) /\ Alone(d))' =>
          \A d \in Meant(asked) : Settled(d) /\ Alone(d)
    BY <1>2, StandStill
  <2> QED BY <1>1, <1>2, <2>2, <2>3, SourcesStand, FilesStand, StandStill DEF IInv, Idle
<1> QED
  BY <1>1, <1>3, <1>4, ProcessedStep

LEMMA WriteReadmeStep ==
  ASSUME IInv, WriteReadme
  PROVE  IInv'
<1>1. PICK c \in All : /\ Rendered(c) /\ Readme(c) # content
                       /\ readmes' = [readmes EXCEPT ![defs[c].dir] = content]
                       /\ Counted(c, "updated")
                       /\ UNCHANGED <<frames, faults, fresh, noop>>
  BY DEF WriteReadme
<1>2. Idle'
  <2>1. UNCHANGED <<defs, source, asked>>
    BY <1>1 DEF Counted
  <2>2. ~(noop /\ \A d \in Meant(asked) : Settled(d) /\ Alone(d))
    BY <1>1, IdleIsUpToDate
  <2> QED BY <1>1, <2>1, <2>2, StandStill DEF Idle
<1> QED
  BY <1>1, <1>2, RenderedStep

LEMMA RewriteUnreadableStep ==
  ASSUME IInv, RewriteUnreadable
  PROVE  IInv'
<1>1. PICK c \in All : /\ Rendered(c)
                       /\ readmes' = [readmes EXCEPT ![defs[c].dir] = content]
                       /\ Counted(c, "updated")
  BY DEF RewriteUnreadable
<1>2. frames' = frames /\ fresh' = fresh /\ noop' = FALSE
  BY DEF RewriteUnreadable, Fault
<1> QED
  BY <1>1, <1>2, RenderedStep DEF Idle

LEMMA ProcessFailsStep ==
  ASSUME IInv, ProcessFails
  PROVE  IInv'
<1>1. PICK c \in All :
        /\ Rendered(c)
        /\ \/ UNCHANGED readmes
           \/ readmes' = [readmes EXCEPT ![defs[c].dir] = Torn]
        /\ Counted(c, "errors")
  BY DEF ProcessFails
<1>2. frames' = frames /\ fresh' = fresh /\ noop' = FALSE
  BY DEF ProcessFails, Fault
<1>3. /\ Resting' /\ Apart' /\ Covered' /\ Books'
      /\ result \in [Fields -> Nat] /\ result'.errors = result.errors + 1
      /\ ~settled /\ ~settled'
  BY <1>1, <1>2, CountedStep DEF Fields, IInv, TypeOK
<1>4. UNCHANGED <<defs, asked>>
  BY <1>1 DEF Counted
<1>5. /\ DOMAIN readmes' = DirPaths
      /\ \A d \in DirPaths :
           readmes'[d] \notin {NoFile, Torn, Conflicted} => IsRendering(readmes[d])'
  <2>1. CASE UNCHANGED readmes
    BY <1>4, <2>1, StandStill DEF IInv, TypeOK
  <2>2. CASE readmes' = [readmes EXCEPT ![defs[c].dir] = Torn]
    BY <1>4, <2>2, FileWritten DEF IInv
  <2> QED BY <1>1, <2>1, <2>2
<1>6. TypeOK'
  BY <1>1, <1>2, <1>5, CountedTypes DEF Fields
<1>7. ~Clean'
  BY <1>3 DEF Clean, Fields
<1>8. current' = NoCollection
  BY <1>1 DEF Counted
<1> QED
  BY <1>2, <1>3, <1>6, <1>7, <1>8 DEF IInv, Histories, Prepared, Written, Unsolved, Idle

-----------------------------------------------------------------------------
(* An update ends, and what happens around it. *)

LEMMA EndStep ==
  ASSUME IInv, status = "running", NEW how \in {"returned", "crashed"}, End(how)
  PROVE  /\ Resting' /\ Apart' /\ Books' /\ Prepared'
         /\ Waiting' = {} /\ Rendering' = {} /\ ~settled
<1>1. /\ frames' = <<>> /\ current' = NoCollection /\ status' = how
      /\ UNCHANGED <<done, result>>
  BY DEF End
<1>2. Waiting' = {} /\ Rendering' = {} /\ Parts(frames')
  BY <1>1 DEF Waiting, Held, Rendering, Parts
<1> QED
  BY <1>1, <1>2 DEF IInv, Resting, Apart, Books, Prepared, Histories

LEMMA EndTypes ==
  ASSUME IInv, NEW how \in {"returned", "crashed"}, End(how),
         DOMAIN readmes' = DirPaths,
         \A d \in DirPaths :
           readmes'[d] \notin {NoFile, Torn, Conflicted} => IsRendering(readmes[d])'
  PROVE  TypeOK'
<1>1. /\ frames' = <<>> /\ current' = NoCollection /\ status' = how
      /\ UNCHANGED <<defs, source, asked, done, result>>
  BY DEF End
<1>2. All' = All /\ Previewed' = Previewed
  BY <1>1, StandStill
<1> QED
  BY <1>1, <1>2 DEF IInv, TypeOK

LEMMA ReturnStep ==
  ASSUME IInv, Return
  PROVE  IInv'
<1>1. /\ status = "running" /\ current = NoCollection /\ frames \in {<<>>, <<{}>>}
      /\ End("returned") /\ settled' = (fresh /\ result.errors = 0) /\ UNCHANGED readmes
  BY DEF Return
<1>2. /\ UNCHANGED <<defs, source, asked, done, result, fresh, noop>> /\ status' = "returned"
  BY <1>1 DEF End
<1>3. /\ Resting' /\ Apart' /\ Books' /\ Prepared'
      /\ Waiting' = {} /\ Rendering' = {}
  BY <1>1, EndStep
<1>4. Waiting = {} /\ Rendering = {}
  <2>1. CASE frames = <<>>
    BY <1>1, <2>1 DEF Waiting, Held, Rendering
  <2>2. CASE frames = <<{}>>
    BY <1>1, <2>2 DEF Waiting, Held, Rendering
  <2> QED BY <1>1, <2>1, <2>2
<1>5. TypeOK'
  BY <1>1, <1>2, EndTypes, StandStill DEF IInv, TypeOK
<1>6. Covered'
  BY <1>1, <1>2, <1>3, <1>4, StandStill DEF IInv, Covered
<1>7. Histories'
  BY <1>1, <1>2 DEF IInv, Histories
<1>8. Clean' => Clean
  BY <1>1, <1>2 DEF Clean
<1>9. /\ \A c : RenderingsNow(c)' = RenderingsNow(c)
      /\ \A c : Readme(c)' = Readme(c)
  BY <1>1, <1>2, SourcesStand, FilesStand
<1>10. Written'
  BY <1>2, <1>8, <1>9 DEF IInv, Written
<1>11. Unsolved'
  BY <1>2, <1>3, <1>4, <1>8, <1>9, StandStill DEF IInv, Unsolved
<1>12. Idle'
  BY <1>2, <1>9, StandStill DEF IInv, Idle
<1> QED
  BY <1>3, <1>5, <1>6, <1>7, <1>10, <1>11, <1>12 DEF IInv

LEMMA CrashStep ==
  ASSUME IInv, Crash
  PROVE  IInv'
<1>1. /\ status = "running" /\ End("crashed") /\ settled' = settled
      /\ \/ UNCHANGED readmes
         \/ \E c \in All : /\ Rendered(c) /\ Readme(c) # content
                           /\ readmes' = [readmes EXCEPT ![defs[c].dir] = Torn]
  BY DEF Crash
<1>2. /\ UNCHANGED <<defs, source, asked, done, result, fresh, noop>> /\ status' = "crashed"
  BY <1>1 DEF End
<1>3. /\ Resting' /\ Apart' /\ Books' /\ Prepared' /\ ~settled
  BY <1>1, EndStep
<1>4. /\ DOMAIN readmes' = DirPaths
      /\ \A d \in DirPaths :
           readmes'[d] \notin {NoFile, Torn, Conflicted} => IsRendering(readmes[d])'
  <2>1. CASE UNCHANGED readmes
    BY <1>2, <2>1, StandStill DEF IInv, TypeOK
  <2>2. CASE \E c \in All : readmes' = [readmes EXCEPT ![defs[c].dir] = Torn]
    BY <1>2, <2>2, FileWritten DEF IInv
  <2> QED BY <1>1, <2>1, <2>2
<1>5. TypeOK'
  BY <1>1, <1>4, EndTypes
<1>6. ~Clean'
  BY <1>1, <1>2, <1>3 DEF Clean
<1>7. Covered' /\ Histories'
  BY <1>1, <1>2, <1>3 DEF Covered, IInv, Histories
<1>8. Idle'
  <2>1. CASE UNCHANGED readmes
    BY <1>2, <2>1, StandStill, SourcesStand, FilesStand DEF IInv, Idle
  <2>2. CASE \E c \in All : Rendered(c) /\ Readme(c) # content
    <3>1. ~(noop /\ \A d \in Meant(asked) : Settled(d) /\ Alone(d))
      BY <2>2, IdleIsUpToDate
    <3> QED BY <1>2, <3>1, StandStill DEF Idle
  <2> QED BY <1>1, <2>1, <2>2
<1> QED
  BY <1>3, <1>5, <1>6, <1>7, <1>8 DEF IInv, Written, Unsolved

LEMMA EditStep ==
  ASSUME IInv, Edit
  PROVE  IInv'
<1>1. /\ fresh' = FALSE /\ settled' = FALSE /\ noop' = FALSE
      /\ UNCHANGED <<defs, asked, frames, current, content, done, result, status>>
  BY DEF Edit, Disturb
<1>2. \/ /\ \E c \in Previewed, row \in Rows :
              source' = [source EXCEPT ![c] = IF row \in @ THEN @ \ {row} ELSE @ \cup {row}]
         /\ UNCHANGED readmes
      \/ /\ \E d \in DirPaths : readmes' = [readmes EXCEPT ![d] = Conflicted]
         /\ UNCHANGED source
  BY DEF Edit
<1>3. /\ All' = All /\ Previewed' = Previewed /\ Meant(asked)' = Meant(asked)
      /\ \A c : Reach(c)' = Reach(c)
      /\ \A x : IsRendering(x)' <=> IsRendering(x)
  BY <1>1, StandStill
<1>4. TypeOK'
  <2>1. source' \in [Previewed -> SUBSET Rows]
    BY <1>2 DEF IInv, TypeOK
  <2>2. /\ DOMAIN readmes' = DirPaths
        /\ \A d \in DirPaths :
             readmes'[d] \notin {NoFile, Torn, Conflicted} => IsRendering(readmes'[d])
    BY <1>2 DEF IInv, TypeOK
  <2> QED BY <1>1, <1>3, <2>1, <2>2 DEF IInv, TypeOK
<1>5. Waiting' = Waiting /\ Rendering' = Rendering /\ (Parts(frames)' <=> Parts(frames))
  BY <1>1 DEF Waiting, Held, Rendering, Parts
<1>6. Apart' /\ Covered'
  BY <1>1, <1>3, <1>5 DEF IInv, Apart, Covered
<1>7. Resting' /\ Books'
  BY <1>1 DEF IInv, Resting, Books
<1> QED
  BY <1>1, <1>4, <1>6, <1>7
  DEF IInv, Histories, Prepared, Written, Unsolved, Idle, Clean

LEMMA StutterStep ==
  ASSUME IInv, UNCHANGED vars
  PROVE  IInv'
<1>1. /\ UNCHANGED <<defs, source, readmes, asked, frames, current, content, done, result,
                     status, fresh, settled, noop>>
  BY DEF vars, history
<1>2. /\ All' = All /\ Previewed' = Previewed /\ Meant(asked)' = Meant(asked)
      /\ \A c : Reach(c)' = Reach(c)
      /\ \A c : Settled(c)' <=> Settled(c)
      /\ \A c : Alone(c)' <=> Alone(c)
      /\ \A x : IsRendering(x)' <=> IsRendering(x)
  BY <1>1, StandStill
<1>3. /\ \A c : RenderingsNow(c)' = RenderingsNow(c)
      /\ \A c : Readme(c)' = Readme(c)
  BY <1>1, SourcesStand, FilesStand
<1>4. Waiting' = Waiting /\ Rendering' = Rendering /\ (Parts(frames)' <=> Parts(frames))
  BY <1>1 DEF Waiting, Held, Rendering, Parts
<1>5. TypeOK'
  BY <1>1, <1>2 DEF IInv, TypeOK
<1>6. Apart' /\ Covered' /\ Books' /\ Resting' /\ Histories'
  BY <1>1, <1>2, <1>4 DEF IInv, Apart, Covered, Books, Resting, Histories
<1>7. Prepared' /\ Written' /\ Unsolved' /\ Idle'
  BY <1>1, <1>2, <1>3, <1>4 DEF IInv, Prepared, Written, Unsolved, Idle, Clean
<1> QED
  BY <1>5, <1>6, <1>7 DEF IInv

-----------------------------------------------------------------------------
(* The theorems. *)

LEMMA Initially ==
  ASSUME Init
  PROVE  IInv
<1> USE DEF Init
<1>1. TypeOK
  BY DEF TypeOK, NoResult
<1>2. Waiting = {} /\ Rendering = {} /\ Parts(frames)
  BY DEF Waiting, Held, Rendering, Parts
<1>3. Books
  BY FS_EmptySet DEF Books, NoResult
<1> QED
  BY <1>1, <1>2, <1>3 DEF IInv, Apart, Covered, Resting, Histories, Prepared, Written,
                          Unsolved, Idle, Clean

LEMMA Inductiveness ==
  ASSUME IInv, [Next]_vars
  PROVE  IInv'
BY UpdateDocsStep, ResolveConflictsStep, RenderReadmeStep, KeepReadmeStep, WriteReadmeStep,
   ReturnStep, ProcessFailsStep, RewriteUnreadableStep, CrashStep, EditStep, StutterStep
DEF Next, UpdateStep

LEMMA Invariance == Spec => []IInv
<1>1. Init => IInv
  BY Initially
<1>2. IInv /\ [Next]_vars => IInv'
  BY Inductiveness
<1> QED
  BY <1>1, <1>2, PTL DEF Spec

\* Every variable of an update keeps its type, for any tree of collections,
\* patterns and faults: what is written is a rendering of a collection.
THEOREM TypeCorrect == Spec => []TypeOK
<1>1. IInv => TypeOK
  BY DEF IInv
<1> QED
  BY <1>1, Invariance, PTL

\* UpdateDocs processes exactly the collections its pattern means, each once,
\* whatever the order of the maps and whichever of them fail.
THEOREM TargetsOnce == Spec => []EachTargetOnce
<1>1. IInv => EachTargetOnce
  <2> SUFFICES ASSUME IInv, status = "returned", asked.kind # "conflicts"
               PROVE  /\ done = Meant(asked)
                      /\ result.updated + result.unchanged + result.errors = Cardinality(done)
    BY DEF EachTargetOnce
  <2>1. frames = <<>> /\ current = NoCollection
    BY DEF IInv, Resting
  <2>2. Waiting = {} /\ Rendering = {}
    BY <2>1 DEF Waiting, Held, Rendering
  <2> QED BY <2>2 DEF IInv, Covered, Books
<1> QED
  BY <1>1, Invariance, PTL

\* A clean update over records that stood still leaves current READMEs in all
\* directories it wrote to, whatever earlier failures and crashes tore.
THEOREM CleanUpdateStands == Spec => []CleanUpdateIsCurrent
<1>1. IInv => CleanUpdateIsCurrent
  BY DEF IInv, Written, Clean, CleanUpdateIsCurrent
<1> QED
  BY <1>1, Invariance, PTL

\* Updating again what a clean update left writes nothing, unless a README is
\* left to chance or shared.
THEOREM SecondUpdateWritesNothing == Spec => []SecondUpdateIsNoOp
<1>1. IInv => SecondUpdateIsNoOp
  BY DEF IInv, Idle, SecondUpdateIsNoOp
<1> QED
  BY <1>1, Invariance, PTL

\* Resolving conflicts without an error leaves no collection's README in
\* conflict, however collections share directories.
THEOREM ConflictsGo == Spec => []ConflictsAreResolved
<1>1. IInv => ConflictsAreResolved
  <2> SUFFICES ASSUME IInv, settled, asked.kind = "conflicts",
                      NEW c \in All, Readme(c) = Conflicted
               PROVE  FALSE
    BY DEF ConflictsAreResolved
  <2>1. frames = <<>> /\ current = NoCollection
    BY DEF IInv, Resting, Histories
  <2>2. Waiting = {} /\ Rendering = {}
    BY <2>1 DEF Waiting, Held, Rendering
  <2> QED BY <2>2 DEF IInv, Unsolved, Clean
<1> QED
  BY <1>1, Invariance, PTL
=============================================================================
