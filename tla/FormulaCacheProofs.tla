------------------------- MODULE FormulaCacheProofs -------------------------
(***************************************************************************)
(* Theorems about FormulaCache, for any callers, sources and names.        *)
(***************************************************************************)
EXTENDS FormulaCache, TLAPS

-----------------------------------------------------------------------------
(* Typing. *)

States == {Idle} \cup [step : {"load", "compile", "store", "done"}, request : Requests,
                       program : Programs \cup {NoProgram}]

\* The key of a request is a request of its own, and a fresh compilation of it
\* ends as one of the request does.
LEMMA KeyOfRequest ==
  ASSUME NEW request \in Requests
  PROVE  /\ CacheKey(request) \in Requests
         /\ CacheKey(request).source = request.source
         /\ CacheKey(CacheKey(request)) = CacheKey(request)
         /\ Compiles(CacheKey(request)) <=> Compiles(request)
BY DEF CacheKey, Requests, Compiles

\* A caller that is not idle has a request.
LEMMA Busy ==
  ASSUME CacheTypeOK, NEW c \in Callers, calls[c].step # "idle"
  PROVE  calls[c] \in [step : {"load", "compile", "store", "done"}, request : Requests,
                       program : Programs \cup {NoProgram}]
BY DEF CacheTypeOK, Idle

-----------------------------------------------------------------------------
(* The inductive invariant. *)

Request(c) == calls[c].request
KeyOf(c)   == CacheKey(calls[c].request)
Compiled(c) == [source |-> calls[c].request.source, by |-> c]

\* whoever is about to store has compiled its own request
StoresCompiled ==
  \A c \in Callers : calls[c].step = "store" =>
    Compiles(Request(c)) /\ calls[c].program = Compiled(c)

\* what is cached compiles, and is a program of its key's formula
EntriesCompile ==
  \A e \in cache : Compiles(e.key) /\ e.program.source = e.key.source
KeysAreUnique == \A e, f \in cache : e.key = f.key => e = f

\* no key holds more of its request than it needs
KeysAreReduced == \A e \in cache : CacheKey(e.key) = e.key

\* whoever is done has an error of its own, or the program that is cached
AnswersHold ==
  \A c \in Callers : calls[c].step = "done" =>
    \/ ~Compiles(Request(c)) /\ calls[c].program = NoProgram
    \/ Compiles(Request(c)) /\ Entry(KeyOf(c), calls[c].program) \in cache

CacheInv == /\ CacheTypeOK /\ StoresCompiled /\ EntriesCompile
            /\ KeysAreUnique /\ KeysAreReduced /\ AnswersHold

\* What a caller finds under its key compiles, and is a program of its formula.
LEMMA Hit ==
  ASSUME CacheTypeOK, EntriesCompile, NEW c \in Callers, calls[c] \in States \ {Idle},
         NEW program \in Cached(KeyOf(c))
  PROVE  /\ program \in Programs
         /\ Entry(KeyOf(c), program) \in cache
         /\ Compiles(Request(c))
         /\ program.source = Request(c).source
<1>1. PICK e \in cache : e.key = KeyOf(c) /\ e.program = program
  BY DEF Cached
<1>2. e \in [key : Requests, program : Programs]
  BY DEF CacheTypeOK
<1>3. e = Entry(KeyOf(c), program)
  BY <1>1, <1>2 DEF Entry
<1>4. Request(c) \in Requests
  BY DEF States, Request
<1> QED BY <1>1, <1>2, <1>3, <1>4, KeyOfRequest DEF EntriesCompile, KeyOf, Request

\* One caller moves and the cache stays: the others keep what they have.
LEMMA OneMoves ==
  ASSUME CacheInv, NEW c \in Callers, UNCHANGED cache, NEW call \in States,
         calls' = [calls EXCEPT ![c] = call],
         call.step = "store" =>
           /\ Compiles(call.request)
           /\ call.program = [source |-> call.request.source, by |-> c],
         call.step = "done" =>
           \/ ~Compiles(call.request) /\ call.program = NoProgram
           \/ Compiles(call.request) /\ Entry(CacheKey(call.request), call.program) \in cache
  PROVE  CacheInv'
<1>1. CacheTypeOK'
  BY DEF CacheInv, CacheTypeOK, States
<1>2. StoresCompiled'
  BY DEF CacheInv, CacheTypeOK, StoresCompiled, Compiled, Request
<1>3. EntriesCompile' /\ KeysAreUnique' /\ KeysAreReduced'
  BY DEF CacheInv, EntriesCompile, KeysAreUnique, KeysAreReduced
<1>4. AnswersHold'
  BY DEF CacheInv, CacheTypeOK, AnswersHold, KeyOf, Request
<1> QED BY <1>1, <1>2, <1>3, <1>4 DEF CacheInv

LEMMA CacheInvInductive == CacheInv /\ [CacheNext]_cacheVars => CacheInv'
<1> SUFFICES ASSUME CacheInv, [CacheNext]_cacheVars PROVE CacheInv'
  OBVIOUS
<1>1. ASSUME NEW c \in Callers, NEW request \in Requests, Ask(c, request)
      PROVE  CacheInv'
  <2> DEFINE call == Call("load", request, NoProgram)
  <2>1. call \in States
    BY DEF Call, States
  <2>2. calls' = [calls EXCEPT ![c] = call] /\ UNCHANGED cache /\ call.step = "load"
    BY <1>1 DEF Ask, Call
  <2> QED BY <2>1, <2>2, OneMoves
<1>2. ASSUME NEW c \in Callers, Load(c) PROVE CacheInv'
  <2>1. calls[c] \in States \ {Idle}
    BY <1>2, Busy DEF Load, States, Idle, CacheInv
  <2>2. CASE Advance(c, "compile", NoProgram)
    <3> DEFINE call == Call("compile", Request(c), NoProgram)
    <3>1. call \in States
      BY <2>1 DEF Call, States, Request
    <3>2. calls' = [calls EXCEPT ![c] = call] /\ UNCHANGED cache /\ call.step = "compile"
      BY <1>2, <2>2 DEF Load, Advance, Call, Request, CacheInv, CacheTypeOK
    <3> QED BY <3>1, <3>2, OneMoves
  <2>3. ASSUME NEW program \in Cached(KeyOf(c)), Advance(c, "done", program)
        PROVE  CacheInv'
    <3> DEFINE call == Call("done", Request(c), program)
    <3>1. /\ program \in Programs /\ Compiles(Request(c))
          /\ Entry(KeyOf(c), program) \in cache
      BY <2>1, Hit DEF CacheInv
    <3>2. call \in States
      BY <2>1, <3>1 DEF Call, States, Request
    <3>3. calls' = [calls EXCEPT ![c] = call] /\ UNCHANGED cache
      BY <1>2, <2>3 DEF Load, Advance, Call, Request, CacheInv, CacheTypeOK
    <3>4. call.step = "done" /\ call.request = Request(c) /\ call.program = program
      BY DEF Call
    <3> QED BY <3>1, <3>2, <3>3, <3>4, OneMoves DEF KeyOf, Request
  <2> QED BY <1>2, <2>2, <2>3 DEF Load, KeyOf
<1>3. ASSUME NEW c \in Callers, Compile(c) PROVE CacheInv'
  <2>1. calls[c] \in States \ {Idle}
    BY <1>3, Busy DEF Compile, States, Idle, CacheInv
  <2>2. CASE ~Compiles(Request(c)) /\ Advance(c, "done", NoProgram)
    <3> DEFINE call == Call("done", Request(c), NoProgram)
    <3>1. call \in States
      BY <2>1 DEF Call, States, Request
    <3>2. calls' = [calls EXCEPT ![c] = call] /\ UNCHANGED cache
      BY <1>3, <2>2 DEF Compile, Advance, Call, Request, CacheInv, CacheTypeOK
    <3>3. call.step = "done" /\ call.request = Request(c) /\ call.program = NoProgram
      BY DEF Call
    <3> QED BY <2>2, <3>1, <3>2, <3>3, OneMoves
  <2>3. CASE Compiles(Request(c)) /\ Advance(c, "store", Compiled(c))
    <3> DEFINE call == Call("store", Request(c), Compiled(c))
    <3>1. call \in States
      BY <2>1 DEF Call, States, Request, Compiled, Requests, Programs
    <3>2. calls' = [calls EXCEPT ![c] = call] /\ UNCHANGED cache
      BY <1>3, <2>3 DEF Compile, Advance, Call, Request, CacheInv, CacheTypeOK
    <3>3. call.step = "store" /\ call.request = Request(c) /\ call.program = Compiled(c)
      BY DEF Call
    <3> QED BY <2>3, <3>1, <3>2, <3>3, OneMoves DEF Compiled, Request
  <2> QED BY <1>3, <2>2, <2>3 DEF Compile, Request, Compiled
<1>4. ASSUME NEW c \in Callers, LoadOrStore(c) PROVE CacheInv'
  <2>1. calls[c] \in States \ {Idle}
    BY <1>4, Busy DEF LoadOrStore, States, Idle, CacheInv
  <2>2. ASSUME NEW program \in Cached(KeyOf(c)), Advance(c, "done", program),
               UNCHANGED cache
        PROVE  CacheInv'
    <3> DEFINE call == Call("done", Request(c), program)
    <3>1. /\ program \in Programs /\ Compiles(Request(c))
          /\ Entry(KeyOf(c), program) \in cache
      BY <2>1, Hit DEF CacheInv
    <3>2. call \in States
      BY <2>1, <3>1 DEF Call, States, Request
    <3>3. calls' = [calls EXCEPT ![c] = call]
      BY <2>2 DEF Advance, Call, Request, CacheInv, CacheTypeOK
    <3>4. call.step = "done" /\ call.request = Request(c) /\ call.program = program
      BY DEF Call
    <3> QED BY <2>2, <3>1, <3>2, <3>3, <3>4, OneMoves DEF KeyOf, Request
  <2>3. ASSUME Cached(KeyOf(c)) = {}, Advance(c, "done", calls[c].program),
               cache' = cache \cup {Entry(KeyOf(c), calls[c].program)}
        PROVE  CacheInv'
    <3> DEFINE entry == Entry(KeyOf(c), Compiled(c))
               call  == Call("done", Request(c), Compiled(c))
    <3>1. Compiles(Request(c)) /\ calls[c].program = Compiled(c)
      BY <1>4 DEF LoadOrStore, CacheInv, StoresCompiled
    <3>2. Request(c) \in Requests /\ Compiled(c) \in Programs
      BY <2>1 DEF States, Request, Compiled, Requests, Programs
    <3>3. cache' = cache \cup {entry} /\ entry \in [key : Requests, program : Programs]
      BY <2>3, <3>1, <3>2, KeyOfRequest DEF Entry, KeyOf, Request
    <3>4. calls' = [calls EXCEPT ![c] = call] /\ call \in States
      BY <2>3, <3>1, <3>2 DEF Advance, Call, Request, States, CacheInv, CacheTypeOK
    <3>5. call.step = "done" /\ call.request = Request(c) /\ call.program = Compiled(c)
      BY DEF Call
    <3>6. entry.key = KeyOf(c) /\ entry.program = Compiled(c)
      BY DEF Entry
    <3> HIDE DEF entry, call
    <3>7. CacheTypeOK'
      BY <3>3, <3>4 DEF CacheInv, CacheTypeOK, States
    <3>8. StoresCompiled'
      BY <3>4, <3>5 DEF CacheInv, CacheTypeOK, StoresCompiled, Compiled, Request
    <3>9. EntriesCompile'
      BY <3>1, <3>2, <3>3, <3>6, KeyOfRequest DEF CacheInv, EntriesCompile, KeyOf, Request, Compiled
    <3>10. KeysAreUnique'
      BY <2>3, <3>3, <3>6 DEF CacheInv, KeysAreUnique, Cached
    <3>11. KeysAreReduced'
      BY <3>2, <3>3, <3>6, KeyOfRequest DEF CacheInv, KeysAreReduced, KeyOf, Request
    <3>12. Entry(KeyOf(c), Compiled(c)) \in cache'
      BY <3>3 DEF entry
    <3>13. AnswersHold'
      BY <3>1, <3>3, <3>4, <3>5, <3>12
      DEF CacheInv, CacheTypeOK, AnswersHold, KeyOf, Request, Compiled
    <3> QED BY <3>7, <3>8, <3>9, <3>10, <3>11, <3>13 DEF CacheInv
  <2> QED BY <1>4, <2>2, <2>3 DEF LoadOrStore, KeyOf
<1>5. ASSUME NEW c \in Callers, Finish(c) PROVE CacheInv'
  <2>1. Idle \in States /\ Idle.step = "idle"
    BY DEF States, Idle
  <2> QED BY <1>5, <2>1, OneMoves DEF Finish
<1>6. ASSUME UNCHANGED cacheVars PROVE CacheInv'
  BY <1>6 DEF cacheVars, CacheInv, CacheTypeOK, StoresCompiled, EntriesCompile,
              KeysAreUnique, KeysAreReduced, AnswersHold, Request, KeyOf, Compiled
<1> QED BY <1>1, <1>2, <1>3, <1>4, <1>5, <1>6 DEF CacheNext, CompileStep

LEMMA CacheInvHoldsAtFirst == CacheInit => CacheInv
BY DEF CacheInit, CacheInv, CacheTypeOK, StoresCompiled, EntriesCompile, KeysAreUnique,
       KeysAreReduced, AnswersHold, Idle

LEMMA CacheInvHolds == CacheSpec => []CacheInv
BY CacheInvHoldsAtFirst, CacheInvInductive, PTL DEF CacheSpec

-----------------------------------------------------------------------------
(* What the invariant says of answers. *)

\* Whoever is done has a program exactly when its own request compiles.
LEMMA InvGivesVerdicts == CacheInv => VerdictIsItsOwn
<1>1. ASSUME CacheInv, NEW c \in Callers, calls[c].step = "done"
      PROVE  /\ calls[c].program # NoProgram <=> Compiles(calls[c].request)
             /\ calls[c].program # NoProgram =>
                  calls[c].program.source = calls[c].request.source
  <2>1. calls[c] \in States \ {Idle}
    BY <1>1, Busy DEF States, Idle, CacheInv
  <2>2. CASE ~Compiles(Request(c)) /\ calls[c].program = NoProgram
    BY <2>2 DEF Request
  <2>3. CASE Compiles(Request(c)) /\ Entry(KeyOf(c), calls[c].program) \in cache
    <3>1. calls[c].program \in Cached(KeyOf(c))
      BY <2>3 DEF Cached, Entry
    <3>2. calls[c].program \in Programs /\ calls[c].program.source = Request(c).source
      BY <1>1, <2>1, <3>1, Hit DEF CacheInv
    <3> QED BY <2>3, <3>2, ProgramAssumption DEF Request
  <2> QED BY <1>1, <2>2, <2>3 DEF CacheInv, AnswersHold
<1> QED BY <1>1 DEF VerdictIsItsOwn

-----------------------------------------------------------------------------
(* Theorems. *)

\* Every variable of the cache keeps its type, for any callers and sources.
THEOREM CacheTypeCorrect == CacheSpec => []CacheTypeOK
<1>1. CacheInv => CacheTypeOK
  BY DEF CacheInv
<1> QED BY <1>1, CacheInvHolds, PTL

\* However many callers there are and whatever they ask for, none is answered
\* by what another one's columns made of the same text.
THEOREM VerdictsAreTheirOwn == CacheSpec => []VerdictIsItsOwn
BY InvGivesVerdicts, CacheInvHolds, PTL

\* All callers that ask for one key end with one program, in any interleaving.
THEOREM AllHoldOneProgram == CacheSpec => []OneProgram
<1>1. ASSUME CacheInv, NEW c \in Callers, calls[c].step = "done",
             calls[c].program # NoProgram
      PROVE  Cached(CacheKey(calls[c].request)) = {calls[c].program}
  <2>1. Entry(KeyOf(c), calls[c].program) \in cache
    BY <1>1 DEF CacheInv, AnswersHold
  <2>2. \A e \in cache : e.key = KeyOf(c) => e = Entry(KeyOf(c), calls[c].program)
    BY <1>1, <2>1 DEF CacheInv, KeysAreUnique, Entry
  <2> QED BY <2>1, <2>2 DEF Cached, Entry, KeyOf
<1>2. CacheInv => OneProgram
  BY <1>1 DEF OneProgram
<1> QED BY <1>2, CacheInvHolds, PTL

\* The records of a collection, whatever fields they hold, cost the cache one
\* entry for each formula.
THEOREM RecordsShareAnEntry == CacheSpec => []OneOpenEntry
<1>1. ASSUME CacheInv, NEW e \in cache, NEW f \in cache,
             e.key.mode = "open", f.key.mode = "open", e.key.source = f.key.source
      PROVE  e = f
  <2>1. e.key \in Requests /\ f.key \in Requests
    BY <1>1 DEF CacheInv, CacheTypeOK
  <2>2. e.key.declared = {} /\ f.key.declared = {}
    BY <1>1, <2>1 DEF CacheInv, KeysAreReduced, CacheKey, Requests
  <2>3. e.key = f.key
    BY <1>1, <2>1, <2>2 DEF Requests
  <2> QED BY <1>1, <2>3 DEF CacheInv, KeysAreUnique
<1>2. CacheInv => OneOpenEntry
  BY <1>1 DEF OneOpenEntry
<1> QED BY <1>2, CacheInvHolds, PTL
=============================================================================
