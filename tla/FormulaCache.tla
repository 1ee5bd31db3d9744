---------------------------- MODULE FormulaCache ----------------------------
(***************************************************************************)
(* The process-wide cache of compiled formulas (column_formula_eval.go).   *)
(* A formula is compiled in one of two modes: "strict", when a definition  *)
(* is loaded, against the stored columns of its collection; and "open",    *)
(* when a record is validated, against anything at all.  What compiles in  *)
(* one collection may be an error in another, and any number of goroutines *)
(* load, compile and store at once.                                        *)
(***************************************************************************)
CONSTANTS Callers,    \* goroutines
          Sources,    \* texts of formulas
          Names,      \* names of columns and of builtins
          FreeNames,  \* by source: the names it refers to
          Malformed,  \* sources that do not parse
          Builtins,   \* names predeclared for every formula
          NoProgram   \* there is no compiled program

\* declared: the names that the caller will bind
Requests == [mode : {"strict", "open"}, source : Sources, declared : SUBSET Names]
Programs == [source : Sources, by : Callers]

ASSUME FreeNamesAssumption == FreeNames \in [Sources -> SUBSET Names]
ASSUME ProgramAssumption   == NoProgram \notin Programs

VARIABLES cache,  \* the entries of the sync.Map: a key and its program
          calls   \* by caller: its request, how far it got, and its program

cacheVars == <<cache, calls>>

Entry(key, program) == [key |-> key, program |-> program]
Call(step, request, program) == [step |-> step, request |-> request, program |-> program]
Idle == [step |-> "idle"]

-----------------------------------------------------------------------------
\* bug: the key leaves out what a program was compiled against
KeyOfSource(request) == [request EXCEPT !.declared = {}]

\* bug: the key tells apart what the callers of one formula bind
KeyWithShape(request) == request

\* resolution depends on the declared names in strict mode only
CacheKey(request) ==
  IF request.mode = "strict" THEN request ELSE [request EXCEPT !.declared = {}]

\* what Starlark's resolver says of the request
Compiles(request) ==
  /\ request.source \notin Malformed
  /\ request.mode = "strict" =>
       FreeNames[request.source] \subseteq request.declared \cup Builtins

Cached(key) == {e.program : e \in {f \in cache : f.key = key}}

CacheInit ==
  /\ cache = {}
  /\ calls = [c \in Callers |-> Idle]

Ask(c, request) ==
  /\ calls[c] = Idle
  /\ calls' = [calls EXCEPT ![c] = Call("load", request, NoProgram)]
  /\ UNCHANGED cache

Advance(c, step, program) ==
  calls' = [calls EXCEPT ![c] = Call(step, @.request, program)]

Load(c) ==
  /\ calls[c].step = "load"
  /\ LET hit == Cached(CacheKey(calls[c].request))
     IN \/ hit = {} /\ Advance(c, "compile", NoProgram)
        \/ \E program \in hit : Advance(c, "done", program)
  /\ UNCHANGED cache

\* an error returns before anything is stored
Compile(c) ==
  LET request == calls[c].request
  IN /\ calls[c].step = "compile"
     /\ \/ ~Compiles(request) /\ Advance(c, "done", NoProgram)
        \/ Compiles(request) /\ Advance(c, "store", [source |-> request.source, by |-> c])
     /\ UNCHANGED cache

\* bug: the last to compile wins
StoreOver(c) ==
  LET key == CacheKey(calls[c].request)
  IN /\ calls[c].step = "store"
     /\ Advance(c, "done", calls[c].program)
     /\ cache' = {e \in cache : e.key # key} \cup {Entry(key, calls[c].program)}

\* the first to store wins, and the others take its program
LoadOrStore(c) ==
  LET key == CacheKey(calls[c].request)
  IN /\ calls[c].step = "store"
     /\ \/ /\ Cached(key) = {}
           /\ Advance(c, "done", calls[c].program)
           /\ cache' = cache \cup {Entry(key, calls[c].program)}
        \/ /\ \E program \in Cached(key) : Advance(c, "done", program)
           /\ UNCHANGED cache

\* the caller takes its program or its error
Finish(c) ==
  /\ calls[c].step = "done"
  /\ calls' = [calls EXCEPT ![c] = Idle]
  /\ UNCHANGED cache

CompileStep(c) == Load(c) \/ Compile(c) \/ LoadOrStore(c)

CacheNext ==
  \E c \in Callers : \/ \E request \in Requests : Ask(c, request)
                    \/ CompileStep(c)
                    \/ Finish(c)

CacheSpec == CacheInit /\ [][CacheNext]_cacheVars

-----------------------------------------------------------------------------
(* Properties. *)

\* The variables range over the values the Go types allow.
CacheTypeOK ==
  /\ cache \subseteq [key : Requests, program : Programs]
  /\ calls \in [Callers -> {Idle} \cup [step : {"load", "compile", "store", "done"},
                                        request : Requests,
                                        program : Programs \cup {NoProgram}]]

\* Whoever compiled the same text before, and against whatever columns, a
\* caller ends with a program exactly when a fresh compilation of its own
\* request would give it one, and then with a program of its own formula.
VerdictIsItsOwn ==
  \A c \in Callers : calls[c].step = "done" =>
    /\ calls[c].program # NoProgram <=> Compiles(calls[c].request)
    /\ calls[c].program # NoProgram => calls[c].program.source = calls[c].request.source

\* However loads, compilations and stores interleave, all callers that end
\* with a program for one key hold the one that is cached.
OneProgram ==
  \A c \in Callers :
    calls[c].step = "done" /\ calls[c].program # NoProgram =>
      Cached(CacheKey(calls[c].request)) = {calls[c].program}

\* The evaluation path costs one entry per formula, whatever the records and
\* the collections that share it look like.
OneOpenEntry ==
  \A e, f \in cache :
    /\ e.key.mode = "open" /\ f.key.mode = "open"
    /\ e.key.source = f.key.source
    => e = f
=============================================================================
