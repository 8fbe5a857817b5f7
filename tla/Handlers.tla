------------------------------ MODULE Handlers ------------------------------
(***************************************************************************)
(* The calls a program makes: what each FFI handler does between its       *)
(* arguments and its answer (cholmod_handlers.cpp and lu_handlers.h).  A   *)
(* handler finds its pattern, gets a factor for the values of each element *)
(* of its batch, reads its outputs off the factor, and answers for an      *)
(* element whose factorization failed as set_options(on_failure=) says:    *)
(* with NaN, or with an error for the whole call.  The setting is read     *)
(* where a failure shows, once or more in a call, and may change between.  *)
(*                                                                         *)
(* Factors come from the oracle that the numeric-factor cache implements   *)
(* (FactorOracle, FactorCacheProofs): one requester per element, as the    *)
(* workers of a batch are.  A call of one element stands for an unbatched  *)
(* handler.                                                                *)
(***************************************************************************)
EXTENDS Integers, Sequences, FiniteSets

CONSTANTS
  Callers,       \* threads that run handlers
  Matrices,      \* values an element may have
  Unfactorable,  \* those that no factorization succeeds on
  Flat,          \* those an LU factors, with a log-determinant that is not finite
  Spoiled,       \* those that C makes indefinite
  MaxBatch,      \* bound: elements of a call
  None

ASSUME HandlerAssumption ==
  /\ Unfactorable \subseteq Matrices
  /\ Flat \subseteq Matrices \ Unfactorable
  /\ Spoiled \subseteq Matrices \ Unfactorable
  /\ MaxBatch \in Nat
  /\ None \notin Matrices

VARIABLES
  request, reply,  \* of the oracle, by caller and element as `at` and `out`
  nanOnFailure,    \* g_nan_on_failure
  pc,              \* where each caller's call is
  op,              \* the handler
  asked,           \* the values of its elements
  at,              \* where the work on an element is
  out,             \* the outputs of an element
  error,           \* error[c]: the first error recorded
  seen             \* history: the settings there were during the call

callVars == <<pc, op, asked, at, out, error, seen>>
vars == <<request, reply, nanOnFailure, callVars>>

Requesters == Callers \X (1..MaxBatch)

Factors == INSTANCE FactorOracle WITH
  Threads <- Requesters, Values <- Matrices

-----------------------------------------------------------------------------
(* The handlers.  solve, rcond and the tokens' are there for each backend; *)
(* logdet, selinv, factor_solve and updown are CHOLMOD's, lu_logdet and    *)
(* slogdet the LU backends'.                                               *)

LuLogdetOps == {"lu_logdet", "slogdet", "lu_logdet_factor"}
TokenOps == {"solve_factor", "logdet_factor", "lu_logdet_factor"}
Ops == {"solve", "logdet", "rcond", "selinv", "factor_solve", "updown"}
       \cup LuLogdetOps \cup TokenOps

\* Those that take an LU's factor, and so meet Flat: CHOLMOD takes a factor
\* whose log-determinant is not finite for a failure.
LuOps == LuLogdetOps \cup {"solve", "rcond", "solve_factor"}

Outputs(o) ==
  CASE o \in {"solve", "solve_factor"} -> {"x"}
    [] o \in {"logdet", "logdet_factor", "lu_logdet", "lu_logdet_factor"} -> {"logdet"}
    [] o = "slogdet" -> {"sign", "logdet"}
    [] o = "rcond" -> {"rcond"}
    [] o = "selinv" -> {"z"}
    [] o = "factor_solve" -> {"x0", "x1", "logdet"}
    [] o = "updown" -> {"x", "logdet"}

Number(m) == [is |-> "number", of |-> m]
NaN == [is |-> "nan", of |-> None]
Unwritten == [is |-> "unwritten", of |-> None]

Names == UNION {Outputs(o) : o \in Ops}

All(o, cell) == [name \in Names |-> IF name \in Outputs(o) THEN cell ELSE Unwritten]

Blank == [name \in Names |-> Unwritten]

Elements(c) == DOMAIN asked[c]

Init ==
  /\ Factors!Init
  /\ nanOnFailure \in BOOLEAN
  /\ pc = [c \in Callers |-> "idle"]
  /\ op = [c \in Callers |-> None]
  /\ asked = [c \in Callers |-> <<>>]
  /\ at = [w \in Requesters |-> "idle"]
  /\ out = [w \in Requesters |-> Blank]
  /\ error = [c \in Callers |-> "none"]
  /\ seen = [c \in Callers |-> {}]

-----------------------------------------------------------------------------
(* The call.                                                               *)

\* An updown has no batched form.
Call(c, o, ms) ==
  /\ pc[c] = "idle"
  /\ o = "updown" => Len(ms) = 1
  /\ \A i \in DOMAIN ms : ms[i] \in Flat => o \in LuOps
  /\ pc' = [pc EXCEPT ![c] = "checking"]
  /\ op' = [op EXCEPT ![c] = o]
  /\ asked' = [asked EXCEPT ![c] = ms]
  /\ at' = [w \in Requesters |->
               IF w[1] = c /\ w[2] \in DOMAIN ms THEN "waiting" ELSE at[w]]
  /\ seen' = [seen EXCEPT ![c] = {nanOnFailure}]
  /\ UNCHANGED <<request, reply, nanOnFailure, out, error>>

\* A shape, a mode, an index or a token is bad, or the analysis fails.
Refuse(c) ==
  /\ pc[c] = "checking"
  /\ pc' = [pc EXCEPT ![c] = "returned"]
  /\ error' = [error EXCEPT ![c] = "argument"]
  /\ UNCHANGED <<request, reply, nanOnFailure, op, asked, at, out, seen>>

Accept(c) ==
  /\ pc[c] = "checking"
  /\ pc' = [pc EXCEPT ![c] = "working"]
  /\ UNCHANGED <<request, reply, nanOnFailure, op, asked, at, out, error, seen>>

-----------------------------------------------------------------------------
(* An element: the factor first, then what the handler reads off it.       *)

Waiting(c, i) == pc[c] = "working" /\ i \in Elements(c) /\ at[<<c, i>>] = "waiting"

\* The reference to the factor goes when the element's body returns.
Done(c, i) == Factors!Done(<<c, i>>)

Answer(c, i, cells) ==
  /\ at' = [at EXCEPT ![<<c, i>>] = "done"]
  /\ out' = [out EXCEPT ![<<c, i>>] = cells]
  /\ UNCHANGED <<nanOnFailure, pc, op, asked, error, seen>>

\* run_on_threads keeps the first error; the workers stop at their next item.
Stop(c, i, why) ==
  /\ at' = [at EXCEPT ![<<c, i>>] = "stopped"]
  /\ error' = [error EXCEPT ![c] = IF @ = "none" THEN why ELSE @]
  /\ UNCHANGED <<nanOnFailure, pc, op, asked, out, seen>>

Ask(c, i) ==
  /\ Waiting(c, i)
  /\ error[c] = "none"
  /\ op[c] \notin TokenOps
  /\ at' = [at EXCEPT ![<<c, i>>] = "busy"]
  /\ Factors!Ask(<<c, i>>, asked[c][i])
  /\ UNCHANGED <<nanOnFailure, pc, op, asked, out, error, seen>>

Asking(c, i) ==
  /\ pc[c] = "working"
  /\ i \in Elements(c)
  /\ request[<<c, i>>] # None
  /\ reply[<<c, i>>] = Factors!NoReply

\* *_get_factor has returned.
Answering(c, i) ==
  /\ pc[c] = "working"
  /\ i \in Elements(c)
  /\ at[<<c, i>>] = "busy"
  /\ reply[<<c, i>>] # Factors!NoReply

Factored(c, i) == Answering(c, i) /\ reply[<<c, i>>].kind = "factor"

\* The copy has been updated without an error.
Updated(c, i) ==
  /\ pc[c] = "working"
  /\ i \in Elements(c)
  /\ at[<<c, i>>] = "updated"

\* [mutant of FactorEmpty] the setting is not looked at
FactorEmptyAnyway(c, i) ==
  /\ Asking(c, i)
  /\ Factors!Reply(<<c, i>>)
  /\ reply'[<<c, i>>].kind = "nan"
  /\ UNCHANGED <<nanOnFailure, callVars>>

GetFactor(c, i) ==
  /\ Asking(c, i)
  /\ Factors!Reply(<<c, i>>)
  /\ reply'[<<c, i>>].kind = "factor"
  /\ UNCHANGED <<nanOnFailure, callVars>>

\* factorization_failed under "nan": a holder with no factor in it.
FactorEmpty(c, i) ==
  /\ Asking(c, i)
  /\ nanOnFailure
  /\ Factors!Reply(<<c, i>>)
  /\ reply'[<<c, i>>].kind = "nan"
  /\ UNCHANGED <<nanOnFailure, callVars>>

\* [mutant of FactorFails] a failure raises whatever the setting
FactorFailsAlways(c, i) ==
  /\ Asking(c, i)
  /\ Factors!Reply(<<c, i>>)
  /\ reply'[<<c, i>>].kind = "error"
  /\ \E why \in {"library"} \cup
               (IF asked[c][i] \in Unfactorable THEN {"numbers"} ELSE {}) :
       at' = [at EXCEPT ![<<c, i>>] = why]
  /\ UNCHANGED <<nanOnFailure, pc, op, asked, out, error, seen>>

\* No holder: the numbers defeat the factorization under "raise", or memory or
\* the library fails, whatever the setting.
FactorFails(c, i) ==
  /\ Asking(c, i)
  /\ Factors!Reply(<<c, i>>)
  /\ reply'[<<c, i>>].kind = "error"
  /\ \E why \in {"library"} \cup
               (IF asked[c][i] \in Unfactorable /\ ~nanOnFailure
                THEN {"numbers"} ELSE {}) :
       at' = [at EXCEPT ![<<c, i>>] = why]
  /\ UNCHANGED <<nanOnFailure, pc, op, asked, out, error, seen>>

PassError(c, i) ==
  /\ pc[c] = "working"
  /\ i \in Elements(c)
  /\ at[<<c, i>>] \in {"numbers", "library"}
  /\ Stop(c, i, at[<<c, i>>])
  /\ Done(c, i)

\* A token: the reference was resolved before the work began (TokenTable).
TakeToken(c, i) ==
  /\ Waiting(c, i)
  /\ error[c] = "none"
  /\ op[c] \in TokenOps
  /\ at' = [at EXCEPT ![<<c, i>>] = "busy"]
  /\ Factors!Recall(<<c, i>>, asked[c][i])
  /\ UNCHANGED <<nanOnFailure, pc, op, asked, out, error, seen>>

\* A token of a failed factorization holds nothing: NaN, whatever the setting.
TakeFailedToken(c, i) ==
  /\ Waiting(c, i)
  /\ error[c] = "none"
  /\ op[c] \in TokenOps
  /\ asked[c][i] \in Unfactorable
  /\ Answer(c, i, All(op[c], NaN))
  /\ UNCHANGED <<request, reply>>

\* [mutant of AnswerNaN] factor_solve and updown leave the log-determinant
AnswerNaNInPart(c, i) ==
  /\ Answering(c, i)
  /\ reply[<<c, i>>] = Factors!NaNReply
  /\ Answer(c, i, [All(op[c], NaN) EXCEPT !["logdet"] = Unwritten])
  /\ Done(c, i)

\* An empty holder: fill_nan in each output, and the log-determinant it holds.
AnswerNaN(c, i) ==
  /\ Answering(c, i)
  /\ reply[<<c, i>>] = Factors!NaNReply
  /\ Answer(c, i, All(op[c], NaN))
  /\ Done(c, i)

\* solve, rcond, selinv, factor_solve, and CHOLMOD's log-determinants.
Read(c, i) ==
  /\ Factored(c, i)
  /\ op[c] \notin LuLogdetOps \cup {"updown"}
  /\ Answer(c, i, All(op[c], Number(reply[<<c, i>>].of)))
  /\ Done(c, i)

\* The determinant of a factor is neither zero nor beyond a double's logarithm:
\* no diagonal entry of U or row scale is zero or not finite.
LogdetFinite(c, i) == reply[<<c, i>>].of \notin Flat

\* lu_logdet_into, and lu_slogdet_into on top of it.
ReadLuLogdet(c, i) ==
  /\ Factored(c, i)
  /\ op[c] \in LuLogdetOps
  /\ LogdetFinite(c, i)
  /\ Answer(c, i, All(op[c], Number(reply[<<c, i>>].of)))
  /\ Done(c, i)

ReadFlatLogdet(c, i) ==
  /\ Factored(c, i)
  /\ op[c] \in LuLogdetOps
  /\ ~LogdetFinite(c, i)
  /\ nanOnFailure
  /\ Answer(c, i, All(op[c], NaN))
  /\ Done(c, i)

\* "matrix is singular"
FlatLogdetFails(c, i) ==
  /\ Factored(c, i)
  /\ op[c] \in LuLogdetOps
  /\ ~LogdetFinite(c, i)
  /\ ~nanOnFailure
  /\ Stop(c, i, "numbers")
  /\ Done(c, i)

\* The conversion of a good factor to LDL' fails, or a copy of it.
ConvertFails(c, i) ==
  /\ Factored(c, i)
  /\ op[c] \in {"selinv", "updown"}
  /\ Stop(c, i, "library")
  /\ Done(c, i)

\* A call on a good factor may still fail: a solve (one of a mode that does not
\* exist, too, in a chain), an update.
LibraryFails(c, i) ==
  /\ Factored(c, i) \/ Updated(c, i)
  /\ op[c] \in {"solve", "solve_factor", "factor_solve", "updown"}
  /\ Stop(c, i, "library")
  /\ Done(c, i)

-----------------------------------------------------------------------------
(* updown modifies a copy of the factor, and looks for a failure twice: in *)
(* the library's status and in the log-determinant.  Each time it reads    *)
(* the setting.                                                            *)

Update(c, i) ==
  /\ Factored(c, i)
  /\ op[c] = "updown"
  /\ at' = [at EXCEPT ![<<c, i>>] = "updated"]
  /\ UNCHANGED <<request, reply, nanOnFailure, pc, op, asked, out, error, seen>>

\* The status says so, first under "nan", then as any bad status.
UpdateSpoils(c, i) ==
  /\ Factored(c, i)
  /\ op[c] = "updown"
  /\ reply[<<c, i>>].of \in Spoiled
  /\ IF nanOnFailure
     THEN Answer(c, i, All(op[c], NaN))
     ELSE Stop(c, i, "numbers")
  /\ Done(c, i)

SolveUpdated(c, i) ==
  /\ Updated(c, i)
  /\ reply[<<c, i>>].of \notin Spoiled
  /\ Answer(c, i, All(op[c], Number(reply[<<c, i>>].of)))
  /\ Done(c, i)

\* The status was good, or bad under a setting that has changed since; the
\* log-determinant is not finite.
SpoiledLogdet(c, i) ==
  /\ Updated(c, i)
  /\ reply[<<c, i>>].of \in Spoiled
  /\ IF nanOnFailure
     THEN Answer(c, i, All(op[c], NaN))
     ELSE Stop(c, i, "numbers")
  /\ Done(c, i)

-----------------------------------------------------------------------------
\* [mutant of Finished] an error leaves the other elements' workers behind
FinishedAtFirstError(c) ==
  error[c] # "none" \/ \A i \in Elements(c) : at[<<c, i>>] = "done"

\* [mutant of Finished] a call waits for elements no worker takes up
FinishedWhenAllDone(c) ==
  \A i \in Elements(c) : at[<<c, i>>] \in {"done", "stopped"}

\* Every worker is through: what has not been taken up is left for an error.
Finished(c) ==
  \A i \in Elements(c) :
    at[<<c, i>>] \in {"done", "stopped"}
      \/ (at[<<c, i>>] = "waiting" /\ error[c] # "none")

Return(c) ==
  /\ pc[c] = "working"
  /\ Finished(c)
  /\ pc' = [pc EXCEPT ![c] = "returned"]
  /\ UNCHANGED <<request, reply, nanOnFailure, op, asked, at, out, error, seen>>

\* The program takes the answer or the exception.
Take(c) ==
  /\ pc[c] = "returned"
  /\ pc' = [pc EXCEPT ![c] = "idle"]
  /\ op' = [op EXCEPT ![c] = None]
  /\ asked' = [asked EXCEPT ![c] = <<>>]
  /\ at' = [w \in Requesters |-> IF w[1] = c THEN "idle" ELSE at[w]]
  /\ out' = [w \in Requesters |-> IF w[1] = c THEN Blank ELSE out[w]]
  /\ error' = [error EXCEPT ![c] = "none"]
  /\ seen' = [seen EXCEPT ![c] = {}]
  /\ UNCHANGED <<request, reply, nanOnFailure>>

\* set_options(on_failure=), at once and in calls under way.
SetNanOnFailure(v) ==
  /\ v # nanOnFailure
  /\ nanOnFailure' = v
  /\ seen' = [c \in Callers |-> IF pc[c] = "idle" THEN {} ELSE seen[c] \cup {v}]
  /\ UNCHANGED <<request, reply, pc, op, asked, at, out, error>>

Work(c, i) ==
  \/ Ask(c, i) \/ GetFactor(c, i) \/ FactorEmpty(c, i) \/ FactorFails(c, i)
  \/ PassError(c, i) \/ TakeToken(c, i) \/ TakeFailedToken(c, i)
  \/ AnswerNaN(c, i) \/ Read(c, i) \/ ReadLuLogdet(c, i)
  \/ ReadFlatLogdet(c, i) \/ FlatLogdetFails(c, i) \/ ConvertFails(c, i)
  \/ LibraryFails(c, i) \/ Update(c, i) \/ UpdateSpoils(c, i)
  \/ SolveUpdated(c, i) \/ SpoiledLogdet(c, i)

Handle(c) ==
  \/ Refuse(c) \/ Accept(c)
  \/ \E i \in 1..MaxBatch : Work(c, i)
  \/ Return(c)

\* A batch may be empty.
Batches == UNION {[1..size -> Matrices] : size \in 0..MaxBatch}

Next ==
  \/ \E c \in Callers :
       \/ \E o \in Ops, ms \in Batches : Call(c, o, ms)
       \/ Handle(c)
       \/ Take(c)
  \/ \E v \in BOOLEAN : SetNanOnFailure(v)

Spec == Init /\ [][Next]_vars

\* A handler keeps running once it is called.
FairSpec == Spec /\ \A c \in Callers : WF_vars(Handle(c))

-----------------------------------------------------------------------------
Cells == {Number(m) : m \in Matrices} \cup {NaN, Unwritten}

TypeOK ==
  /\ request \in [Requesters -> Matrices \cup {None}]
  /\ reply \in [Requesters -> {Factors!NoReply, Factors!NaNReply, Factors!ErrorReply}
                               \cup {Factors!FactorOf(m) : m \in Matrices}]
  /\ nanOnFailure \in BOOLEAN
  /\ pc \in [Callers -> {"idle", "checking", "working", "returned"}]
  /\ op \in [Callers -> Ops \cup {None}]
  /\ asked \in [Callers -> Batches \cup {<<>>}]
  /\ at \in [Requesters -> {"idle", "waiting", "busy", "updated", "numbers",
                            "library", "done", "stopped"}]
  /\ out \in [Requesters -> [Names -> Cells]]
  /\ error \in [Callers -> {"none", "numbers", "library", "argument"}]
  /\ seen \in [Callers -> SUBSET BOOLEAN]

Answered(c) == pc[c] = "returned" /\ error[c] = "none"

\* The numbers defeat what this handler does with this matrix.
Fails(o, m) ==
  \/ m \in Unfactorable
  \/ m \in Flat /\ o \in LuLogdetOps
  \/ m \in Spoiled /\ o = "updown"

\* A call that succeeds has written every output of every element: an element
\* whose numbers fail is NaN in all its outputs, and every other one is read
\* off the factor of its own values ("NaN for the failed element and leaves the
\* others alone", set_options) -- never an output the handler forgot, or a
\* number from a failed factorization, downdate or determinant.
AnswersAreWhole ==
  \A c \in Callers : Answered(c) =>
    \A i \in Elements(c) :
      LET m == asked[c][i]
      IN out[<<c, i>>] = All(op[c], IF Fails(op[c], m) THEN NaN ELSE Number(m))

\* NaN is only answered if "nan" was set at some time in the call, or to a token
\* from a factorization that failed when it was: under "raise" a call that
\* succeeds has no failed element, though the setting is read at several places.
NaNHasCause ==
  \A c \in Callers : \A i \in Elements(c) :
    (\E name \in Names : out[<<c, i>>][name] = NaN) =>
      \/ TRUE \in seen[c]
      \/ asked[c][i] \in Unfactorable /\ op[c] \in TokenOps

\* Numbers that fail raise an error only if "raise" was set at some time in the
\* call: under "nan" no proposal of a sampler ends its chains.
RaisingHasCause ==
  \A c \in Callers : error[c] = "numbers" =>
    /\ FALSE \in seen[c]
    /\ \E i \in Elements(c) : Fails(op[c], asked[c][i])

\* A call holds no factor once it has returned, on any path: the cache may
\* recycle its storage.
NothingHeldAfter ==
  \A c \in Callers : pc[c] \in {"idle", "returned"} =>
    \A i \in 1..MaxBatch : reply[<<c, i>>] = Factors!NoReply

\* Every call returns, whatever fails and however often the setting changes.
CallsAnswered ==
  \A c \in Callers : (pc[c] = "checking") ~> (pc[c] = "returned")
=============================================================================
