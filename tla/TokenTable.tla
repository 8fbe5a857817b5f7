----------------------------- MODULE TokenTable -----------------------------
(***************************************************************************)
(* Factor tokens: factor, lu_factor and umf_factor hand the program plain  *)
(* integers that name a numeric factor in their backend's table; the       *)
(* solve_factor and logdet_factor calls look the name up again             *)
(* (src/src/cpp/common.h, TokenTable, and the handlers of each backend).   *)
(* A table keeps its newest g_token_cap entries.  Keys count up, and       *)
(* clear_cache empties the tables without starting the count again.        *)
(*                                                                         *)
(* A batched call issues or resolves one token per element, each under the *)
(* table's lock and all of them with other threads in between.  A factor   *)
(* is the matrix it is of; FactorCache says why that stays true while a    *)
(* token or a solve holds it.                                              *)
(***************************************************************************)
EXTENDS Integers, Sequences, FiniteSets

CONSTANTS
  Threads,     \* threads that run handlers
  Backends,    \* TokenIssuer: one table each
  ClearOrder,  \* the order clear_cache empties them in
  Matrices,
  Failing,     \* matrices whose factorization fails on the numbers
  Rows,        \* the size of each matrix
  Caps,        \* what set_token_cache_size may set
  MaxBatch,    \* bound: elements of a batched call
  MaxKeys,     \* bound: tokens a table issues
  None

ASSUME TokenAssumption ==
  /\ Failing \subseteq Matrices
  /\ Rows \in [Matrices -> Nat]
  /\ Caps \subseteq Nat \ {0}
  /\ Caps # {}
  /\ ClearOrder \in Seq(Backends)
  /\ MaxBatch \in Nat
  /\ MaxKeys \in Nat
  /\ None \notin Matrices

VARIABLES
  slots,         \* slots[b]: key -> the factor it names
  nextKey,       \* nextKey[b]: TokenTable::next_key_
  cap,           \* g_token_cap
  nanOnFailure,  \* g_nan_on_failure
  toClear,       \* backends a clear_cache under way has yet to clear
  clearedAt,     \* history: nextKey[b] when the table was last emptied
  given,         \* tokens the program has in its hands
  pc,            \* where each thread is in its call
  by,            \* the backend it called
  asked,         \* matrices it must factor, or tokens it must resolve
  rows,          \* the rows of b, when it solves
  made,          \* tokens it has issued, by element
  turn,          \* the element whose token it resolves next
  got            \* references it has resolved, by element

tableVars == <<slots, nextKey, clearedAt>>
settingVars == <<cap, nanOnFailure, toClear>>
callVars == <<pc, by, asked, rows, made, turn, got>>
vars == <<tableVars, settingVars, given, callVars>>

\* kFailedTokenKey: the key of a factorization that failed under "nan".
FailedKey == -1

\* token[0] and token[1]; `of`, the matrix it was issued for, is history.
Token == [key : Int, issuer : Backends, of : Matrices]

Batches(S) == UNION {[1..n -> S] : n \in 1..MaxBatch}

Init ==
  /\ slots = [b \in Backends |-> <<>>]
  /\ nextKey = [b \in Backends |-> 1]
  /\ clearedAt = [b \in Backends |-> 1]
  /\ cap \in Caps
  /\ nanOnFailure \in BOOLEAN
  /\ toClear = <<>>
  /\ given = {}
  /\ pc = [t \in Threads |-> "idle"]
  /\ by = [t \in Threads |-> None]
  /\ asked = [t \in Threads |-> <<>>]
  /\ rows = [t \in Threads |-> 0]
  /\ made = [t \in Threads |-> {}]
  /\ turn = [t \in Threads |-> 1]
  /\ got = [t \in Threads |-> {}]

-----------------------------------------------------------------------------
(* The table.                                                              *)

\* [mutant of Kept] one entry too few
KeptBelow(keys, n) == {k \in keys : Cardinality({j \in keys : j > k}) + 1 < n}

\* [mutant of Kept] the table only grows
AllKept(keys, n) == keys

\* trim_token_table_locked: the n newest of these keys.
Kept(keys, n) == {k \in keys : Cardinality({j \in keys : j > k}) < n}

\* TokenTable::issue, under the table's lock: emplace, then trim.
Issued(table, key, m) ==
  [k \in Kept(DOMAIN table \cup {key}, cap) |-> IF k = key THEN m ELSE table[k]]

-----------------------------------------------------------------------------
(* factor, lu_factor, umf_factor, and their batched forms.                 *)

Factor(t, b, ms) ==
  /\ pc[t] = "idle"
  /\ pc' = [pc EXCEPT ![t] = "factoring"]
  /\ by' = [by EXCEPT ![t] = b]
  /\ asked' = [asked EXCEPT ![t] = ms]
  /\ UNCHANGED <<tableVars, settingVars, given, rows, made, turn, got>>

\* Elements nobody has worked on yet; workers take them up in any order.
Left(t) == DOMAIN asked[t] \ {e.at : e \in made[t]}

Issue(t, i) ==
  LET b == by[t]
      m == asked[t][i]
  IN /\ pc[t] \in {"factoring", "failing"}
     /\ i \in Left(t)
     /\ m \notin Failing
     /\ nextKey[b] <= MaxKeys
     /\ slots' = [slots EXCEPT ![b] = Issued(slots[b], nextKey[b], m)]
     /\ nextKey' = [nextKey EXCEPT ![b] = @ + 1]
     /\ made' = [made EXCEPT ![t] = @ \cup
          {[at |-> i, token |-> [key |-> nextKey[b], issuer |-> b, of |-> m]]}]
     /\ UNCHANGED <<clearedAt, settingVars, given, pc, by, asked, rows, turn, got>>

\* on_failure = "nan": a token that names no slot.
IssueFailed(t, i) ==
  LET m == asked[t][i]
  IN /\ pc[t] \in {"factoring", "failing"}
     /\ i \in Left(t)
     /\ m \in Failing
     /\ nanOnFailure
     /\ made' = [made EXCEPT ![t] = @ \cup
          {[at |-> i, token |-> [key |-> FailedKey, issuer |-> by[t], of |-> m]]}]
     /\ UNCHANGED <<tableVars, settingVars, given, pc, by, asked, rows, turn, got>>

\* on_failure = "raise": the batch stops.  Elements under way still issue.
FactorFails(t, i) ==
  /\ pc[t] = "factoring"
  /\ i \in Left(t)
  /\ asked[t][i] \in Failing
  /\ ~nanOnFailure
  /\ pc' = [pc EXCEPT ![t] = "failing"]
  /\ UNCHANGED <<tableVars, settingVars, given, by, asked, rows, made, turn,
                 got>>

Reset(t) ==
  /\ pc' = [pc EXCEPT ![t] = "idle"]
  /\ by' = [by EXCEPT ![t] = None]
  /\ asked' = [asked EXCEPT ![t] = <<>>]
  /\ rows' = [rows EXCEPT ![t] = 0]
  /\ made' = [made EXCEPT ![t] = {}]
  /\ turn' = [turn EXCEPT ![t] = 1]
  /\ got' = [got EXCEPT ![t] = {}]

Deliver(t) ==
  /\ pc[t] = "factoring"
  /\ Left(t) = {}
  /\ given' = given \cup {e.token : e \in made[t]}
  /\ Reset(t)
  /\ UNCHANGED <<tableVars, settingVars>>

\* The error reaches the program; the tokens that were issued do not.
RaiseFailure(t) ==
  /\ pc[t] = "failing"
  /\ Reset(t)
  /\ UNCHANGED <<tableVars, settingVars, given>>

-----------------------------------------------------------------------------
(* solve_factor, logdet_factor, and their batched forms.                   *)

\* check_token_issuer passes every token of the call.
IssuersMatch(b, ts) == \A i \in DOMAIN ts : ts[i].issuer = b

\* A solve has a b of r rows; a log-determinant (r = 0) asks for none.
Consume(t, b, ts, r) ==
  /\ pc[t] = "idle"
  /\ IssuersMatch(b, ts)
  /\ pc' = [pc EXCEPT ![t] = "resolving"]
  /\ by' = [by EXCEPT ![t] = b]
  /\ asked' = [asked EXCEPT ![t] = ts]
  /\ rows' = [rows EXCEPT ![t] = r]
  /\ UNCHANGED <<tableVars, settingVars, given, made, turn, got>>

\* The token that is resolved next.
Current(t) == asked[t][turn[t]]

Resolving(t) == pc[t] = "resolving" /\ turn[t] \in DOMAIN asked[t]

Resolved(t, num) ==
  /\ got' = [got EXCEPT ![t] = @ \cup {[at |-> turn[t], num |-> num]}]
  /\ turn' = [turn EXCEPT ![t] = @ + 1]
  /\ UNCHANGED <<tableVars, settingVars, given, pc, by, asked, rows, made>>

\* check_token_rows
RowsFit(t, m) == rows[t] \in {0, Rows[m]}

Resolve(t) ==
  /\ Resolving(t)
  /\ Current(t).key \in DOMAIN slots[by[t]]
  /\ RowsFit(t, slots[by[t]][Current(t).key])
  /\ Resolved(t, slots[by[t]][Current(t).key])

ResolveFailed(t) ==
  /\ Resolving(t)
  /\ Current(t).key = FailedKey
  /\ Resolved(t, None)

Refuse(t, why) ==
  /\ pc' = [pc EXCEPT ![t] = why]
  /\ UNCHANGED <<tableVars, settingVars, given, by, asked, rows, made, turn,
                 got>>

ResolveStale(t) ==
  /\ Resolving(t)
  /\ Current(t).key # FailedKey
  /\ Current(t).key \notin DOMAIN slots[by[t]]
  /\ Refuse(t, "stale")

ResolveWrongRows(t) ==
  /\ Resolving(t)
  /\ Current(t).key \in DOMAIN slots[by[t]]
  /\ ~RowsFit(t, slots[by[t]][Current(t).key])
  /\ Refuse(t, "misfit")

\* The solves read the references the call holds; the table is not involved.
Answer(t) ==
  /\ pc[t] = "resolving"
  /\ turn[t] \notin DOMAIN asked[t]
  /\ pc' = [pc EXCEPT ![t] = "answered"]
  /\ UNCHANGED <<tableVars, settingVars, given, by, asked, rows, made, turn,
                 got>>

Return(t) ==
  /\ pc[t] \in {"answered", "stale", "misfit"}
  /\ Reset(t)
  /\ UNCHANGED <<tableVars, settingVars, given>>

-----------------------------------------------------------------------------
(* Settings and clear_cache, called from Python.                           *)

\* set_token_cache_size only stores: unlike the numeric caches' caps, it trims
\* nothing until the next token is issued.
SetTokenCap(n) ==
  /\ n # cap
  /\ cap' = n
  /\ UNCHANGED <<tableVars, nanOnFailure, toClear, given, callVars>>

SetNanOnFailure(v) ==
  /\ v # nanOnFailure
  /\ nanOnFailure' = v
  /\ UNCHANGED <<tableVars, cap, toClear, given, callVars>>

\* module.cpp's clear_cache: one backend after the other.
ClearCache ==
  /\ toClear = <<>>
  /\ toClear' = ClearOrder
  /\ UNCHANGED <<tableVars, cap, nanOnFailure, given, callVars>>

\* [mutant of ClearTable] the keys start again
ClearTableAndKeys ==
  /\ toClear # <<>>
  /\ slots' = [slots EXCEPT ![Head(toClear)] = <<>>]
  /\ nextKey' = [nextKey EXCEPT ![Head(toClear)] = 1]
  /\ clearedAt' = [clearedAt EXCEPT ![Head(toClear)] = 1]
  /\ toClear' = Tail(toClear)
  /\ UNCHANGED <<cap, nanOnFailure, given, callVars>>

\* TokenTable::clear
ClearTable ==
  /\ toClear # <<>>
  /\ slots' = [slots EXCEPT ![Head(toClear)] = <<>>]
  /\ clearedAt' = [clearedAt EXCEPT ![Head(toClear)] = nextKey[Head(toClear)]]
  /\ toClear' = Tail(toClear)
  /\ UNCHANGED <<nextKey, cap, nanOnFailure, given, callVars>>

-----------------------------------------------------------------------------
Step(t) ==
  \/ \E b \in Backends, ms \in Batches(Matrices) : Factor(t, b, ms)
  \/ \E i \in DOMAIN asked[t] :
        Issue(t, i) \/ IssueFailed(t, i) \/ FactorFails(t, i)
  \/ Deliver(t) \/ RaiseFailure(t)
  \/ \E b \in Backends, ts \in Batches(given),
        r \in {0} \cup {Rows[m] : m \in Matrices} : Consume(t, b, ts, r)
  \/ Resolve(t) \/ ResolveFailed(t) \/ ResolveStale(t) \/ ResolveWrongRows(t)
  \/ Answer(t) \/ Return(t)

Settings ==
  \/ \E n \in Caps : SetTokenCap(n)
  \/ \E v \in BOOLEAN : SetNanOnFailure(v)
  \/ ClearCache
  \/ ClearTable

Next == Settings \/ \E t \in Threads : Step(t)

Spec == Init /\ [][Next]_vars

-----------------------------------------------------------------------------
TypeOK ==
  /\ DOMAIN slots = Backends
  /\ \A b \in Backends :
        /\ DOMAIN slots[b] \subseteq Nat
        /\ \A k \in DOMAIN slots[b] : slots[b][k] \in Matrices
  /\ nextKey \in [Backends -> Nat \ {0}]
  /\ clearedAt \in [Backends -> Nat \ {0}]
  /\ cap \in Caps
  /\ nanOnFailure \in BOOLEAN
  /\ toClear \in Seq(Backends)
  /\ given \subseteq Token
  /\ pc \in [Threads -> {"idle", "factoring", "failing", "resolving",
                         "answered", "stale", "misfit"}]
  /\ by \in [Threads -> Backends \cup {None}]
  /\ rows \in [Threads -> Nat]
  /\ turn \in [Threads -> Nat]

\* A call that answers does so, for each of its tokens, from the factor that
\* token was issued for, of a size that fits its b -- or with NaN when that
\* factorization failed.  Whatever was evicted, cleared or issued since, by any
\* backend, a token never stands for another factor (TokenTable, and
\* check_token_issuer: "a slot key alone can name a live, unrelated factor").
AnswersOwnFactors ==
  \A t \in Threads : pc[t] = "answered" =>
    \A e \in got[t] :
      LET token == asked[t][e.at]
      IN IF token.key = FailedKey
         THEN e.num = None /\ token.of \in Failing
         ELSE e.num = token.of /\ RowsFit(t, token.of)

\* Nothing but clear_cache and newer tokens of its backend makes a token stale,
\* and these only once they are as many as a cap that could be set: whichever
\* threads issue, whatever the batches, and however the cap was changed.  That is
\* where the code draws the line.  Its message and its docs draw it one later,
\* which is LastsAsDocumented.
FreshTokensResolve ==
  \A k \in given :
    /\ k.key # FailedKey
    /\ k.key >= clearedAt[k.issuer]
    /\ \A n \in Caps : nextKey[k.issuer] - 1 - k.key < n
    => k.key \in DOMAIN slots[k.issuer]

\* The line as the message of a stale token draws it ("more than
\* set_token_cache_size() newer tokens were created since this one (or
\* clear_cache ran)"), and as set_token_cache_size promises ("Hold a token across
\* at most n newer factorizations").  The code drops it at exactly n newer ones.
LastsAsDocumented ==
  \A k \in given :
    /\ k.key # FailedKey
    /\ k.key >= clearedAt[k.issuer]
    /\ \A n \in Caps : nextKey[k.issuer] - 1 - k.key <= n
    => k.key \in DOMAIN slots[k.issuer]

\* Issuing a token leaves its table within the cap of that moment, however many
\* threads issue at once and whatever the cap was before.
IssuingTrims ==
  [][\A b \in Backends :
       nextKey'[b] # nextKey[b] => Cardinality(DOMAIN slots'[b]) <= cap]_vars

-----------------------------------------------------------------------------
(* The tables as what the program sees of them.                            *)

Named(k) == [name |-> <<k.issuer, k.key>>, of |-> k.of]

\* The tokens of the tables' entries, by the factor that is in them.
Live == UNION {{Named([key |-> k, issuer |-> b, of |-> slots[b][k]]) : k \in DOMAIN slots[b]} :
                 b \in Backends}

Held == [t \in Threads |-> {Named(e.token) : e \in made[t]}]

Report(t, e) ==
  [token |-> Named(asked[t][e.at]),
   is |-> IF e.num = None THEN "nan" ELSE "factor", of |-> e.num]

Refusal(t) ==
  IF pc[t] \in {"stale", "misfit"}
  THEN {[token |-> Named(Current(t)), is |-> pc[t], of |-> None]} ELSE {}

ToldCall(t) == {Report(t, e) : e \in got[t]} \cup Refusal(t)

Told == [t \in Threads |-> ToldCall(t)]

Ledger == INSTANCE TokenLedger WITH
  Names <- Backends \X ({FailedKey} \cup 1..MaxKeys),
  FailedNames <- Backends \X {FailedKey},
  live <- Live, given <- {Named(k) : k \in given}, held <- Held, told <- Told

\* Whatever the tables forget, by a cap or by clear_cache, at any moment of any
\* call, the program can tell it only from refusals: no two tokens of factors
\* that are about have one name, and each is answered with the factor it was
\* issued for, if that fits, or refused, because it is forgotten or does not
\* fit; one that failed is answered with NaN.
ImplementsLedger == Ledger!Spec
=============================================================================
