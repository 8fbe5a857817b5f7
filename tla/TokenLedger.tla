---------------------------- MODULE TokenLedger ----------------------------
(***************************************************************************)
(* What a program is promised of factor tokens, with no tables, keys or    *)
(* caps in sight.  A token has a name of its own and stands for the factor *)
(* of one matrix.  It may be forgotten at any moment but the one at which  *)
(* it is issued; until then a call that presents it is answered with that  *)
(* factor, and afterwards it is refused.  It is never answered with        *)
(* another.  A token of a failed factorization is answered with NaN.       *)
(***************************************************************************)
EXTENDS Naturals

CONSTANTS
  Threads,      \* threads that make calls
  Names,        \* of tokens
  FailedNames,  \* those of failed factorizations, which stand for no factor
  Matrices,
  Failing,      \* matrices whose factorization fails on the numbers
  Rows,         \* the size of each matrix
  None

VARIABLES
  live,   \* tokens that have not been forgotten
  given,  \* tokens the program has in its hands
  held,   \* held[t]: tokens that call t has issued
  rows,   \* rows[t]: the rows of its b, 0 when it has none
  told    \* told[t]: what it was told of the tokens it presented

ledgerVars == <<live, given, held, rows, told>>

Token == [name : Names, of : Matrices]

Factor(k, m) == [token |-> k, is |-> "factor", of |-> m]
NaN(k) == [token |-> k, is |-> "nan", of |-> None]
Refused(k, why) == [token |-> k, is |-> why, of |-> None]

Init ==
  /\ live = {}
  /\ given = {}
  /\ held = [t \in Threads |-> {}]
  /\ rows = [t \in Threads |-> 0]
  /\ told = [t \in Threads |-> {}]

InUse == live \cup given \cup UNION {held[t] : t \in Threads}

\* A name that no other token has.  Any of those may be forgotten for it.
Issue(t, k) ==
  /\ k.name \notin FailedNames
  /\ k.of \notin Failing
  /\ \A j \in InUse : j.name # k.name
  /\ \E kept \in SUBSET live : live' = kept \cup {k}
  /\ held' = [held EXCEPT ![t] = @ \cup {k}]
  /\ UNCHANGED <<given, rows, told>>

IssueFailed(t, k) ==
  /\ k.name \in FailedNames
  /\ k.of \in Failing
  /\ held' = [held EXCEPT ![t] = @ \cup {k}]
  /\ UNCHANGED <<live, given, rows, told>>

Begin(t, r) ==
  /\ told[t] = {}
  /\ rows' = [rows EXCEPT ![t] = r]
  /\ UNCHANGED <<live, given, held, told>>

Fits(t, k) == rows[t] \in {0, Rows[k.of]}

Tell(t, answer) ==
  /\ told' = [told EXCEPT ![t] = @ \cup {answer}]
  /\ UNCHANGED <<live, given, held, rows>>

Answer(t, k) ==
  \/ k.name \in FailedNames /\ k.of \in Failing /\ Tell(t, NaN(k))
  \/ k \in live /\ Fits(t, k) /\ Tell(t, Factor(k, k.of))

Refuse(t, k) ==
  \/ k.name \notin FailedNames /\ k \notin live /\ Tell(t, Refused(k, "stale"))
  \/ k \in live /\ ~Fits(t, k) /\ Tell(t, Refused(k, "misfit"))

\* The call ends, with its tokens in the program's hands or lost.
End(t) ==
  /\ given' \in {given, given \cup held[t]}
  /\ held' = [held EXCEPT ![t] = {}]
  /\ rows' = [rows EXCEPT ![t] = 0]
  /\ told' = [told EXCEPT ![t] = {}]
  /\ UNCHANGED live

Forget ==
  /\ live' \in SUBSET live
  /\ UNCHANGED <<given, held, rows, told>>

Next ==
  \/ \E t \in Threads :
       \/ \E k \in Token : Issue(t, k) \/ IssueFailed(t, k)
       \/ \E r \in {0} \cup {Rows[m] : m \in Matrices} : Begin(t, r)
       \/ \E k \in given : Answer(t, k) \/ Refuse(t, k)
       \/ End(t)
  \/ Forget

Spec == Init /\ [][Next]_ledgerVars
=============================================================================
