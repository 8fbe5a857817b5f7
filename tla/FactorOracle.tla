---------------------------- MODULE FactorOracle ----------------------------
(***************************************************************************)
(* What a caller of chol_get_factor, klu_get_factor or umf_get_factor is   *)
(* promised, with no cache in sight: a request for some matrix values is   *)
(* answered with a factor of exactly those values, or, when the numbers    *)
(* defeat the factorization, with a NaN answer, or with an error.  While   *)
(* the caller holds the factor nobody changes it: a reply, once given,     *)
(* stays what it is until the caller is done with it.                      *)
(***************************************************************************)
CONSTANTS
  Threads,       \* the calling threads
  Values,        \* the values a matrix of one fixed structure may have
  Unfactorable,  \* those that are singular, not positive definite or not finite
  None           \* no request, no reply, no values

VARIABLES
  request,       \* request[t]: the values thread t asked for, or None
  reply          \* reply[t]: what it was told, or NoReply

oracleVars == <<request, reply>>

NoReply == [kind |-> "none", of |-> None]
FactorOf(v) == [kind |-> "factor", of |-> v]
NaNReply == [kind |-> "nan", of |-> None]
ErrorReply == [kind |-> "error", of |-> None]

Init ==
  /\ request = [t \in Threads |-> None]
  /\ reply = [t \in Threads |-> NoReply]

Ask(t, v) ==
  /\ request[t] = None
  /\ request' = [request EXCEPT ![t] = v]
  /\ UNCHANGED reply

\* An unfactorable matrix is never answered with a factor, a factorable one
\* never with NaN; memory can fail either.
Reply(t) ==
  /\ request[t] # None
  /\ reply[t] = NoReply
  /\ \E r \in {ErrorReply} \cup (IF request[t] \in Unfactorable
                                 THEN {NaNReply} ELSE {FactorOf(request[t])}) :
        reply' = [reply EXCEPT ![t] = r]
  /\ UNCHANGED request

\* A factor token: the factor of the values it was issued for, at once.
Recall(t, v) ==
  /\ request[t] = None
  /\ v \notin Unfactorable
  /\ request' = [request EXCEPT ![t] = v]
  /\ reply' = [reply EXCEPT ![t] = FactorOf(v)]

Done(t) ==
  /\ reply[t] # NoReply
  /\ request' = [request EXCEPT ![t] = None]
  /\ reply' = [reply EXCEPT ![t] = NoReply]

Next ==
  \E t \in Threads :
    \/ \E v \in Values : Ask(t, v) \/ Recall(t, v)
    \/ Reply(t)
    \/ Done(t)

Spec == Init /\ [][Next]_oracleVars
=============================================================================
