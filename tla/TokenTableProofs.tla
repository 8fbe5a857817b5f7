-------------------------- MODULE TokenTableProofs --------------------------
(***************************************************************************)
(* What TLAPS proves of TokenTable, for any number of threads, backends,   *)
(* matrices, caps and tokens.                                              *)
(***************************************************************************)
EXTENDS TokenTable, FiniteSetTheorems, TLAPS

\* Token k failed, or names an entry that, if it is there, is its own factor.
SoundIn(k, tables, next) ==
  /\ k \in Token
  /\ \/ k.key = FailedKey /\ k.of \in Failing
     \/ /\ k.key \in 1..(next[k.issuer] - 1)
        /\ k.key \in DOMAIN tables[k.issuer] => tables[k.issuer][k.key] = k.of

Sound(k) == SoundIn(k, slots, nextKey)

\* What call t has resolved for element e.at is what that token stands for.
Exact(t, e) ==
  LET token == asked[t][e.at]
  IN IF token.key = FailedKey
     THEN e.num = None /\ token.of \in Failing
     ELSE e.num = token.of /\ RowsFit(t, token.of)

CallShape(t) ==
  /\ pc[t] \in {"factoring", "failing"} =>
       by[t] \in Backends /\ \A i \in DOMAIN asked[t] : asked[t][i] \in Matrices
  /\ pc[t] \in {"resolving", "answered"} =>
       /\ \A i \in DOMAIN asked[t] :
             Sound(asked[t][i]) /\ asked[t][i].issuer = by[t]
       /\ \A e \in got[t] : e.at \in DOMAIN asked[t] /\ Exact(t, e)
  /\ pc[t] \in {"idle", "factoring", "failing"} => got[t] = {}
  /\ \A e \in made[t] : Sound(e.token)

TokenInv ==
  /\ TypeOK
  /\ DOMAIN asked = Threads /\ DOMAIN made = Threads /\ DOMAIN got = Threads
  /\ \A k \in given : Sound(k)
  /\ \A t \in Threads : CallShape(t)

-----------------------------------------------------------------------------
\* The elements of a batch are drawn from its set.
LEMMA BatchElements ==
  ASSUME NEW S, NEW q \in Batches(S)
  PROVE  \A i \in DOMAIN q : q[i] \in S
  BY DEF Batches

\* What an issue does to its own table: the new key names the new factor, and
\* the other keys that stay name what they did.
LEMMA IssueEffect ==
  ASSUME TypeOK, NEW t \in Threads, NEW i \in DOMAIN asked[t], Issue(t, i),
         by[t] \in Backends
  PROVE  /\ nextKey' = [nextKey EXCEPT ![by[t]] = nextKey[by[t]] + 1]
         /\ DOMAIN slots' = Backends
         /\ DOMAIN slots'[by[t]] =
              Kept(DOMAIN slots[by[t]] \cup {nextKey[by[t]]}, cap)
         /\ \A k \in DOMAIN slots'[by[t]] :
              IF k = nextKey[by[t]]
              THEN slots'[by[t]][k] = asked[t][i]
              ELSE k \in DOMAIN slots[by[t]] /\ slots'[by[t]][k] = slots[by[t]][k]
         /\ \A b \in Backends \ {by[t]} : slots'[b] = slots[b]
<1> DEFINE b == by[t]
           key == nextKey[b]
           keys == Kept(DOMAIN slots[b] \cup {key}, cap)
<1>1. /\ slots' = [slots EXCEPT ![b] = Issued(slots[b], key, asked[t][i])]
      /\ nextKey' = [nextKey EXCEPT ![b] = @ + 1]
  BY DEF Issue
<1>2. DOMAIN slots = Backends /\ nextKey \in [Backends -> Nat \ {0}]
  BY DEF TypeOK
<1>3. slots'[b] = [k \in keys |-> IF k = key THEN asked[t][i] ELSE slots[b][k]]
  BY <1>1, <1>2 DEF Issued
<1>4. keys \subseteq DOMAIN slots[b] \cup {key}
  BY DEF Kept
<1> QED
  BY <1>1, <1>2, <1>3, <1>4

\* A sound token stays sound: no key is issued twice.
LEMMA SoundStays ==
  ASSUME TokenInv, [Next]_vars, NEW k, Sound(k)
  PROVE  Sound(k)'
<1>1. ASSUME NEW t \in Threads, NEW i \in DOMAIN asked[t], Issue(t, i)
      PROVE  Sound(k)'
  <2>1. by[t] \in Backends
    BY <1>1 DEF TokenInv, CallShape, Issue
  <2>2. TypeOK /\ nextKey \in [Backends -> Nat \ {0}] /\ k.issuer \in Backends
    BY DEF TokenInv, TypeOK, Sound, SoundIn, Token
  <2> DEFINE b == by[t]
             key == nextKey[b]
  <2>3. /\ nextKey' = [nextKey EXCEPT ![b] = key + 1]
        /\ \A c \in Backends \ {b} : slots'[c] = slots[c]
        /\ \A j \in DOMAIN slots'[b] :
              j # key => j \in DOMAIN slots[b] /\ slots'[b][j] = slots[b][j]
    BY <1>1, <2>1, <2>2, IssueEffect
  <2>4. CASE k.key = FailedKey
    BY <2>4 DEF Sound, SoundIn, FailedKey
  <2>5. CASE k.key # FailedKey /\ k.issuer # b
    <3>1. nextKey'[k.issuer] = nextKey[k.issuer]
      BY <2>1, <2>2, <2>3, <2>5
    <3>2. slots'[k.issuer] = slots[k.issuer]
      BY <2>2, <2>3, <2>5
    <3> QED
      BY <2>5, <3>1, <3>2 DEF Sound, SoundIn
  <2>6. CASE k.key # FailedKey /\ k.issuer = b
    <3>1. nextKey'[b] = key + 1 /\ key \in Nat
      BY <2>1, <2>2, <2>3
    <3>2. k.key \in 1..(key - 1)
      BY <2>6 DEF Sound, SoundIn
    <3>3. k.key # key /\ k.key \in 1..(nextKey'[b] - 1)
      BY <3>1, <3>2
    <3> QED
      BY <2>3, <2>6, <3>3 DEF Sound, SoundIn
  <2> QED
    BY <2>4, <2>5, <2>6
<1>2. CASE ClearTable
  <2> DEFINE b == Head(toClear)
  <2>1. b \in Backends
    BY <1>2 DEF ClearTable, TokenInv, TypeOK
  <2>2. /\ slots' = [slots EXCEPT ![b] = <<>>] /\ nextKey' = nextKey
        /\ DOMAIN slots = Backends
    BY <1>2 DEF ClearTable, TokenInv, TypeOK
  <2>3. k.issuer \in Backends
    BY DEF Sound, SoundIn, Token
  <2>4. DOMAIN <<>> = {}
    OBVIOUS
  <2> QED
    BY <2>1, <2>2, <2>3, <2>4 DEF Sound, SoundIn
<1>3. CASE UNCHANGED <<slots, nextKey>>
  BY <1>3 DEF Sound, SoundIn
<1>4. \/ \E t \in Threads : \E i \in DOMAIN asked[t] : Issue(t, i)
      \/ ClearTable
      \/ UNCHANGED <<slots, nextKey>>
  BY DEF Next, Step, Settings, vars, tableVars, Factor, IssueFailed, FactorFails,
         Deliver, RaiseFailure, Consume, Resolve, ResolveFailed, Resolved,
         ResolveStale, ResolveWrongRows, Refuse, Answer, Return, SetTokenCap,
         SetNanOnFailure, ClearCache
<1> QED
  BY <1>1, <1>2, <1>3, <1>4

\* No tokens and no calls at first.
LEMMA InitToken == Init => TokenInv
  BY TokenAssumption DEF Init, TokenInv, TypeOK, CallShape

\* Every step keeps the types.
LEMMA NextType == TokenInv /\ [Next]_vars => TypeOK'
<1> SUFFICES ASSUME TokenInv, [Next]_vars PROVE TypeOK'
  OBVIOUS
<1> USE DEF tableVars, settingVars, callVars
<1>1. ASSUME NEW t \in Threads, NEW b \in Backends,
             NEW ms \in Batches(Matrices), Factor(t, b, ms)
      PROVE  TypeOK'
  BY <1>1 DEF Factor, TokenInv, TypeOK
<1>2. ASSUME NEW t \in Threads, NEW i \in DOMAIN asked[t], Issue(t, i)
      PROVE  TypeOK'
  <2>1. by[t] \in Backends /\ asked[t][i] \in Matrices
    BY <1>2 DEF TokenInv, CallShape, Issue
  <2>2. /\ DOMAIN slots' = Backends
        /\ \A b \in Backends :
              /\ DOMAIN slots'[b] \subseteq Nat
              /\ \A k \in DOMAIN slots'[b] : slots'[b][k] \in Matrices
    <3> DEFINE b == by[t]
    <3>1. /\ DOMAIN slots' = Backends
          /\ DOMAIN slots'[b] = Kept(DOMAIN slots[b] \cup {nextKey[b]}, cap)
          /\ \A k \in DOMAIN slots'[b] :
                IF k = nextKey[b]
                THEN slots'[b][k] = asked[t][i]
                ELSE k \in DOMAIN slots[b] /\ slots'[b][k] = slots[b][k]
          /\ \A c \in Backends \ {b} : slots'[c] = slots[c]
      BY <1>2, <2>1, IssueEffect DEF TokenInv
    <3>2. DOMAIN slots'[b] \subseteq DOMAIN slots[b] \cup {nextKey[b]}
      BY <3>1 DEF Kept
    <3>3. nextKey[b] \in Nat
      BY <2>1 DEF TokenInv, TypeOK
    <3>4. /\ DOMAIN slots'[b] \subseteq Nat
          /\ \A k \in DOMAIN slots'[b] : slots'[b][k] \in Matrices
      BY <2>1, <3>1, <3>2, <3>3 DEF TokenInv, TypeOK
    <3> QED
      BY <3>1, <3>4 DEF TokenInv, TypeOK
  <2>3. nextKey' \in [Backends -> Nat \ {0}]
    BY <1>2, <2>1 DEF Issue, TokenInv, TypeOK
  <2>4. UNCHANGED <<clearedAt, cap, nanOnFailure, toClear, given, pc, by, rows,
                    turn>>
    BY <1>2 DEF Issue
  <2> QED
    BY <2>2, <2>3, <2>4 DEF TokenInv, TypeOK
<1>3. ASSUME NEW t \in Threads, NEW i \in DOMAIN asked[t], IssueFailed(t, i)
      PROVE  TypeOK'
  BY <1>3 DEF IssueFailed, TokenInv, TypeOK
<1>4. ASSUME NEW t \in Threads, NEW i \in DOMAIN asked[t], FactorFails(t, i)
      PROVE  TypeOK'
  BY <1>4 DEF FactorFails, TokenInv, TypeOK
<1>5. ASSUME NEW t \in Threads, Deliver(t)
      PROVE  TypeOK'
  <2>1. \A e \in made[t] : e.token \in Token
    BY DEF TokenInv, CallShape, Sound, SoundIn
  <2> QED
    BY <1>5, <2>1 DEF Deliver, Reset, TokenInv, TypeOK
<1>6. ASSUME NEW t \in Threads, RaiseFailure(t)
      PROVE  TypeOK'
  BY <1>6 DEF RaiseFailure, Reset, TokenInv, TypeOK
<1>7. ASSUME NEW t \in Threads, NEW b \in Backends, NEW ts \in Batches(given),
             NEW r \in {0} \cup {Rows[m] : m \in Matrices}, Consume(t, b, ts, r)
      PROVE  TypeOK'
  <2> r \in Nat
    BY TokenAssumption
  <2> QED
    BY <1>7 DEF Consume, TokenInv, TypeOK
<1>8. ASSUME NEW t \in Threads, Resolve(t)
      PROVE  TypeOK'
  BY <1>8 DEF Resolve, Resolving, Resolved, Current, TokenInv, TypeOK
<1>9. ASSUME NEW t \in Threads, ResolveFailed(t)
      PROVE  TypeOK'
  BY <1>9 DEF ResolveFailed, Resolving, Resolved, Current, TokenInv, TypeOK
<1>10. ASSUME NEW t \in Threads, ResolveStale(t)
      PROVE  TypeOK'
  BY <1>10 DEF ResolveStale, Resolving, Refuse, TokenInv, TypeOK
<1>11. ASSUME NEW t \in Threads, ResolveWrongRows(t)
      PROVE  TypeOK'
  BY <1>11 DEF ResolveWrongRows, Resolving, Refuse, TokenInv, TypeOK
<1>12. ASSUME NEW t \in Threads, Answer(t)
      PROVE  TypeOK'
  BY <1>12 DEF Answer, TokenInv, TypeOK
<1>13. ASSUME NEW t \in Threads, Return(t)
      PROVE  TypeOK'
  BY <1>13 DEF Return, Reset, TokenInv, TypeOK
<1>14. ASSUME NEW n \in Caps, SetTokenCap(n)
      PROVE  TypeOK'
  BY <1>14 DEF SetTokenCap, TokenInv, TypeOK
<1>15. ASSUME NEW v \in BOOLEAN, SetNanOnFailure(v)
      PROVE  TypeOK'
  BY <1>15 DEF SetNanOnFailure, TokenInv, TypeOK
<1>16. CASE ClearCache
  BY <1>16, TokenAssumption DEF ClearCache, TokenInv, TypeOK
<1>17. CASE ClearTable
  <2> DEFINE b == Head(toClear)
  <2>1. b \in Backends /\ Tail(toClear) \in Seq(Backends)
    BY <1>17 DEF ClearTable, TokenInv, TypeOK
  <2>2. DOMAIN <<>> = {}
    OBVIOUS
  <2> QED
    BY <1>17, <2>1, <2>2 DEF ClearTable, TokenInv, TypeOK
<1>18. CASE UNCHANGED vars
  BY <1>18 DEF vars, TokenInv, TypeOK
<1> QED
  BY <1>1, <1>2, <1>3, <1>4, <1>5, <1>6, <1>7, <1>8, <1>9, <1>10, <1>11,
     <1>12, <1>13, <1>14, <1>15, <1>16, <1>17, <1>18 DEF Next, Step,
     Settings

\* The calls' tables stay functions of the threads.
LEMMA NextDomains ==
  TokenInv /\ [Next]_vars =>
    DOMAIN asked' = Threads /\ DOMAIN made' = Threads /\ DOMAIN got' = Threads
<1> SUFFICES ASSUME TokenInv, [Next]_vars
             PROVE  DOMAIN asked' = Threads /\ DOMAIN made' = Threads /\ DOMAIN got' = Threads
  OBVIOUS
<1> USE DEF TokenInv, tableVars, settingVars, callVars
<1> DEFINE Goal == DOMAIN asked' = Threads /\ DOMAIN made' = Threads /\ DOMAIN got' = Threads
<1>1. ASSUME NEW t \in Threads, NEW b \in Backends,
             NEW ms \in Batches(Matrices), Factor(t, b, ms)
      PROVE  Goal
  BY <1>1 DEF Factor
<1>2. ASSUME NEW t \in Threads, NEW i \in DOMAIN asked[t], Issue(t, i)
      PROVE  Goal
  BY <1>2 DEF Issue
<1>3. ASSUME NEW t \in Threads, NEW i \in DOMAIN asked[t], IssueFailed(t, i)
      PROVE  Goal
  BY <1>3 DEF IssueFailed
<1>4. ASSUME NEW t \in Threads, NEW i \in DOMAIN asked[t], FactorFails(t, i)
      PROVE  Goal
  BY <1>4 DEF FactorFails
<1>5. ASSUME NEW t \in Threads, Deliver(t)
      PROVE  Goal
  BY <1>5 DEF Deliver, Reset
<1>6. ASSUME NEW t \in Threads, RaiseFailure(t)
      PROVE  Goal
  BY <1>6 DEF RaiseFailure, Reset
<1>7. ASSUME NEW t \in Threads, NEW b \in Backends, NEW ts \in Batches(given),
             NEW r \in {0} \cup {Rows[m] : m \in Matrices}, Consume(t, b, ts, r)
      PROVE  Goal
  BY <1>7 DEF Consume, IssuersMatch
<1>8. ASSUME NEW t \in Threads, Resolve(t)
      PROVE  Goal
  BY <1>8 DEF Resolve, Resolving, Resolved, Current
<1>9. ASSUME NEW t \in Threads, ResolveFailed(t)
      PROVE  Goal
  BY <1>9 DEF ResolveFailed, Resolving, Resolved, Current
<1>10. ASSUME NEW t \in Threads, ResolveStale(t)
      PROVE  Goal
  BY <1>10 DEF ResolveStale, Resolving, Refuse
<1>11. ASSUME NEW t \in Threads, ResolveWrongRows(t)
      PROVE  Goal
  BY <1>11 DEF ResolveWrongRows, Resolving, Refuse
<1>12. ASSUME NEW t \in Threads, Answer(t)
      PROVE  Goal
  BY <1>12 DEF Answer
<1>13. ASSUME NEW t \in Threads, Return(t)
      PROVE  Goal
  BY <1>13 DEF Return, Reset
<1>14. ASSUME NEW n \in Caps, SetTokenCap(n)
      PROVE  Goal
  BY <1>14 DEF SetTokenCap
<1>15. ASSUME NEW v \in BOOLEAN, SetNanOnFailure(v)
      PROVE  Goal
  BY <1>15 DEF SetNanOnFailure
<1>16. CASE ClearCache
  BY <1>16 DEF ClearCache
<1>17. CASE ClearTable
  BY <1>17 DEF ClearTable
<1>18. CASE UNCHANGED vars
  BY <1>18 DEF vars
<1> QED
  BY <1>1, <1>2, <1>3, <1>4, <1>5, <1>6, <1>7, <1>8, <1>9, <1>10, <1>11,
     <1>12, <1>13, <1>14, <1>15, <1>16, <1>17, <1>18 DEF Next, Step,
     Settings

\* A call whose element table, request and references a step leaves alone keeps
\* its shape, whatever the step does to the tables and to the other calls.
LEMMA CallStays ==
  ASSUME TokenInv, [Next]_vars, NEW u \in Threads,
         UNCHANGED <<by[u], asked[u], rows[u], made[u], got[u]>>,
         \/ pc'[u] = pc[u]
         \/ pc'[u] \in {"stale", "misfit"}
         \/ pc[u] = "factoring" /\ pc'[u] = "failing"
         \/ pc[u] = "resolving" /\ pc'[u] = "answered"
  PROVE  CallShape(u)'
<1>1. \A k : Sound(k) => SoundIn(k, slots', nextKey')
  BY SoundStays DEF Sound
<1>2. CallShape(u)
  BY DEF TokenInv
<1>3. \A e : Exact(u, e) => Exact(u, e)'
  BY DEF Exact, RowsFit
<1> QED
  BY <1>1, <1>2, <1>3 DEF CallShape, Sound, Exact, RowsFit

\* A thread that is between calls has nothing to keep.
LEMMA ResetShape ==
  ASSUME TokenInv, NEW u \in Threads, Reset(u)
  PROVE  CallShape(u)'
  BY DEF Reset, CallShape, TokenInv, TypeOK

\* Every step keeps what calls hold: sound tokens, and exact references.
LEMMA NextCalls ==
  TokenInv /\ [Next]_vars => \A u \in Threads : CallShape(u)'
<1> SUFFICES ASSUME TokenInv, [Next]_vars
             PROVE  \A u \in Threads : CallShape(u)'
  OBVIOUS
<1> USE DEF TokenInv, tableVars, settingVars, callVars
<1>0. \A k : Sound(k) => SoundIn(k, slots', nextKey')
  BY SoundStays DEF Sound
<1>1. ASSUME NEW t \in Threads, NEW b \in Backends,
             NEW ms \in Batches(Matrices), Factor(t, b, ms)
      PROVE  \A u \in Threads : CallShape(u)'
  <2>1. \A u \in Threads \ {t} :
          UNCHANGED <<pc[u], by[u], asked[u], rows[u], made[u], got[u]>>
    BY <1>1 DEF Factor, TypeOK
  <2>2. \A u \in Threads \ {t} : CallShape(u)'
    BY <2>1, CallStays
  <2>3. \A i \in DOMAIN ms : ms[i] \in Matrices
    BY BatchElements
  <2>4. CallShape(t)'
    BY <1>1, <2>3, <1>0 DEF Factor, CallShape, TypeOK, Sound
  <2> QED
    BY <2>2, <2>4
<1>2. ASSUME NEW t \in Threads, NEW i \in DOMAIN asked[t], Issue(t, i)
      PROVE  \A u \in Threads : CallShape(u)'
  <2>1. \A u \in Threads \ {t} :
          UNCHANGED <<pc[u], by[u], asked[u], rows[u], made[u], got[u]>>
    BY <1>2 DEF Issue, TypeOK
  <2>2. \A u \in Threads \ {t} : CallShape(u)'
    BY <2>1, CallStays
  <2> DEFINE b == by[t]
             key == nextKey[b]
             m == asked[t][i]
             new == [key |-> key, issuer |-> b, of |-> m]
  <2>3. b \in Backends /\ m \in Matrices
    BY <1>2 DEF CallShape, Issue
  <2>4. key \in Nat \ {0} /\ nextKey'[b] = key + 1
    BY <1>2, <2>3, IssueEffect DEF TypeOK
  <2>5. key \in DOMAIN slots'[b] => slots'[b][key] = m
    BY <1>2, <2>3, IssueEffect
  <2>6. SoundIn(new, slots', nextKey')
    <3>1. new \in Token
      BY <2>3, <2>4 DEF Token
    <3>2. key \in 1..(nextKey'[b] - 1)
      BY <2>4
    <3> QED
      BY <2>5, <3>1, <3>2 DEF SoundIn
  <2>7. made' = [made EXCEPT ![t] = @ \cup {[at |-> i, token |-> new]}]
    BY <1>2 DEF Issue
  <2>8. \A e \in made'[t] : SoundIn(e.token, slots', nextKey')
    BY <2>6, <2>7, <1>0 DEF CallShape
  <2>9. UNCHANGED <<pc, by, asked, got>> /\ pc[t] \in {"factoring", "failing"}
    BY <1>2 DEF Issue
  <2>10. CallShape(t)'
    BY <2>8, <2>9 DEF CallShape, Sound
  <2> QED
    BY <2>2, <2>10
<1>3. ASSUME NEW t \in Threads, NEW i \in DOMAIN asked[t], IssueFailed(t, i)
      PROVE  \A u \in Threads : CallShape(u)'
  <2>1. \A u \in Threads \ {t} :
          UNCHANGED <<pc[u], by[u], asked[u], rows[u], made[u], got[u]>>
    BY <1>3 DEF IssueFailed, TypeOK
  <2>2. \A u \in Threads \ {t} : CallShape(u)'
    BY <2>1, CallStays
  <2> DEFINE new == [key |-> FailedKey, issuer |-> by[t], of |-> asked[t][i]]
  <2>3. by[t] \in Backends /\ asked[t][i] \in Matrices /\ asked[t][i] \in Failing
    BY <1>3 DEF CallShape, IssueFailed
  <2>4. SoundIn(new, slots', nextKey')
    BY <2>3 DEF SoundIn, Token, FailedKey
  <2>5. made' = [made EXCEPT ![t] = @ \cup {[at |-> i, token |-> new]}]
    BY <1>3 DEF IssueFailed
  <2>6. \A e \in made'[t] : SoundIn(e.token, slots', nextKey')
    BY <2>4, <2>5, <1>0 DEF CallShape
  <2>7. UNCHANGED <<pc, by, asked, got>> /\ pc[t] \in {"factoring", "failing"}
    BY <1>3 DEF IssueFailed
  <2>8. CallShape(t)'
    BY <2>6, <2>7 DEF CallShape, Sound
  <2> QED
    BY <2>2, <2>8
<1>4. ASSUME NEW t \in Threads, NEW i \in DOMAIN asked[t], FactorFails(t, i)
      PROVE  \A u \in Threads : CallShape(u)'
  <2>1. \A u \in Threads : UNCHANGED <<by[u], asked[u], rows[u], made[u], got[u]>>
    BY <1>4 DEF FactorFails, TypeOK
  <2>2. \A u \in Threads :
          \/ pc'[u] = pc[u]
          \/ pc'[u] \in {"stale", "misfit"}
          \/ pc[u] = "factoring" /\ pc'[u] = "failing"
          \/ pc[u] = "resolving" /\ pc'[u] = "answered"
    BY <1>4 DEF FactorFails, TypeOK
  <2> QED
    BY <2>1, <2>2, CallStays
<1>5. ASSUME NEW t \in Threads, Deliver(t)
      PROVE  \A u \in Threads : CallShape(u)'
  <2>1. \A u \in Threads \ {t} :
          UNCHANGED <<pc[u], by[u], asked[u], rows[u], made[u], got[u]>>
    BY <1>5 DEF Deliver, Reset, TypeOK
  <2>2. \A u \in Threads \ {t} : CallShape(u)'
    BY <2>1, CallStays
  <2>3. CallShape(t)'
    BY <1>5, ResetShape DEF Deliver
  <2> QED
    BY <2>2, <2>3
<1>6. ASSUME NEW t \in Threads, RaiseFailure(t)
      PROVE  \A u \in Threads : CallShape(u)'
  <2>1. \A u \in Threads \ {t} :
          UNCHANGED <<pc[u], by[u], asked[u], rows[u], made[u], got[u]>>
    BY <1>6 DEF RaiseFailure, Reset, TypeOK
  <2>2. \A u \in Threads \ {t} : CallShape(u)'
    BY <2>1, CallStays
  <2>3. CallShape(t)'
    BY <1>6, ResetShape DEF RaiseFailure
  <2> QED
    BY <2>2, <2>3
<1>7. ASSUME NEW t \in Threads, NEW b \in Backends, NEW ts \in Batches(given),
             NEW r \in {0} \cup {Rows[m] : m \in Matrices}, Consume(t, b, ts, r)
      PROVE  \A u \in Threads : CallShape(u)'
  <2>1. \A u \in Threads \ {t} :
          UNCHANGED <<pc[u], by[u], asked[u], rows[u], made[u], got[u]>>
    BY <1>7 DEF Consume, IssuersMatch, TypeOK
  <2>2. \A u \in Threads \ {t} : CallShape(u)'
    BY <2>1, CallStays
  <2>3. \A i \in DOMAIN ts : ts[i] \in given /\ ts[i].issuer = b
    BY <1>7, BatchElements DEF Consume, IssuersMatch
  <2>4. \A i \in DOMAIN ts : SoundIn(ts[i], slots', nextKey')
    BY <2>3, <1>0
  <2>5. got'[t] = {} /\ made'[t] = made[t]
    BY <1>7 DEF Consume, CallShape
  <2>6. asked'[t] = ts /\ by'[t] = b /\ pc'[t] = "resolving"
    BY <1>7 DEF Consume, TypeOK
  <2>7. \A e \in made'[t] : SoundIn(e.token, slots', nextKey')
    BY <2>5, <1>0 DEF CallShape
  <2>8. CallShape(t)'
    BY <2>3, <2>4, <2>5, <2>6, <2>7 DEF CallShape, Sound
  <2> QED
    BY <2>2, <2>8
<1>8. ASSUME NEW t \in Threads, Resolve(t)
      PROVE  \A u \in Threads : CallShape(u)'
  <2>1. \A u \in Threads \ {t} :
          UNCHANGED <<pc[u], by[u], asked[u], rows[u], made[u], got[u]>>
    BY <1>8 DEF Resolve, Resolving, Resolved, Current, TypeOK
  <2>2. \A u \in Threads \ {t} : CallShape(u)'
    BY <2>1, CallStays
  <2> DEFINE token == Current(t)
             e == [at |-> turn[t], num |-> slots[by[t]][Current(t).key]]
  <2>3. /\ turn[t] \in DOMAIN asked[t] /\ Sound(token) /\ token.issuer = by[t]
        /\ pc[t] = "resolving"
    BY <1>8 DEF Resolve, Resolving, Resolved, Current, CallShape
  <2>4. /\ token.key # FailedKey /\ e.num = token.of /\ RowsFit(t, token.of)
    <3>1. /\ token.key \in DOMAIN slots[token.issuer]
          /\ RowsFit(t, slots[token.issuer][token.key])
      BY <1>8, <2>3 DEF Resolve
    <3>2. token.key \in Nat
      BY <3>1, <2>3 DEF TypeOK, Sound, SoundIn, Token
    <3>3. token.key # FailedKey
      BY <3>2 DEF FailedKey
    <3> QED
      BY <2>3, <3>1, <3>3 DEF Sound, SoundIn
  <2>5. Exact(t, e)
    BY <2>3, <2>4 DEF Exact, Current
  <2>6. got' = [got EXCEPT ![t] = @ \cup {e}]
    BY <1>8 DEF Resolve, Resolved
  <2>7. UNCHANGED <<pc, by, asked, made, rows>>
    BY <1>8 DEF Resolve, Resolved
  <2>8. \A x \in got'[t] : x.at \in DOMAIN asked[t] /\ Exact(t, x)
    BY <2>3, <2>5, <2>6 DEF CallShape
  <2>9. \A x \in got'[t] : x.at \in DOMAIN asked'[t] /\ Exact(t, x)'
    BY <2>7, <2>8 DEF Exact, RowsFit
  <2>10. CallShape(t)'
    BY <2>3, <2>7, <2>9, <1>0 DEF CallShape, Sound
  <2> QED
    BY <2>2, <2>10
<1>9. ASSUME NEW t \in Threads, ResolveFailed(t)
      PROVE  \A u \in Threads : CallShape(u)'
  <2>1. \A u \in Threads \ {t} :
          UNCHANGED <<pc[u], by[u], asked[u], rows[u], made[u], got[u]>>
    BY <1>9 DEF ResolveFailed, Resolving, Resolved, Current, TypeOK
  <2>2. \A u \in Threads \ {t} : CallShape(u)'
    BY <2>1, CallStays
  <2> DEFINE token == Current(t)
             e == [at |-> turn[t], num |-> None]
  <2>3. /\ turn[t] \in DOMAIN asked[t] /\ Sound(token) /\ token.issuer = by[t]
        /\ pc[t] = "resolving"
    BY <1>9 DEF ResolveFailed, Resolving, Resolved, Current, CallShape
  <2>4. token.key = FailedKey /\ e.num = None /\ token.of \in Failing
    <3>1. token.key = FailedKey
      BY <1>9 DEF ResolveFailed
    <3> QED
      BY <2>3, <3>1 DEF Sound, SoundIn, FailedKey
  <2>5. Exact(t, e)
    BY <2>3, <2>4 DEF Exact, Current
  <2>6. got' = [got EXCEPT ![t] = @ \cup {e}]
    BY <1>9 DEF ResolveFailed, Resolved
  <2>7. UNCHANGED <<pc, by, asked, made, rows>>
    BY <1>9 DEF ResolveFailed, Resolved
  <2>8. \A x \in got'[t] : x.at \in DOMAIN asked[t] /\ Exact(t, x)
    BY <2>3, <2>5, <2>6 DEF CallShape
  <2>9. \A x \in got'[t] : x.at \in DOMAIN asked'[t] /\ Exact(t, x)'
    BY <2>7, <2>8 DEF Exact, RowsFit
  <2>10. CallShape(t)'
    BY <2>3, <2>7, <2>9, <1>0 DEF CallShape, Sound
  <2> QED
    BY <2>2, <2>10
<1>10. ASSUME NEW t \in Threads, ResolveStale(t)
      PROVE  \A u \in Threads : CallShape(u)'
  <2>1. \A u \in Threads : UNCHANGED <<by[u], asked[u], rows[u], made[u], got[u]>>
    BY <1>10 DEF ResolveStale, Resolving, Refuse, TypeOK
  <2>2. \A u \in Threads :
          \/ pc'[u] = pc[u]
          \/ pc'[u] \in {"stale", "misfit"}
          \/ pc[u] = "factoring" /\ pc'[u] = "failing"
          \/ pc[u] = "resolving" /\ pc'[u] = "answered"
    BY <1>10 DEF ResolveStale, Resolving, Refuse, TypeOK
  <2> QED
    BY <2>1, <2>2, CallStays
<1>11. ASSUME NEW t \in Threads, ResolveWrongRows(t)
      PROVE  \A u \in Threads : CallShape(u)'
  <2>1. \A u \in Threads : UNCHANGED <<by[u], asked[u], rows[u], made[u], got[u]>>
    BY <1>11 DEF ResolveWrongRows, Resolving, Refuse, TypeOK
  <2>2. \A u \in Threads :
          \/ pc'[u] = pc[u]
          \/ pc'[u] \in {"stale", "misfit"}
          \/ pc[u] = "factoring" /\ pc'[u] = "failing"
          \/ pc[u] = "resolving" /\ pc'[u] = "answered"
    BY <1>11 DEF ResolveWrongRows, Resolving, Refuse, TypeOK
  <2> QED
    BY <2>1, <2>2, CallStays
<1>12. ASSUME NEW t \in Threads, Answer(t)
      PROVE  \A u \in Threads : CallShape(u)'
  <2>1. \A u \in Threads : UNCHANGED <<by[u], asked[u], rows[u], made[u], got[u]>>
    BY <1>12 DEF Answer, TypeOK
  <2>2. \A u \in Threads :
          \/ pc'[u] = pc[u]
          \/ pc'[u] \in {"stale", "misfit"}
          \/ pc[u] = "factoring" /\ pc'[u] = "failing"
          \/ pc[u] = "resolving" /\ pc'[u] = "answered"
    BY <1>12 DEF Answer, TypeOK
  <2> QED
    BY <2>1, <2>2, CallStays
<1>13. ASSUME NEW t \in Threads, Return(t)
      PROVE  \A u \in Threads : CallShape(u)'
  <2>1. \A u \in Threads \ {t} :
          UNCHANGED <<pc[u], by[u], asked[u], rows[u], made[u], got[u]>>
    BY <1>13 DEF Return, Reset, TypeOK
  <2>2. \A u \in Threads \ {t} : CallShape(u)'
    BY <2>1, CallStays
  <2>3. CallShape(t)'
    BY <1>13, ResetShape DEF Return
  <2> QED
    BY <2>2, <2>3
<1>14. ASSUME NEW n \in Caps, SetTokenCap(n)
      PROVE  \A u \in Threads : CallShape(u)'
  <2>1. \A u \in Threads : UNCHANGED <<by[u], asked[u], rows[u], made[u], got[u]>>
    BY <1>14 DEF SetTokenCap, TypeOK
  <2>2. \A u \in Threads :
          \/ pc'[u] = pc[u]
          \/ pc'[u] \in {"stale", "misfit"}
          \/ pc[u] = "factoring" /\ pc'[u] = "failing"
          \/ pc[u] = "resolving" /\ pc'[u] = "answered"
    BY <1>14 DEF SetTokenCap, TypeOK
  <2> QED
    BY <2>1, <2>2, CallStays
<1>15. ASSUME NEW v \in BOOLEAN, SetNanOnFailure(v)
      PROVE  \A u \in Threads : CallShape(u)'
  <2>1. \A u \in Threads : UNCHANGED <<by[u], asked[u], rows[u], made[u], got[u]>>
    BY <1>15 DEF SetNanOnFailure, TypeOK
  <2>2. \A u \in Threads :
          \/ pc'[u] = pc[u]
          \/ pc'[u] \in {"stale", "misfit"}
          \/ pc[u] = "factoring" /\ pc'[u] = "failing"
          \/ pc[u] = "resolving" /\ pc'[u] = "answered"
    BY <1>15 DEF SetNanOnFailure, TypeOK
  <2> QED
    BY <2>1, <2>2, CallStays
<1>16. CASE ClearCache
  <2>1. \A u \in Threads : UNCHANGED <<by[u], asked[u], rows[u], made[u], got[u]>>
    BY <1>16 DEF ClearCache, TypeOK
  <2>2. \A u \in Threads :
          \/ pc'[u] = pc[u]
          \/ pc'[u] \in {"stale", "misfit"}
          \/ pc[u] = "factoring" /\ pc'[u] = "failing"
          \/ pc[u] = "resolving" /\ pc'[u] = "answered"
    BY <1>16 DEF ClearCache, TypeOK
  <2> QED
    BY <2>1, <2>2, CallStays
<1>17. CASE ClearTable
  <2>1. \A u \in Threads : UNCHANGED <<by[u], asked[u], rows[u], made[u], got[u]>>
    BY <1>17 DEF ClearTable, TypeOK
  <2>2. \A u \in Threads :
          \/ pc'[u] = pc[u]
          \/ pc'[u] \in {"stale", "misfit"}
          \/ pc[u] = "factoring" /\ pc'[u] = "failing"
          \/ pc[u] = "resolving" /\ pc'[u] = "answered"
    BY <1>17 DEF ClearTable, TypeOK
  <2> QED
    BY <2>1, <2>2, CallStays
<1>18. CASE UNCHANGED vars
  <2>1. \A u \in Threads : UNCHANGED <<by[u], asked[u], rows[u], made[u], got[u]>>
    BY <1>18 DEF vars, TypeOK
  <2>2. \A u \in Threads :
          \/ pc'[u] = pc[u]
          \/ pc'[u] \in {"stale", "misfit"}
          \/ pc[u] = "factoring" /\ pc'[u] = "failing"
          \/ pc[u] = "resolving" /\ pc'[u] = "answered"
    BY <1>18 DEF vars, TypeOK
  <2> QED
    BY <2>1, <2>2, CallStays
<1> QED
  BY <1>1, <1>2, <1>3, <1>4, <1>5, <1>6, <1>7, <1>8, <1>9, <1>10, <1>11,
     <1>12, <1>13, <1>14, <1>15, <1>16, <1>17, <1>18 DEF Next, Step,
     Settings

\* The tokens the program holds stay sound: it is given sound ones only.
LEMMA NextGiven ==
  TokenInv /\ [Next]_vars => \A k \in given' : SoundIn(k, slots', nextKey')
<1> SUFFICES ASSUME TokenInv, [Next]_vars
             PROVE  \A k \in given' : SoundIn(k, slots', nextKey')
  OBVIOUS
<1>1. \A k : Sound(k) => SoundIn(k, slots', nextKey')
  BY SoundStays DEF Sound
<1>2. ASSUME NEW t \in Threads, Deliver(t)
      PROVE  \A k \in given' : Sound(k)
  BY <1>2 DEF Deliver, TokenInv, CallShape
<1>3. (\E t \in Threads : Deliver(t)) \/ UNCHANGED given
  BY DEF Next, Step, Settings, vars, tableVars, settingVars, Factor, Issue,
         IssueFailed, FactorFails, RaiseFailure, Consume, Resolve, ResolveFailed,
         Resolved, ResolveStale, ResolveWrongRows, Refuse, Answer, Return,
         SetTokenCap, SetNanOnFailure, ClearCache, ClearTable
<1> QED
  BY <1>1, <1>2, <1>3 DEF TokenInv

\* So sound tokens and exact references are an invariant.
LEMMA Inductive == TokenInv /\ [Next]_vars => TokenInv'
  BY NextType, NextDomains, NextCalls, NextGiven DEF TokenInv, Sound

-----------------------------------------------------------------------------
\* The state of the tables, the settings and every call is always well formed.
THEOREM TokensTypeCorrect == Spec => []TypeOK
<1>1. TokenInv => TypeOK
  BY DEF TokenInv
<1> QED
  BY InitToken, Inductive, <1>1, PTL DEF Spec

\* A token stands for the factor it was issued for and for no other, whatever
\* any number of threads issue, evict and clear meanwhile, in whatever backend.
THEOREM TokensAnswerOwn == Spec => []AnswersOwnFactors
<1>1. TokenInv => AnswersOwnFactors
  BY DEF TokenInv, CallShape, Exact, AnswersOwnFactors
<1> QED
  BY InitToken, Inductive, <1>1, PTL DEF Spec
-----------------------------------------------------------------------------
(* What a table keeps: its newest tokens, back to one that clear_cache or  *)
(* the cap of some moment left as the oldest.                              *)

Window(b) ==
  \E oldest \in 1..nextKey[b] :
    /\ DOMAIN slots[b] = oldest..(nextKey[b] - 1)
    /\ \A k \in clearedAt[b]..(oldest - 1) : \E n \in Caps : nextKey[b] - 1 - k >= n

WindowInv == TokenInv /\ \A b \in Backends : Window(b)

\* Trimming an unbroken run of keys keeps the newest n of them.
LEMMA TrimmedRun ==
  ASSUME NEW lo \in Nat, NEW hi \in Nat, NEW n \in Nat \ {0}, lo <= hi
  PROVE  \E l \in lo..hi : /\ Kept(lo..hi, n) = l..hi
                           /\ (l = lo \/ l = hi - n + 1)
                           /\ hi - l + 1 <= n
<1>1. \A k \in lo..hi : Cardinality({j \in lo..hi : j > k}) = hi - k
  <2> SUFFICES ASSUME NEW k \in lo..hi
               PROVE  Cardinality({j \in lo..hi : j > k}) = hi - k
    OBVIOUS
  <2>1. {j \in lo..hi : j > k} = (k + 1)..hi
    OBVIOUS
  <2> DEFINE k1 == k + 1
  <2>2. k1 \in Int /\ hi \in Int /\ k \in Int
    OBVIOUS
  <2> HIDE DEF k1
  <2>3. Cardinality(k1..hi) = IF k1 > hi THEN 0 ELSE hi - k1 + 1
    BY <2>2, FS_Interval
  <2> USE DEF k1
  <2>4. (IF k1 > hi THEN 0 ELSE hi - k1 + 1) = hi - k
    OBVIOUS
  <2> QED
    BY <2>1, <2>3, <2>4
<1>2. Kept(lo..hi, n) = {k \in lo..hi : hi - k < n}
  BY <1>1 DEF Kept
<1>3. CASE hi - n + 1 <= lo
  <2>1. \A k \in lo..hi : hi - k < n
    BY <1>3
  <2>2. Kept(lo..hi, n) = lo..hi
    BY <1>2, <2>1
  <2>3. lo \in lo..hi /\ hi - lo + 1 <= n
    BY <1>3
  <2> QED
    BY <2>2, <2>3
<1>4. CASE hi - n + 1 > lo
  <2> DEFINE l == hi - n + 1
  <2>1. \A k \in lo..hi : hi - k < n <=> k \in l..hi
    BY <1>4
  <2>2. l..hi \subseteq lo..hi
    BY <1>4
  <2>3. Kept(lo..hi, n) = l..hi
    BY <1>2, <2>1, <2>2
  <2>4. l \in lo..hi /\ hi - l + 1 <= n
    BY <1>4
  <2> QED
    BY <2>3, <2>4
<1> QED
  BY <1>3, <1>4

\* An issue adds the newest key and trims the oldest, to the cap at most.
LEMMA IssueWindow ==
  ASSUME TokenInv, NEW t \in Threads, NEW i \in DOMAIN asked[t], Issue(t, i),
         Window(by[t])
  PROVE  Window(by[t])' /\ Cardinality(DOMAIN slots'[by[t]]) <= cap
<1> DEFINE b == by[t]
           key == nextKey[b]
<1>1. b \in Backends /\ TypeOK
  BY DEF TokenInv, CallShape, Issue
<1>2. key \in Nat \ {0} /\ cap \in Nat \ {0} /\ cap \in Caps /\ clearedAt[b] \in Nat \ {0}
  BY <1>1, TokenAssumption DEF TypeOK
<1>3. /\ nextKey' = [nextKey EXCEPT ![b] = key + 1]
      /\ DOMAIN slots'[b] = Kept(DOMAIN slots[b] \cup {key}, cap)
  BY <1>1, IssueEffect
<1>4. nextKey'[b] = key + 1
  BY <1>1, <1>3 DEF TypeOK
<1>5. clearedAt' = clearedAt /\ by' = by
  BY DEF Issue
<1>6. PICK oldest \in 1..key :
        /\ DOMAIN slots[b] = oldest..(key - 1)
        /\ \A k \in clearedAt[b]..(oldest - 1) : \E n \in Caps : key - 1 - k >= n
  BY DEF Window
<1>7. DOMAIN slots[b] \cup {key} = oldest..key
  BY <1>2, <1>6
<1>8. PICK l \in oldest..key : /\ Kept(oldest..key, cap) = l..key
                               /\ (l = oldest \/ l = key - cap + 1)
                               /\ key - l + 1 <= cap
  <2>1. oldest \in Nat /\ oldest <= key /\ key \in Nat
    BY <1>2
  <2> QED
    BY <1>2, <2>1, TrimmedRun
<1>9. DOMAIN slots'[b] = l..(nextKey'[b] - 1)
  <2>1. DOMAIN slots'[b] = l..key
    BY <1>3, <1>7, <1>8
  <2>2. nextKey'[b] - 1 = key
    BY <1>2, <1>4
  <2> QED
    BY <2>1, <2>2
<1>10. \A k \in clearedAt[b]..(l - 1) : \E n \in Caps : key - k >= n
  <2> SUFFICES ASSUME NEW k \in clearedAt[b]..(l - 1)
               PROVE  \E n \in Caps : key - k >= n
    OBVIOUS
  <2>1. CASE k < oldest
    <3>1. PICK n \in Caps : key - 1 - k >= n
      BY <1>2, <1>6, <2>1
    <3>2. n \in Nat
      BY TokenAssumption
    <3> QED
      BY <1>2, <3>1, <3>2
  <2>2. CASE k >= oldest
    BY <1>2, <1>8, <2>2
  <2> QED
    BY <1>2, <2>1, <2>2
<1>11. Window(b)'
  <2>1. l \in 1..nextKey'[b]
    BY <1>2, <1>4
  <2> QED
    <3>1. nextKey'[b] - 1 = key /\ clearedAt'[b] = clearedAt[b]
      BY <1>2, <1>4, <1>5
    <3>2. /\ DOMAIN slots'[b] = l..(nextKey'[b] - 1)
          /\ \A k \in clearedAt'[b]..(l - 1) : \E n \in Caps : nextKey'[b] - 1 - k >= n
      BY <1>9, <1>10, <3>1
    <3> QED
      BY <1>5, <2>1, <3>2 DEF Window
<1>12. Cardinality(DOMAIN slots'[b]) <= cap
  <2>1. Cardinality(l..key) = IF l > key THEN 0 ELSE key - l + 1
    BY <1>2, FS_Interval
  <2> QED
    BY <1>2, <1>4, <1>8, <1>9, <2>1
<1> QED
  BY <1>11, <1>12

\* Nothing but an issue changes the count of a table's keys.
LEMMA OnlyIssueCounts ==
  ASSUME [Next]_vars
  PROVE  \/ \E t \in Threads : \E i \in DOMAIN asked[t] : Issue(t, i)
         \/ ClearTable
         \/ UNCHANGED tableVars
  BY DEF Next, Step, Settings, vars, tableVars, settingVars, callVars, Factor,
         IssueFailed, FactorFails, Deliver, RaiseFailure, Reset, Consume, Resolve,
         ResolveFailed, Resolved, ResolveStale, ResolveWrongRows, Refuse, Answer,
         Return, SetTokenCap, SetNanOnFailure, ClearCache

\* Every step leaves every table with an unbroken run of its newest tokens.
LEMMA NextWindow ==
  ASSUME TokenInv, \A b \in Backends : Window(b), [Next]_vars
  PROVE  \A b \in Backends : Window(b)'
<1>1. ASSUME NEW t \in Threads, NEW i \in DOMAIN asked[t], Issue(t, i)
      PROVE  \A b \in Backends : Window(b)'
  <2>1. by[t] \in Backends /\ TypeOK /\ by' = by
    BY <1>1 DEF TokenInv, CallShape, Issue
  <2>2. Window(by[t])'
    BY <1>1, <2>1, IssueWindow
  <2>3. ASSUME NEW b \in Backends, b # by[t] PROVE Window(b)'
    <3>1. slots'[b] = slots[b] /\ nextKey'[b] = nextKey[b] /\ clearedAt' = clearedAt
      BY <1>1, <2>1, <2>3, IssueEffect DEF TypeOK, Issue
    <3> QED
      BY <3>1 DEF Window
  <2> QED
    BY <2>1, <2>2, <2>3
<1>2. ASSUME ClearTable PROVE \A b \in Backends : Window(b)'
  <2> SUFFICES ASSUME NEW b \in Backends PROVE Window(b)'
    OBVIOUS
  <2>1. nextKey' = nextKey /\ nextKey[b] \in Nat \ {0} /\ TypeOK
    BY <1>2 DEF ClearTable, TokenInv, TypeOK
  <2>2. CASE b = Head(toClear)
    <3>1. slots'[b] = <<>> /\ clearedAt'[b] = nextKey[b]
      BY <1>2, <2>1, <2>2 DEF ClearTable, TypeOK
    <3>2. DOMAIN slots'[b] = nextKey[b]..(nextKey[b] - 1)
      BY <2>1, <3>1
    <3> QED
      BY <2>1, <3>1, <3>2 DEF Window
  <2>3. CASE b # Head(toClear)
    <3>1. slots'[b] = slots[b] /\ clearedAt'[b] = clearedAt[b]
      BY <1>2, <2>1, <2>3 DEF ClearTable, TypeOK
    <3> QED
      BY <2>1, <3>1 DEF Window
  <2> QED
    BY <2>2, <2>3
<1>3. ASSUME UNCHANGED tableVars PROVE \A b \in Backends : Window(b)'
  BY <1>3 DEF tableVars, Window
<1> QED
  BY <1>1, <1>2, <1>3, OnlyIssueCounts

\* The tables begin empty.
LEMMA InitWindow ==
  ASSUME Init
  PROVE  \A b \in Backends : Window(b)
  BY DEF Init, Window

\* Every table keeps an unbroken run of its newest tokens.
LEMMA Windows == Spec => []WindowInv
<1>1. Init => WindowInv
  BY InitToken, InitWindow DEF WindowInv
<1>2. WindowInv /\ [Next]_vars => WindowInv'
  <2> SUFFICES ASSUME WindowInv, [Next]_vars PROVE WindowInv'
    OBVIOUS
  <2>1. TokenInv'
    BY Inductive DEF WindowInv
  <2>2. \A b \in Backends : Window(b)'
    BY NextWindow DEF WindowInv
  <2> QED
    BY <2>1, <2>2 DEF WindowInv
<1> QED
  BY <1>1, <1>2, PTL DEF Spec

\* A token is found in its table unless the table was cleared since, or as many
\* newer tokens were issued as some cap allows: nothing else makes it stale.
THEOREM FreshTokensFound == Spec => []FreshTokensResolve
<1>1. WindowInv => FreshTokensResolve
  <2> SUFFICES ASSUME WindowInv,
                      NEW k \in given, k.key # FailedKey,
                      k.key >= clearedAt[k.issuer],
                      \A n \in Caps : nextKey[k.issuer] - 1 - k.key < n
               PROVE  k.key \in DOMAIN slots[k.issuer]
    BY DEF FreshTokensResolve
  <2> DEFINE b == k.issuer
  <2>0. Sound(k) /\ TypeOK /\ \A c \in Backends : Window(c)
    BY DEF WindowInv, TokenInv
  <2>1. b \in Backends /\ k.key \in 1..(nextKey[b] - 1)
    BY <2>0 DEF Sound, SoundIn, Token
  <2>2. nextKey[b] \in Nat \ {0} /\ clearedAt[b] \in Nat \ {0} /\ Caps \subseteq Nat
    BY <2>0, <2>1, TokenAssumption DEF TypeOK
  <2>3. PICK oldest \in 1..nextKey[b] :
          /\ DOMAIN slots[b] = oldest..(nextKey[b] - 1)
          /\ \A j \in clearedAt[b]..(oldest - 1) :
               \E n \in Caps : nextKey[b] - 1 - j >= n
    BY <2>0, <2>1 DEF Window
  <2>4. ASSUME k.key < oldest PROVE FALSE
    <3>1. PICK n \in Caps : nextKey[b] - 1 - k.key >= n
      <4>1. k.key \in clearedAt[b]..(oldest - 1)
        BY <2>1, <2>2, <2>3, <2>4
      <4> QED
        BY <2>3, <4>1
    <3> QED
      BY <2>1, <2>2, <3>1
  <2>5. k.key \in oldest..(nextKey[b] - 1)
    BY <2>1, <2>2, <2>3, <2>4
  <2> QED
    BY <2>3, <2>5
<1> QED
  BY <1>1, Windows, PTL

\* An issue leaves its table within the cap it found.
THEOREM IssuedTableTrimmed == Spec => IssuingTrims
<1>1. WindowInv /\ [Next]_vars
        => [\A b \in Backends :
              nextKey'[b] # nextKey[b] => Cardinality(DOMAIN slots'[b]) <= cap]_vars
  <2> SUFFICES ASSUME WindowInv, [Next]_vars,
                      NEW b \in Backends, nextKey'[b] # nextKey[b]
               PROVE  Cardinality(DOMAIN slots'[b]) <= cap
    OBVIOUS
  <2>1. PICK t \in Threads : \E i \in DOMAIN asked[t] : Issue(t, i)
    BY OnlyIssueCounts DEF ClearTable, tableVars
  <2>2. PICK i \in DOMAIN asked[t] : Issue(t, i)
    BY <2>1
  <2>3. by[t] \in Backends /\ TypeOK /\ TokenInv /\ Window(by[t])
    BY <2>2 DEF WindowInv, TokenInv, CallShape, Issue
  <2>4. b = by[t]
    BY <2>2, <2>3 DEF Issue, TypeOK
  <2> QED
    BY <2>2, <2>3, <2>4, IssueWindow
<1> QED
  BY <1>1, Windows, PTL DEF IssuingTrims, Spec
-----------------------------------------------------------------------------
(* The tables implement the ledger.                                        *)

\* The entries of the tables, before a step and after it.
LEMMA LiveEntries ==
  /\ \A x : x \in Live <=> \E b \in Backends : \E k \in DOMAIN slots[b] :
                              x = [name |-> <<b, k>>, of |-> slots[b][k]]
  /\ \A x : x \in Live' <=> \E b \in Backends : \E k \in DOMAIN slots'[b] :
                              x = [name |-> <<b, k>>, of |-> slots'[b][k]]
  BY DEF Live, Named

\* A sound token is live when its table has its key.
LEMMA LiveWhenThere ==
  ASSUME TypeOK, NEW k, Sound(k)
  PROVE  Named(k) \in Live <=> k.key \in DOMAIN slots[k.issuer]
<1>1. k.issuer \in Backends /\ Named(k) = [name |-> <<k.issuer, k.key>>, of |-> k.of]
  BY DEF Sound, SoundIn, Token, Named
<1>2. ASSUME Named(k) \in Live PROVE k.key \in DOMAIN slots[k.issuer]
  <2>1. PICK b \in Backends : \E j \in DOMAIN slots[b] :
               Named(k) = [name |-> <<b, j>>, of |-> slots[b][j]]
    BY <1>2, LiveEntries
  <2>2. PICK j \in DOMAIN slots[b] : Named(k) = [name |-> <<b, j>>, of |-> slots[b][j]]
    BY <2>1
  <2>3. <<k.issuer, k.key>> = <<b, j>>
    BY <1>1, <2>2
  <2> QED
    BY <2>2, <2>3
<1>3. ASSUME k.key \in DOMAIN slots[k.issuer] PROVE Named(k) \in Live
  <2>1. k.key # FailedKey
    BY <1>1, <1>3 DEF TypeOK, FailedKey
  <2>2. slots[k.issuer][k.key] = k.of
    BY <1>3, <2>1 DEF Sound, SoundIn
  <2> QED
    BY <1>1, <1>3, <2>2, LiveEntries
<1> QED
  BY <1>2, <1>3

\* What a call was told does not change with what else changes.
LEMMA ToldKept ==
  ASSUME NEW u \in Threads, got'[u] = got[u], got[u] = {} \/ asked'[u] = asked[u],
         Refusal(u)' = Refusal(u)
  PROVE  ToldCall(u)' = ToldCall(u)
<1>1. {Report(u, e) : e \in got[u]}' = {Report(u, e) : e \in got[u]}
  BY DEF Report, Named
<1> QED
  BY <1>1 DEF ToldCall

\* A step of one call tells nothing to another.
LEMMA ToldApart ==
  ASSUME NEW u \in Threads, UNCHANGED <<got[u], asked[u], pc[u], turn[u]>>
  PROVE  ToldCall(u)' = ToldCall(u)
<1>1. Refusal(u)' = Refusal(u)
  BY DEF Refusal, Current, Named
<1> QED
  BY <1>1, ToldKept

\* An issue takes a name that no token about has: keys count up.
LEMMA IssueIsFresh ==
  ASSUME WindowInv, NEW b \in Backends
  PROVE  \A j \in Ledger!InUse : j.name # <<b, nextKey[b]>>
<1>1. /\ TypeOK /\ nextKey[b] \in Nat \ {0}
      /\ \A k \in given : Sound(k)
      /\ \A t \in Threads : \A e \in made[t] : Sound(e.token)
      /\ Window(b)
  BY DEF WindowInv, TokenInv, TypeOK, CallShape
<1>2. \A k : Sound(k) => Named(k).name # <<b, nextKey[b]>>
  BY <1>1 DEF Sound, SoundIn, Named, FailedKey
<1>3. ASSUME NEW j \in Live PROVE j.name # <<b, nextKey[b]>>
  <2>1. PICK c \in Backends : \E k \in DOMAIN slots[c] : j = [name |-> <<c, k>>, of |-> slots[c][k]]
    BY LiveEntries
  <2>2. PICK k \in DOMAIN slots[c] : j = [name |-> <<c, k>>, of |-> slots[c][k]]
    BY <2>1
  <2>3. nextKey[b] \notin DOMAIN slots[b]
    BY <1>1 DEF Window
  <2>4. <<c, k>> # <<b, nextKey[b]>>
    BY <2>3
  <2> QED
    BY <2>2, <2>4
<1>4. ASSUME NEW t \in Threads, NEW j \in Held[t] PROVE j.name # <<b, nextKey[b]>>
  BY <1>1, <1>2, <1>4 DEF Held
<1> QED
  BY <1>1, <1>2, <1>3, <1>4 DEF Ledger!InUse

\* A token joins those that its call has issued.
LEMMA HeldMore ==
  ASSUME NEW t \in Threads, NEW i, NEW k, DOMAIN made = Threads,
         made' = [made EXCEPT ![t] = @ \cup {[at |-> i, token |-> k]}]
  PROVE  Held' = [Held EXCEPT ![t] = @ \cup {Named(k)}]
<1>1. \A u \in Threads \ {t} : made'[u] = made[u]
  OBVIOUS
<1>2. made'[t] = made[t] \cup {[at |-> i, token |-> k]}
  OBVIOUS
<1> DEFINE r == [at |-> i, token |-> k]
<1>3. {Named(e.token) : e \in made'[t]} = {Named(e.token) : e \in made[t]} \cup {Named(k)}
  <2>1. r.token = k
    OBVIOUS
  <2>2. made'[t] = made[t] \cup {r}
    BY <1>2
  <2> HIDE DEF r
  <2> QED
    BY <2>1, <2>2
<1> QED
  BY <1>1, <1>3 DEF Held, Named

\* The newest entry is never the one that is trimmed.
LEMMA NewestKept ==
  ASSUME WindowInv, NEW b \in Backends
  PROVE  nextKey[b] \in Kept(DOMAIN slots[b] \cup {nextKey[b]}, cap)
<1> DEFINE key == nextKey[b]
           keys == DOMAIN slots[b] \cup {key}
<1>1. key \in Nat /\ Window(b) /\ cap \in Nat \ {0}
  BY TokenAssumption DEF WindowInv, TokenInv, TypeOK
<1>2. {j \in keys : j > key} = {}
  BY <1>1 DEF Window
<1>3. Cardinality({j \in keys : j > key}) = 0
  BY <1>2, FS_EmptySet
<1> HIDE DEF keys
<1>4. Cardinality({j \in keys : j > key}) < cap
  BY <1>1, <1>3
<1> USE DEF keys
<1> QED
  BY <1>4 DEF Kept

\* An issue is an issue of the ledger, which forgets what the table trims.
LEMMA IssueInLedger ==
  ASSUME WindowInv, NEW t \in Threads, NEW i \in DOMAIN asked[t], Issue(t, i)
  PROVE  Ledger!Next
<1> DEFINE b == by[t]
           key == nextKey[b]
           m == asked[t][i]
           k == [key |-> key, issuer |-> b, of |-> m]
<1>1. /\ TypeOK /\ TokenInv /\ b \in Backends /\ m \in Matrices /\ m \notin Failing
      /\ key \in 1..MaxKeys
  BY TokenAssumption DEF WindowInv, TokenInv, TypeOK, CallShape, Issue
<1>2. Named(k) = [name |-> <<b, key>>, of |-> m]
  BY DEF Named
<1>3. Named(k) \in Ledger!Token
  BY <1>1, <1>2 DEF Ledger!Token
<1>4. Named(k).name \notin Backends \X {FailedKey} /\ Named(k).of \notin Failing
  BY <1>1, <1>2 DEF FailedKey
<1>5. \A j \in Ledger!InUse : j.name # Named(k).name
  BY <1>1, <1>2, IssueIsFresh
<1>6. /\ DOMAIN slots' = Backends
      /\ DOMAIN slots'[b] = Kept(DOMAIN slots[b] \cup {key}, cap)
      /\ \A j \in DOMAIN slots'[b] :
           IF j = key THEN slots'[b][j] = m
           ELSE j \in DOMAIN slots[b] /\ slots'[b][j] = slots[b][j]
      /\ \A c \in Backends \ {b} : slots'[c] = slots[c]
  BY <1>1, IssueEffect
<1>7. Named(k) \in Live'
  <2>1. key \in DOMAIN slots'[b] /\ slots'[b][key] = m
    BY <1>1, <1>6, NewestKept
  <2> QED
    BY <1>1, <1>2, <2>1, LiveEntries
<1>8. ASSUME NEW x \in Live', x # Named(k) PROVE x \in Live
  <2>1. PICK c \in Backends : \E j \in DOMAIN slots'[c] :
               x = [name |-> <<c, j>>, of |-> slots'[c][j]]
    BY LiveEntries
  <2>2. PICK j \in DOMAIN slots'[c] : x = [name |-> <<c, j>>, of |-> slots'[c][j]]
    BY <2>1
  <2>3. j \in DOMAIN slots[c] /\ slots'[c][j] = slots[c][j]
    BY <1>2, <1>6, <1>8, <2>2
  <2> QED
    BY <2>2, <2>3, LiveEntries
<1>9. \E kept \in SUBSET Live : Live' = kept \cup {Named(k)}
  <2>1. Live' \ {Named(k)} \in SUBSET Live
    BY <1>8
  <2>2. Live' = (Live' \ {Named(k)}) \cup {Named(k)}
    BY <1>7
  <2> QED
    BY <2>1, <2>2
<1>10. Held' = [Held EXCEPT ![t] = @ \cup {Named(k)}]
  <2>1. made' = [made EXCEPT ![t] = @ \cup {[at |-> i, token |-> k]}] /\ DOMAIN made = Threads
    BY <1>1 DEF Issue, TokenInv
  <2> HIDE DEF k
  <2> QED
    BY <2>1, HeldMore
<1>11. UNCHANGED <<given, rows>> /\ Told' = Told
  <2>1. UNCHANGED <<given, rows, asked, got, pc, turn>>
    BY DEF Issue
  <2> QED
    BY <2>1, ToldApart DEF Told
<1>12. Ledger!Issue(t, Named(k))
  BY <1>4, <1>5, <1>9, <1>10, <1>11 DEF Ledger!Issue
<1> QED
  BY <1>3, <1>12 DEF Ledger!Next

\* A failed element's token is issued with a name of the failed.
LEMMA IssueFailedInLedger ==
  ASSUME WindowInv, NEW t \in Threads, NEW i \in DOMAIN asked[t], IssueFailed(t, i)
  PROVE  Ledger!Next
<1> DEFINE k == [key |-> FailedKey, issuer |-> by[t], of |-> asked[t][i]]
<1>1. /\ TypeOK /\ TokenInv /\ by[t] \in Backends
      /\ asked[t][i] \in Matrices /\ asked[t][i] \in Failing
  BY DEF WindowInv, TokenInv, CallShape, IssueFailed
<1>2. Named(k) = [name |-> <<by[t], FailedKey>>, of |-> asked[t][i]]
  BY DEF Named
<1>3. Named(k) \in Ledger!Token /\ Named(k).name \in Backends \X {FailedKey}
      /\ Named(k).of \in Failing
  BY <1>1, <1>2 DEF Ledger!Token
<1>4. Held' = [Held EXCEPT ![t] = @ \cup {Named(k)}]
  <2>1. made' = [made EXCEPT ![t] = @ \cup {[at |-> i, token |-> k]}] /\ DOMAIN made = Threads
    BY <1>1 DEF IssueFailed, TokenInv
  <2> HIDE DEF k
  <2> QED
    BY <2>1, HeldMore
<1>5. UNCHANGED <<slots, given, rows, asked, got, pc, turn>>
  BY DEF IssueFailed, tableVars
<1>6. Told' = Told /\ Live' = Live
  BY <1>5, ToldApart DEF Told, Live, Named
<1>7. Ledger!IssueFailed(t, Named(k))
  BY <1>3, <1>4, <1>5, <1>6 DEF Ledger!IssueFailed
<1> QED
  BY <1>3, <1>7 DEF Ledger!Next

\* A call that ends leaves nothing behind but the tokens it delivers.
LEMMA EndInLedger ==
  ASSUME WindowInv, NEW t \in Threads, Deliver(t) \/ RaiseFailure(t) \/ Return(t)
  PROVE  Ledger!Next
<1>1. /\ DOMAIN made = Threads /\ DOMAIN got = Threads /\ DOMAIN asked = Threads
      /\ pc \in [Threads -> {"idle", "factoring", "failing", "resolving",
                             "answered", "stale", "misfit"}]
      /\ turn \in [Threads -> Nat]
  BY DEF WindowInv, TokenInv, TypeOK
<1>2. Reset(t) /\ slots' = slots
  BY DEF Deliver, RaiseFailure, Return, tableVars
<1>3. /\ made'[t] = {} /\ got'[t] = {} /\ pc'[t] = "idle"
      /\ \A u \in Threads \ {t} :
           UNCHANGED <<made[u], got[u], asked[u], pc[u], turn[u]>>
  BY <1>1, <1>2 DEF Reset
<1>4. Live' = Live
  BY <1>2 DEF Live, Named
<1>5. Held' = [Held EXCEPT ![t] = {}]
  BY <1>3 DEF Held, Named
<1>6. Told' = [Told EXCEPT ![t] = {}]
  <2>1. ToldCall(t)' = {}
    BY <1>3 DEF ToldCall, Refusal
  <2>2. \A u \in Threads \ {t} : ToldCall(u)' = ToldCall(u)
    BY <1>3, ToldApart
  <2> QED
    BY <2>1, <2>2 DEF Told
<1>7. rows' = [rows EXCEPT ![t] = 0]
  BY <1>2 DEF Reset
<1>8. {Named(k) : k \in given}' \in
        {{Named(k) : k \in given}, {Named(k) : k \in given} \cup Held[t]}
  <2>1. CASE given' = given
    BY <2>1 DEF Named
  <2>2. CASE given' = given \cup {e.token : e \in made[t]}
    <3>1. {Named(k) : k \in given'} = {Named(k) : k \in given} \cup Held[t]
      BY <2>2 DEF Held
    <3> QED
      BY <3>1 DEF Named
  <2> QED
    BY <2>1, <2>2 DEF Deliver, RaiseFailure, Return
<1>9. Ledger!End(t)
  BY <1>4, <1>5, <1>6, <1>7, <1>8 DEF Ledger!End
<1> QED
  BY <1>9 DEF Ledger!Next

\* A call that takes tokens begins with nothing told.
LEMMA BeginInLedger ==
  ASSUME WindowInv, NEW t \in Threads, NEW b \in Backends, NEW ts \in Batches(given),
         NEW r \in {0} \cup {Rows[m] : m \in Matrices}, Consume(t, b, ts, r)
  PROVE  Ledger!Next
<1>1. /\ DOMAIN asked = Threads /\ got[t] = {} /\ pc[t] = "idle"
      /\ pc' = [pc EXCEPT ![t] = "resolving"] /\ asked' = [asked EXCEPT ![t] = ts]
      /\ rows' = [rows EXCEPT ![t] = r]
      /\ UNCHANGED <<slots, given, made, turn, got>>
      /\ DOMAIN pc = Threads
  BY DEF WindowInv, TokenInv, TypeOK, CallShape, Consume, tableVars
<1>2. Told[t] = {}
  BY <1>1 DEF Told, ToldCall, Refusal
<1>3. ASSUME NEW u \in Threads
      PROVE  (got[u] = {} \/ asked'[u] = asked[u]) /\ Refusal(u)' = Refusal(u)
  <2>1. CASE u = t
    BY <1>1, <2>1 DEF Refusal
  <2>2. CASE u # t
    BY <1>1, <2>2 DEF Refusal, Current, Named
  <2> QED
    BY <2>1, <2>2
<1>4. Told' = Told
  BY <1>1, <1>3, ToldKept DEF Told
<1>5. Live' = Live /\ Held' = Held /\ {Named(k) : k \in given}' = {Named(k) : k \in given}
  BY <1>1 DEF Live, Held, Named
<1>6. Ledger!Begin(t, r)
  BY <1>1, <1>2, <1>4, <1>5 DEF Ledger!Begin
<1> QED
  BY <1>6 DEF Ledger!Next

\* What a call resolves joins what it was told.
LEMMA ToldMore ==
  ASSUME NEW t \in Threads, NEW num, DOMAIN got = Threads,
         pc[t] = "resolving", Resolved(t, num)
  PROVE  /\ Told' = [Told EXCEPT ![t] = @ \cup
                       {[token |-> Named(Current(t)),
                         is |-> IF num = None THEN "nan" ELSE "factor", of |-> num]}]
         /\ Live' = Live /\ Held' = Held /\ rows' = rows
         /\ {Named(k) : k \in given}' = {Named(k) : k \in given}
<1> DEFINE e == [at |-> turn[t], num |-> num]
<1>1. /\ got' = [got EXCEPT ![t] = @ \cup {e}]
      /\ UNCHANGED <<slots, given, made, rows, pc, asked>>
      /\ \A u \in Threads \ {t} : turn'[u] = turn[u]
  BY DEF Resolved, tableVars
<1>2. got'[t] = got[t] \cup {e} /\ \A u \in Threads \ {t} : got'[u] = got[u]
  BY <1>1
<1>3. Report(t, e) = [token |-> Named(Current(t)),
                      is |-> IF num = None THEN "nan" ELSE "factor", of |-> num]
  BY DEF Report, Current
<1>4. ToldCall(t)' = ToldCall(t) \cup {Report(t, e)}
  <2>1. Refusal(t) = {} /\ Refusal(t)' = {}
    BY <1>1 DEF Refusal
  <2>2. \A x : Report(t, x)' = Report(t, x)
    BY <1>1 DEF Report, Named
  <2> HIDE DEF e
  <2>3. {Report(t, x) : x \in got[t]}' = {Report(t, x) : x \in got[t]} \cup {Report(t, e)}
    BY <1>2, <2>2
  <2> QED
    BY <2>1, <2>3 DEF ToldCall
<1>5. \A u \in Threads \ {t} : ToldCall(u)' = ToldCall(u)
  BY <1>1, <1>2, ToldApart
<1>6. Told' = [Told EXCEPT ![t] = @ \cup {Report(t, e)}]
  <2> HIDE DEF e
  <2> QED
    BY <1>4, <1>5 DEF Told
<1>7. Live' = Live /\ Held' = Held /\ {Named(k) : k \in given}' = {Named(k) : k \in given}
  BY <1>1 DEF Live, Held, Named
<1> QED
  BY <1>1, <1>3, <1>6, <1>7

\* The token a call resolves is sound, and one that the call presented.
LEMMA CurrentSound ==
  ASSUME WindowInv, NEW t \in Threads, Resolving(t)
  PROVE  /\ TypeOK /\ Sound(Current(t)) /\ Current(t).issuer = by[t]
         /\ DOMAIN got = Threads /\ DOMAIN pc = Threads
         /\ Named(Current(t)) =
              [name |-> <<Current(t).issuer, Current(t).key>>, of |-> Current(t).of]
         /\ Current(t).issuer \in Backends
<1>1. CallShape(t) /\ TypeOK /\ DOMAIN got = Threads
  BY DEF WindowInv, TokenInv
<1>2. Sound(Current(t)) /\ Current(t).issuer = by[t]
  BY <1>1 DEF CallShape, Resolving, Current
<1> QED
  BY <1>1, <1>2 DEF TypeOK, Named, Sound, SoundIn, Token

\* What is resolved is an answer of the ledger's: the factor in the table is
\* that of the token, or the token is of a factorization that failed.
LEMMA ResolveInLedger ==
  ASSUME WindowInv, NEW t \in Threads, Current(t) \in given,
         Resolve(t) \/ ResolveFailed(t)
  PROVE  Ledger!Next
<1> DEFINE k == Current(t)
<1>1. /\ Resolving(t) /\ pc[t] = "resolving" /\ TypeOK /\ Sound(k) /\ k.issuer = by[t]
      /\ DOMAIN got = Threads /\ k.issuer \in Backends
      /\ Named(k) = [name |-> <<k.issuer, k.key>>, of |-> k.of]
  BY CurrentSound DEF Resolve, ResolveFailed, Resolving
<1>2. CASE Resolve(t)
  <2>1. /\ k.key \in DOMAIN slots[k.issuer] /\ RowsFit(t, slots[k.issuer][k.key])
        /\ Resolved(t, slots[k.issuer][k.key])
    BY <1>1, <1>2 DEF Resolve
  <2>2. slots[k.issuer][k.key] = k.of /\ k.of \in Matrices /\ k.of # None
    <3>1. k.key # FailedKey
      BY <1>1, <2>1 DEF TypeOK, FailedKey
    <3> QED
      BY <1>1, <2>1, <3>1, TokenAssumption DEF Sound, SoundIn, Token
  <2>3. Named(k) \in Live
    BY <1>1, <2>1, LiveWhenThere
  <2>4. /\ Told' = [Told EXCEPT ![t] = @ \cup
                      {[token |-> Named(k), is |-> "factor", of |-> k.of]}]
        /\ Live' = Live /\ Held' = Held /\ rows' = rows
        /\ {Named(j) : j \in given}' = {Named(j) : j \in given}
    BY <1>1, <2>1, <2>2, ToldMore
  <2>5. Named(k).of = k.of /\ RowsFit(t, k.of)
    BY <1>1, <2>1, <2>2
  <2>6. Ledger!Answer(t, Named(k))
    BY <2>3, <2>4, <2>5 DEF Ledger!Answer, Ledger!Tell, Ledger!Factor, Ledger!Fits, RowsFit
  <2> QED
    BY <2>6 DEF Ledger!Next
<1>3. CASE ResolveFailed(t)
  <2>1. k.key = FailedKey /\ Resolved(t, None)
    BY <1>3 DEF ResolveFailed
  <2>2. Named(k).name \in Backends \X {FailedKey} /\ Named(k).of \in Failing
    BY <1>1, <2>1 DEF Sound, SoundIn, FailedKey
  <2>3. /\ Told' = [Told EXCEPT ![t] = @ \cup
                      {[token |-> Named(k), is |-> "nan", of |-> None]}]
        /\ Live' = Live /\ Held' = Held /\ rows' = rows
        /\ {Named(j) : j \in given}' = {Named(j) : j \in given}
    BY <1>1, <2>1, ToldMore
  <2>4. Ledger!Answer(t, Named(k))
    BY <2>2, <2>3 DEF Ledger!Answer, Ledger!Tell, Ledger!NaN
  <2> QED
    BY <2>4 DEF Ledger!Next
<1> QED
  BY <1>2, <1>3

\* What is refused is forgotten, or does not fit.
LEMMA RefuseInLedger ==
  ASSUME WindowInv, NEW t \in Threads, Current(t) \in given,
         ResolveStale(t) \/ ResolveWrongRows(t)
  PROVE  Ledger!Next
<1> DEFINE k == Current(t)
<1>1. /\ Resolving(t) /\ pc[t] = "resolving" /\ TypeOK /\ Sound(k) /\ k.issuer = by[t]
      /\ DOMAIN got = Threads /\ DOMAIN pc = Threads /\ k.issuer \in Backends
      /\ Named(k) = [name |-> <<k.issuer, k.key>>, of |-> k.of]
  BY CurrentSound DEF ResolveStale, ResolveWrongRows, Resolving
<1>2. ASSUME NEW w \in {"stale", "misfit"}, Refuse(t, w)
      PROVE  Ledger!Tell(t, Ledger!Refused(Named(k), w))
  <2>1. /\ pc' = [pc EXCEPT ![t] = w]
        /\ UNCHANGED <<slots, given, made, rows, asked, turn, got>>
    BY <1>2 DEF Refuse, tableVars
  <2>2. Live' = Live /\ Held' = Held /\ {Named(j) : j \in given}' = {Named(j) : j \in given}
    BY <2>1 DEF Live, Held, Named
  <2>3. ToldCall(t)' = ToldCall(t) \cup {[token |-> Named(k), is |-> w, of |-> None]}
    <3>1. Refusal(t) = {}
      BY <1>1 DEF Refusal
    <3>2. Refusal(t)' = {[token |-> Named(k), is |-> w, of |-> None]}
      BY <1>1, <2>1 DEF Refusal, Current, Named
    <3>3. {Report(t, e) : e \in got[t]}' = {Report(t, e) : e \in got[t]}
      BY <2>1 DEF Report, Named
    <3> QED
      BY <3>1, <3>2, <3>3 DEF ToldCall
  <2>4. \A u \in Threads \ {t} : ToldCall(u)' = ToldCall(u)
    BY <1>1, <2>1, ToldApart
  <2>5. Told' = [Told EXCEPT ![t] = @ \cup {[token |-> Named(k), is |-> w, of |-> None]}]
    <3> HIDE DEF k
    <3> QED
      BY <2>3, <2>4 DEF Told
  <2> QED
    BY <2>1, <2>2, <2>5 DEF Ledger!Tell, Ledger!Refused
<1>3. CASE ResolveStale(t)
  <2>1. k.key # FailedKey /\ k.key \notin DOMAIN slots[k.issuer] /\ Refuse(t, "stale")
    BY <1>1, <1>3 DEF ResolveStale
  <2>2. Named(k) \notin Live /\ Named(k).name \notin Backends \X {FailedKey}
    BY <1>1, <2>1, LiveWhenThere
  <2>3. Ledger!Refuse(t, Named(k))
    BY <1>2, <2>1, <2>2 DEF Ledger!Refuse
  <2> QED
    BY <2>3 DEF Ledger!Next
<1>4. CASE ResolveWrongRows(t)
  <2>1. /\ k.key \in DOMAIN slots[k.issuer] /\ ~RowsFit(t, slots[k.issuer][k.key])
        /\ Refuse(t, "misfit")
    BY <1>1, <1>4 DEF ResolveWrongRows
  <2>2. slots[k.issuer][k.key] = k.of
    <3>1. k.key # FailedKey
      BY <1>1, <2>1 DEF TypeOK, FailedKey
    <3> QED
      BY <1>1, <2>1, <3>1 DEF Sound, SoundIn
  <2>3. Named(k) \in Live /\ Named(k).of = k.of
    BY <1>1, <2>1, LiveWhenThere
  <2>4. ~Ledger!Fits(t, Named(k))
    BY <2>1, <2>2, <2>3 DEF Ledger!Fits, RowsFit
  <2>5. Ledger!Refuse(t, Named(k))
    BY <1>2, <2>1, <2>3, <2>4 DEF Ledger!Refuse
  <2> QED
    BY <2>5 DEF Ledger!Next
<1> QED
  BY <1>3, <1>4

\* clear_cache only forgets.
LEMMA ClearInLedger ==
  ASSUME WindowInv, ClearTable
  PROVE  Ledger!Next
<1>1. /\ slots' = [slots EXCEPT ![Head(toClear)] = <<>>] /\ DOMAIN slots = Backends
      /\ UNCHANGED <<given, made, rows, asked, turn, got, pc>>
  BY DEF WindowInv, TokenInv, TypeOK, ClearTable, callVars
<1>2. ASSUME NEW x \in Live' PROVE x \in Live
  <2>1. PICK c \in Backends : \E j \in DOMAIN slots'[c] :
               x = [name |-> <<c, j>>, of |-> slots'[c][j]]
    BY LiveEntries
  <2>2. slots'[c] = slots[c]
    <3>1. DOMAIN <<>> = {}
      OBVIOUS
    <3> QED
      BY <1>1, <2>1, <3>1
  <2> QED
    BY <2>1, <2>2, LiveEntries
<1>3. Held' = Held /\ {Named(j) : j \in given}' = {Named(j) : j \in given} /\ Told' = Told
  BY <1>1, ToldApart DEF Held, Told, Named
<1>4. Ledger!Forget
  BY <1>1, <1>2, <1>3 DEF Ledger!Forget
<1> QED
  BY <1>4 DEF Ledger!Next

-----------------------------------------------------------------------------
\* A call resolves tokens that the program was given, and none it made up.
Presented ==
  \A t \in Threads : pc[t] = "resolving" => \A i \in DOMAIN asked[t] : asked[t][i] \in given

\* What is given is never taken back, so what a call presents stays given.
LEMMA NextPresented ==
  ASSUME TokenInv, Presented, [Next]_vars
  PROVE  Presented'
<1> USE DEF Presented
<1>1. ASSUME NEW t \in Threads, NEW b \in Backends, NEW ts \in Batches(given),
             NEW r \in {0} \cup {Rows[m] : m \in Matrices}, Consume(t, b, ts, r)
      PROVE  Presented'
  <2>1. \A i \in DOMAIN ts : ts[i] \in given
    BY BatchElements
  <2>2. /\ asked' = [asked EXCEPT ![t] = ts] /\ pc' = [pc EXCEPT ![t] = "resolving"]
        /\ given' = given
    BY <1>1 DEF Consume
  <2> QED
    BY <2>1, <2>2 DEF TokenInv, TypeOK
<1>2. ASSUME NEW t \in Threads, Deliver(t) \/ RaiseFailure(t) \/ Return(t)
      PROVE  Presented'
  <2>1. given \subseteq given' /\ Reset(t)
    BY <1>2 DEF Deliver, RaiseFailure, Return
  <2> QED
    BY <2>1 DEF Reset, TokenInv, TypeOK
<1>3. ASSUME NEW t \in Threads, NEW b \in Backends, NEW ms \in Batches(Matrices),
             Factor(t, b, ms)
      PROVE  Presented'
  BY <1>3 DEF Factor, TokenInv, TypeOK
<1>4. ASSUME UNCHANGED <<asked, given>>,
             \A t \in Threads : pc'[t] = "resolving" => pc[t] = "resolving"
      PROVE  Presented'
  BY <1>4
<1>5. ASSUME NEW t \in Threads,
             \/ \E i \in DOMAIN asked[t] : FactorFails(t, i)
             \/ ResolveStale(t) \/ ResolveWrongRows(t) \/ Answer(t)
      PROVE  Presented'
  BY <1>5, <1>4 DEF FactorFails, ResolveStale, ResolveWrongRows, Refuse, Answer,
                    TokenInv, TypeOK
<1>6. ASSUME UNCHANGED <<asked, given, pc>> PROVE Presented'
  BY <1>4, <1>6
<1>7. \/ \E t \in Threads :
           \/ \E b \in Backends, ts \in Batches(given),
                 r \in {0} \cup {Rows[m] : m \in Matrices} : Consume(t, b, ts, r)
           \/ Deliver(t) \/ RaiseFailure(t) \/ Return(t)
           \/ \E b \in Backends, ms \in Batches(Matrices) : Factor(t, b, ms)
           \/ \E i \in DOMAIN asked[t] : FactorFails(t, i)
           \/ ResolveStale(t) \/ ResolveWrongRows(t) \/ Answer(t)
      \/ UNCHANGED <<asked, given, pc>>
  BY DEF Next, Step, Settings, vars, tableVars, settingVars, callVars, Issue, IssueFailed,
         Resolve, ResolveFailed, Resolved, SetTokenCap, SetNanOnFailure, ClearCache, ClearTable
<1> QED
  BY <1>1, <1>2, <1>3, <1>5, <1>6, <1>7

\* Every step of the tables is one of the ledger's or changes nothing it shows.
LEMMA NextInLedger ==
  ASSUME WindowInv, Presented, [Next]_vars
  PROVE  [Ledger!Next]_(Ledger!ledgerVars)
<1>0. WindowInv /\ Presented /\ TokenInv /\ TypeOK
  BY DEF WindowInv, TokenInv
<1>1. ASSUME NEW t \in Threads, NEW i \in DOMAIN asked[t], Issue(t, i) \/ IssueFailed(t, i)
      PROVE  Ledger!Next
  BY <1>0, <1>1, IssueInLedger, IssueFailedInLedger
<1>2. ASSUME NEW t \in Threads, Deliver(t) \/ RaiseFailure(t) \/ Return(t)
      PROVE  Ledger!Next
  BY <1>0, <1>2, EndInLedger
<1>3. ASSUME NEW t \in Threads, NEW b \in Backends, NEW ts \in Batches(given),
             NEW r \in {0} \cup {Rows[m] : m \in Matrices}, Consume(t, b, ts, r)
      PROVE  Ledger!Next
  BY <1>0, <1>3, BeginInLedger
<1>4. ASSUME NEW t \in Threads, \/ Resolve(t) \/ ResolveFailed(t)
                               \/ ResolveStale(t) \/ ResolveWrongRows(t)
      PROVE  Ledger!Next
  <2>1. Current(t) \in given
    BY <1>0, <1>4 DEF Resolve, ResolveFailed, ResolveStale, ResolveWrongRows, Resolving,
                      Current, Presented
  <2> QED
    BY <1>0, <1>4, <2>1, ResolveInLedger, RefuseInLedger
<1>5. CASE ClearTable
  BY <1>0, <1>5, ClearInLedger
<1>6. ASSUME UNCHANGED <<slots, given, made, rows>>,
             \A u \in Threads : ToldCall(u)' = ToldCall(u)
      PROVE  UNCHANGED Ledger!ledgerVars
  <2>1. Live' = Live /\ Held' = Held /\ Told' = Told
        /\ {Named(j) : j \in given}' = {Named(j) : j \in given}
    BY <1>6 DEF Live, Held, Told, Named
  <2> QED
    BY <1>6, <2>1 DEF Ledger!ledgerVars
<1>7. ASSUME NEW t \in Threads,
             \/ \E b \in Backends, ms \in Batches(Matrices) : Factor(t, b, ms)
             \/ \E i \in DOMAIN asked[t] : FactorFails(t, i)
             \/ Answer(t)
      PROVE  UNCHANGED Ledger!ledgerVars
  <2>1. UNCHANGED <<slots, given, made, rows, turn, got>>
    BY <1>7 DEF Factor, FactorFails, Answer, tableVars
  <2>2. ASSUME NEW u \in Threads PROVE ToldCall(u)' = ToldCall(u)
    <3>1. pc[t] \notin {"stale", "misfit"} /\ pc'[t] \notin {"stale", "misfit"}
      BY <1>0, <1>7 DEF Factor, FactorFails, Answer, TypeOK
    <3>2. u # t => pc'[u] = pc[u] /\ asked'[u] = asked[u]
      BY <1>0, <1>7 DEF Factor, FactorFails, Answer, TokenInv, TypeOK
    <3>3. got[t] = {} \/ asked'[t] = asked[t]
      BY <1>0, <1>7 DEF Factor, FactorFails, Answer, TokenInv, CallShape
    <3>4. Refusal(u)' = Refusal(u)
      BY <2>1, <3>1, <3>2 DEF Refusal, Current, Named
    <3> QED
      BY <2>1, <3>2, <3>3, <3>4, ToldKept
  <2> QED
    BY <1>6, <2>1, <2>2
<1>8. ASSUME UNCHANGED <<slots, given, made, rows, asked, pc, turn, got>>
      PROVE  UNCHANGED Ledger!ledgerVars
  BY <1>6, <1>8, ToldApart
<1>9. (\E n \in Caps : SetTokenCap(n)) \/ (\E v \in BOOLEAN : SetNanOnFailure(v))
      \/ ClearCache \/ UNCHANGED vars
        => UNCHANGED <<slots, given, made, rows, asked, pc, turn, got>>
  BY DEF SetTokenCap, SetNanOnFailure, ClearCache, vars, tableVars, callVars
<1> QED
  BY <1>1, <1>2, <1>3, <1>4, <1>5, <1>7, <1>8, <1>9 DEF Next, Step, Settings

\* The tables implement the ledger: however many threads issue, evict and clear,
\* in whatever backends, a program that uses tokens sees names of their own,
\* each answered with its own factor for as long as it is not forgotten.
THEOREM TablesImplementLedger == Spec => ImplementsLedger
<1>1. Init => Ledger!Init
  <2> SUFFICES ASSUME Init PROVE Ledger!Init
    OBVIOUS
  <2>1. Live = {}
    <3>1. DOMAIN <<>> = {}
      OBVIOUS
    <3> QED
      BY <3>1 DEF Init, Live
  <2>2. Held = [t \in Threads |-> {}] /\ Told = [t \in Threads |-> {}]
    BY DEF Init, Held, Told, ToldCall, Refusal
  <2> QED
    BY <2>1, <2>2 DEF Init, Ledger!Init
<1>2. Init => Presented
  BY DEF Init, Presented
<1>3. WindowInv /\ Presented /\ [Next]_vars => Presented'
  BY NextPresented DEF WindowInv
<1>4. WindowInv /\ Presented /\ [Next]_vars => [Ledger!Next]_(Ledger!ledgerVars)
  BY NextInLedger
<1> QED
  BY <1>1, <1>2, <1>3, <1>4, Windows, PTL DEF Spec, ImplementsLedger, Ledger!Spec

=============================================================================
