------------------------- MODULE FactorCacheProofs -------------------------
(***************************************************************************)
(* What TLAPS proves of FactorCache, for any number of threads, values,    *)
(* caps and storage objects, any hash function and each backend: its       *)
(* invariants, and that it implements FactorOracle.                        *)
(***************************************************************************)
EXTENDS FactorCache, SequenceTheorems, TLAPS

\* The three ways a vector of slots changes keep it a vector of slots.
LEMMA SlotsAppend ==
  ASSUME NEW q \in Seq(Slot), NEW e \in Slot
  PROVE  /\ Append(q, e) \in Seq(Slot)
         /\ Len(Append(q, e)) = Len(q) + 1
         /\ \A i \in 1..Len(q) : Append(q, e)[i] = q[i]
         /\ Append(q, e)[Len(q) + 1] = e
  BY AppendProperties

\* Overwriting one slot leaves the others.
LEMMA SlotsExcept ==
  ASSUME NEW q \in Seq(Slot), NEW e \in Slot, NEW i \in 1..Len(q)
  PROVE  /\ [q EXCEPT ![i] = e] \in Seq(Slot)
         /\ Len([q EXCEPT ![i] = e]) = Len(q)
         /\ [q EXCEPT ![i] = e][i] = e
         /\ \A j \in 1..Len(q) \ {i} : [q EXCEPT ![i] = e][j] = q[j]
  BY ExceptSeq

\* resize keeps the slots it does not cut off.
LEMMA SlotsPrefix ==
  ASSUME NEW q \in Seq(Slot), NEW n \in 0..Len(q)
  PROVE  /\ SubSeq(q, 1, n) \in Seq(Slot)
         /\ Len(SubSeq(q, 1, n)) = n
         /\ \A i \in 1..n : SubSeq(q, 1, n)[i] = q[i]
  BY SubSeqProperties

-----------------------------------------------------------------------------
(* The inductive invariant: where a thread is in its call says what it     *)
(* holds, and every claim is entered once among the hashes in flight.      *)

\* What thread t has at each stage.
StageShape(t) ==
  /\ IF pc[t] = "idle" THEN arg[t] = None ELSE arg[t] \in Values
  /\ pc[t] \in {"idle", "lookup", "waiting"} => own[t] = None
  /\ pc[t] \in {"factoring", "factored", "inserting"} => own[t] \in Storage
  /\ pc[t] \in {"ending", "notifying", "using"} =>
       /\ answer[t] # "none"
       /\ answer[t] = "factor" <=> own[t] \in Storage
       /\ answer[t] = "nan" => arg[t] \in Unfactorable
  /\ pc[t] = "inserting" => capSeen[t] \in Caps
  /\ pc[t] = "factoring" /\ Backend # "cholmod" => arg[t] \notin NonFinite

StagesInv == \A t \in Threads : StageShape(t)

\* in_flight.hashes has one entry for every claim and none besides.
ClaimsRecorded ==
  \A h \in Hashes :
    inFlight[h] = IF \E t \in Threads : pc[t] \in Claiming /\ HashOf[arg[t]] = h
                  THEN 1 ELSE 0

ControlInv == TypeOK /\ StagesInv /\ ClaimsRecorded /\ OneBuilderPerHash

\* The slots of the cache, read as a function.
LEMMA SlotsTyped ==
  ASSUME TypeOK
  PROVE  /\ Len(cache) \in Nat
         /\ DOMAIN cache = 1..Len(cache)
         /\ \A i \in DOMAIN cache :
              /\ cache[i] \in Slot
              /\ cache[i].ax \in Values \cup {None}
              /\ cache[i].num \in Storage \cup {None}
<1>1. cache \in Seq(Slot)
  BY DEF TypeOK
<1>2. Len(cache) \in Nat /\ DOMAIN cache = 1..Len(cache)
  BY <1>1, LenProperties
<1>3. \A i \in DOMAIN cache : cache[i] \in Slot
  BY <1>1, <1>2, ElementOfSeq
<1>4. \A e \in Slot : e.ax \in Values \cup {None} /\ e.num \in Storage \cup {None}
  BY DEF Slot
<1> QED
  BY <1>2, <1>3, <1>4

\* A call under way asks for values that have a hash.
LEMMA HashTyped ==
  ASSUME TypeOK, StagesInv, NEW t \in Threads, pc[t] # "idle"
  PROVE  arg[t] \in Values /\ HashOf[arg[t]] \in Hashes
  BY CacheAssumption DEF StagesInv, StageShape

\* Claim leaves the cache alone, or moves the storage of one slot, which
\* nobody else holds, to the thread.
LEMMA ClaimEffect ==
  ASSUME TypeOK, NEW t \in Threads, Claim(t)
  PROVE  \/ UNCHANGED <<own, cache>>
         \/ \E i \in 1..Len(cache) :
              /\ cache[i].num \in Storage
              /\ OnlyTheSlotHolds(i)
              /\ own' = [own EXCEPT ![t] = cache[i].num]
              /\ cache' \in Seq(Slot)
              /\ Len(cache') = Len(cache)
              /\ cache'[i] = Hole
              /\ \A j \in 1..Len(cache) \ {i} : cache'[j] = cache[j]
<1>1. CASE UNCHANGED <<own, cache>>
  BY <1>1
<1>2. CASE ~UNCHANGED <<own, cache>>
  <2>1. PICK i \in DOMAIN cache :
          /\ Evictable(i)
          /\ own' = [own EXCEPT ![t] = cache[i].num]
          /\ cache' = [cache EXCEPT ![i] = Hole]
    BY <1>2 DEF Claim, Detach
  <2>2. Hole \in Slot
    BY DEF Hole, Slot
  <2>3. cache \in Seq(Slot) /\ i \in 1..Len(cache)
    BY SlotsTyped DEF TypeOK
  <2>4. cache[i].num \in Storage /\ OnlyTheSlotHolds(i)
    BY <2>1, SlotsTyped DEF Evictable
  <2>5. /\ cache' \in Seq(Slot)
        /\ Len(cache') = Len(cache)
        /\ cache'[i] = Hole
        /\ \A j \in 1..Len(cache) \ {i} : cache'[j] = cache[j]
    BY <2>1, <2>2, <2>3, SlotsExcept
  <2> QED
    BY <2>1, <2>3, <2>4, <2>5
<1> QED
  BY <1>1, <1>2

\* Insert puts the new slot at one place p, at most one past the end and never
\* past the cap it goes by, and leaves the others where they are.
LEMMA InsertEffect ==
  ASSUME TypeOK, StagesInv, NEW t \in Threads, Insert(t)
  PROVE  /\ cache' \in Seq(Slot)
         /\ next' \in Nat
         /\ capSeen[t] \in Caps
         /\ own[t] \in Storage
         /\ Len(cache') = Len(cache) \/ Len(cache') <= capSeen[t]
         /\ \E p \in 1..Len(cache') :
              /\ cache'[p] = [ax |-> arg[t], num |-> own[t]]
              /\ \A i \in 1..Len(cache') \ {p} :
                   i \in 1..Len(cache) /\ cache'[i] = cache[i]
<1> DEFINE new == [ax |-> arg[t], num |-> own[t]]
           at == IF next >= Len(cache) THEN 0 ELSE next
<1>1. /\ new \in Slot
      /\ capSeen[t] \in Caps
      /\ own[t] \in Storage
  BY DEF Insert, StagesInv, StageShape, Slot
<1>2. capSeen[t] \in Nat \ {0}
  BY <1>1, CacheAssumption
<1>3. cache \in Seq(Slot) /\ Len(cache) \in Nat /\ next \in Nat
  BY SlotsTyped DEF TypeOK
<1>4. CASE Len(cache) < capSeen[t]
  <2>1. cache' = Append(cache, new) /\ next' = next
    BY <1>2, <1>3, <1>4 DEF Insert
  <2>2. /\ cache' \in Seq(Slot)
        /\ Len(cache') = Len(cache) + 1
        /\ cache'[Len(cache) + 1] = new
        /\ \A i \in 1..Len(cache) : cache'[i] = cache[i]
    BY <1>1, <1>3, <2>1, SlotsAppend
  <2>3. \A i \in 1..Len(cache') \ {Len(cache) + 1} : i \in 1..Len(cache)
    BY <1>3, <2>2
  <2>4. Len(cache) + 1 \in 1..Len(cache') /\ Len(cache') <= capSeen[t]
    BY <1>2, <1>3, <1>4, <2>2
  <2> QED
    BY <1>1, <1>3, <2>1, <2>2, <2>3, <2>4
<1>5. CASE Len(cache) >= capSeen[t]
  <2>1. Len(cache) \in Nat \ {0} /\ at \in 0..(Len(cache) - 1)
    BY <1>2, <1>3, <1>5
  <2>2. cache' = [cache EXCEPT ![at + 1] = new] /\ next' = (at + 1) % Len(cache)
    BY <1>2, <1>3, <1>5 DEF Insert
  <2>3. at + 1 \in 1..Len(cache) /\ next' \in Nat
    BY <2>1, <2>2
  <2>4. /\ cache' \in Seq(Slot)
        /\ Len(cache') = Len(cache)
        /\ cache'[at + 1] = new
        /\ \A i \in 1..Len(cache) \ {at + 1} : cache'[i] = cache[i]
    <3> HIDE DEF at
    <3> QED
      BY <1>1, <1>3, <2>2, <2>3, SlotsExcept
  <2> HIDE DEF at
  <2> QED
    BY <1>1, <2>3, <2>4
<1> QED
  BY <1>2, <1>3, <1>4, <1>5

\* TrimCache keeps a prefix.
LEMMA TrimEffect ==
  ASSUME TypeOK, TrimCache
  PROVE  /\ cache' \in Seq(Slot)
         /\ next' \in Nat
         /\ Len(cache') <= Len(cache)
         /\ \A i \in 1..Len(cache') : cache'[i] = cache[i]
<1>1. /\ cache \in Seq(Slot) /\ Len(cache) \in Nat
      /\ cap \in Nat /\ next \in Nat
  BY SlotsTyped, CacheAssumption DEF TypeOK
<1>2. CASE registered /\ Len(cache) > cap
  <2>1. cache' = SubSeq(cache, 1, cap) /\ cap \in 0..Len(cache)
    BY <1>1, <1>2 DEF TrimCache
  <2>2. next' \in Nat
    BY <1>1, <1>2 DEF TrimCache
  <2> QED
    BY <1>1, <2>1, <2>2, SlotsPrefix
<1>3. CASE ~(registered /\ Len(cache) > cap)
  <2>1. cache' = cache /\ next' \in Nat
    BY <1>1, <1>3 DEF TrimCache
  <2> QED
    BY <1>1, <2>1
<1> QED
  BY <1>2, <1>3

\* An empty cache and idle threads.
LEMMA InitControl == Init => ControlInv
  BY CacheAssumption, EmptySeq
  DEF Init, ControlInv, TypeOK, Stages, StagesInv, StageShape, ClaimsRecorded,
      OneBuilderPerHash, Claiming

\* Every step keeps the types,
LEMMA NextTypeOK == ControlInv /\ [Next]_vars => TypeOK'
<1> SUFFICES ASSUME ControlInv, [Next]_vars PROVE TypeOK'
  OBVIOUS
<1> USE CacheAssumption DEF ControlInv, TypeOK, Stages, settings, threadVars
<1> TypeOK /\ StagesInv
  OBVIOUS
<1>1. ASSUME NEW t \in Threads, NEW v \in Values, Call(t, v) PROVE TypeOK'
  BY <1>1 DEF Call
<1>2. ASSUME NEW t \in Threads, Hit(t) PROVE TypeOK'
  <2>1. PICK i \in DOMAIN cache : own' = [own EXCEPT ![t] = cache[i].num]
    BY <1>2 DEF Hit
  <2>2. own' \in [Threads -> Storage \cup {None}]
    BY <2>1, SlotsTyped
  <2> QED
    BY <1>2, <2>2 DEF Hit
<1>3. ASSUME NEW t \in Threads, Wait(t) PROVE TypeOK'
  BY <1>3 DEF Wait
<1>4. ASSUME NEW t \in Threads, Claim(t) PROVE TypeOK'
  <2>1. own' \in [Threads -> Storage \cup {None}] /\ cache' \in Seq(Slot)
    BY <1>4, ClaimEffect
  <2>2. HashOf[arg[t]] \in Hashes
    BY <1>4, HashTyped DEF Claim
  <2>3. inFlight' \in [Hashes -> Nat]
    BY <1>4, <2>2 DEF Claim
  <2> QED
    BY <1>4, <2>1, <2>3 DEF Claim
<1>5. ASSUME NEW t \in Threads, RejectValues(t) PROVE TypeOK'
  BY <1>5 DEF RejectValues, GiveUp, FailureAnswer
<1>6. ASSUME NEW t \in Threads, RejectRecycled(t) PROVE TypeOK'
  BY <1>6 DEF RejectRecycled
<1>7. ASSUME NEW t \in Threads, Begin(t) PROVE TypeOK'
  BY <1>7 DEF Begin
<1>8. ASSUME NEW t \in Threads, AllocationFails(t) PROVE TypeOK'
  BY <1>8 DEF AllocationFails, GiveUp
<1>9. ASSUME NEW t \in Threads, Factored(t) PROVE TypeOK'
  BY <1>9 DEF Factored
<1>10. ASSUME NEW t \in Threads, FactorizationFails(t) PROVE TypeOK'
  BY <1>10 DEF FactorizationFails, GiveUp, FailureAnswer
<1>11. ASSUME NEW t \in Threads, LibraryError(t) PROVE TypeOK'
  BY <1>11 DEF LibraryError, GiveUp
<1>12. ASSUME NEW t \in Threads, ThrowsHoldingRaw(t) PROVE TypeOK'
  BY <1>12 DEF ThrowsHoldingRaw, GiveUp
<1>13. ASSUME NEW t \in Threads, ReadCap(t) PROVE TypeOK'
  BY <1>13 DEF ReadCap
<1>14. ASSUME NEW t \in Threads, Insert(t) PROVE TypeOK'
  <2>1. cache' \in Seq(Slot) /\ next' \in Nat
    BY <1>14, InsertEffect
  <2> QED
    BY <1>14, <2>1 DEF Insert
<1>15. ASSUME NEW t \in Threads, InsertThrows(t) PROVE TypeOK'
  BY <1>15 DEF InsertThrows, GiveUp
<1>16. ASSUME NEW t \in Threads, EndClaim(t) PROVE TypeOK'
  <2>1. HashOf[arg[t]] \in Hashes /\ inFlight[HashOf[arg[t]]] = 1
    BY <1>16 DEF EndClaim, StagesInv, StageShape, ClaimsRecorded, Claiming
  <2> QED
    BY <1>16, <2>1 DEF EndClaim
<1>17. ASSUME NEW t \in Threads, Notify(t) PROVE TypeOK'
  BY <1>17 DEF Notify
<1>18. ASSUME NEW t \in Threads, SpuriousWake(t) PROVE TypeOK'
  BY <1>18 DEF SpuriousWake
<1>19. ASSUME NEW t \in Threads, Release(t) PROVE TypeOK'
  BY <1>19 DEF Release, Finish
<1>20. ASSUME NEW t \in Threads, IssueToken(t) PROVE TypeOK'
  <2>1. [ax |-> arg[t], num |-> own[t]] \in Token
    BY <1>20 DEF IssueToken, Finish, Token, StagesInv, StageShape
  <2> QED
    BY <1>20, <2>1 DEF IssueToken, Finish
<1>21. ASSUME NEW t \in Threads, ResolveToken(t) PROVE TypeOK'
  <2>1. PICK k \in tokens : /\ arg' = [arg EXCEPT ![t] = k.ax]
                            /\ own' = [own EXCEPT ![t] = k.num]
    BY <1>21 DEF ResolveToken
  <2>2. k.ax \in Values /\ k.num \in Storage
    BY <2>1 DEF Token
  <2> QED
    BY <1>21, <2>1, <2>2 DEF ResolveToken
<1>22. CASE DropToken
  BY <1>22 DEF DropToken
<1>23. ASSUME NEW n \in Caps, StoreCap(n) PROVE TypeOK'
  BY <1>23 DEF StoreCap
<1>24. CASE TrimCache
  <2>1. cache' \in Seq(Slot) /\ next' \in Nat
    BY <1>24, TrimEffect
  <2> QED
    BY <1>24, <2>1 DEF TrimCache
<1>25. ASSUME NEW b \in BOOLEAN, SetNanOnFailure(b) PROVE TypeOK'
  BY <1>25 DEF SetNanOnFailure
<1>26. CASE Clear
  <2> <<>> \in Seq(Slot)
    BY EmptySeq
  <2> QED
    BY <1>26 DEF Clear
<1>27. CASE NewPattern
  <2> <<>> \in Seq(Slot)
    BY EmptySeq
  <2> QED
    BY <1>27 DEF NewPattern
<1>28. CASE UNCHANGED vars
  BY <1>28 DEF vars
<1> QED
  BY <1>1, <1>2, <1>3, <1>4, <1>5, <1>6, <1>7, <1>8, <1>9, <1>10, <1>11,
     <1>12, <1>13, <1>14, <1>15, <1>16, <1>17, <1>18, <1>19, <1>20, <1>21,
     <1>22, <1>23, <1>24, <1>25, <1>26, <1>27, <1>28 DEF Next,
     Environment, Step

\* ... what each thread carries at its place in the call,
LEMMA NextStages == ControlInv /\ [Next]_vars => StagesInv'
<1> SUFFICES ASSUME ControlInv, [Next]_vars PROVE StagesInv'
  OBVIOUS
<1> USE CacheAssumption DEF ControlInv, TypeOK, Stages, StagesInv, StageShape,
                            settings, threadVars
<1>1. ASSUME NEW t \in Threads, NEW v \in Values, Call(t, v) PROVE StagesInv'
  BY <1>1 DEF Call
<1>2. ASSUME NEW t \in Threads, Hit(t) PROVE StagesInv'
  <2>1. PICK i \in DOMAIN cache :
          Matches(i, arg[t]) /\ own' = [own EXCEPT ![t] = cache[i].num]
    BY <1>2 DEF Hit
  <2>2. cache[i].num \in Storage
    BY <2>1, SlotsTyped DEF Matches
  <2> QED
    BY <1>2, <2>1, <2>2 DEF Hit
<1>3. ASSUME NEW t \in Threads, Wait(t) PROVE StagesInv'
  BY <1>3 DEF Wait
<1>4. ASSUME NEW t \in Threads, Claim(t) PROVE StagesInv'
  <2>1. PICK s \in Storage \cup {None} : own' = [own EXCEPT ![t] = s]
    <3>1. CASE UNCHANGED <<own, cache>>
      <4> own' = [own EXCEPT ![t] = own[t]]
        BY <3>1
      <4> QED
        OBVIOUS
    <3>2. CASE ~UNCHANGED <<own, cache>>
      BY <1>4, <3>2, ClaimEffect
    <3> QED
      BY <3>1, <3>2
  <2> QED
    BY <1>4, <2>1 DEF Claim
<1>5. ASSUME NEW t \in Threads, RejectValues(t) PROVE StagesInv'
  BY <1>5 DEF RejectValues, GiveUp, FailureAnswer
<1>6. ASSUME NEW t \in Threads, RejectRecycled(t) PROVE StagesInv'
  BY <1>6 DEF RejectRecycled
<1>7. ASSUME NEW t \in Threads, Begin(t) PROVE StagesInv'
  <2>1. PICK s \in Storage : own' = [own EXCEPT ![t] = s]
    BY <1>7 DEF Begin
  <2> QED
    BY <1>7, <2>1 DEF Begin
<1>8. ASSUME NEW t \in Threads, AllocationFails(t) PROVE StagesInv'
  BY <1>8 DEF AllocationFails, GiveUp
<1>9. ASSUME NEW t \in Threads, Factored(t) PROVE StagesInv'
  BY <1>9 DEF Factored
<1>10. ASSUME NEW t \in Threads, FactorizationFails(t) PROVE StagesInv'
  BY <1>10 DEF FactorizationFails, GiveUp, FailureAnswer, LibraryRejects
<1>11. ASSUME NEW t \in Threads, LibraryError(t) PROVE StagesInv'
  BY <1>11 DEF LibraryError, GiveUp
<1>12. ASSUME NEW t \in Threads, ThrowsHoldingRaw(t) PROVE StagesInv'
  BY <1>12 DEF ThrowsHoldingRaw, GiveUp
<1>13. ASSUME NEW t \in Threads, ReadCap(t) PROVE StagesInv'
  BY <1>13 DEF ReadCap
<1>14. ASSUME NEW t \in Threads, Insert(t) PROVE StagesInv'
  <2>1. own[t] \in Storage
    BY <1>14, InsertEffect
  <2> QED
    BY <1>14, <2>1 DEF Insert
<1>15. ASSUME NEW t \in Threads, InsertThrows(t) PROVE StagesInv'
  BY <1>15 DEF InsertThrows, GiveUp
<1>16. ASSUME NEW t \in Threads, EndClaim(t) PROVE StagesInv'
  BY <1>16 DEF EndClaim
<1>17. ASSUME NEW t \in Threads, Notify(t) PROVE StagesInv'
  BY <1>17 DEF Notify
<1>18. ASSUME NEW t \in Threads, SpuriousWake(t) PROVE StagesInv'
  BY <1>18 DEF SpuriousWake
<1>19. ASSUME NEW t \in Threads, Release(t) PROVE StagesInv'
  BY <1>19 DEF Release, Finish
<1>20. ASSUME NEW t \in Threads, IssueToken(t) PROVE StagesInv'
  BY <1>20 DEF IssueToken, Finish
<1>21. ASSUME NEW t \in Threads, ResolveToken(t) PROVE StagesInv'
  <2>1. PICK k \in tokens : /\ arg' = [arg EXCEPT ![t] = k.ax]
                            /\ own' = [own EXCEPT ![t] = k.num]
    BY <1>21 DEF ResolveToken
  <2>2. k.ax \in Values /\ k.num \in Storage
    BY <2>1 DEF Token
  <2> QED
    BY <1>21, <2>1, <2>2 DEF ResolveToken
<1>22. CASE DropToken
  BY <1>22 DEF DropToken
<1>23. ASSUME NEW n \in Caps, StoreCap(n) PROVE StagesInv'
  BY <1>23 DEF StoreCap
<1>24. CASE TrimCache
  BY <1>24 DEF TrimCache
<1>25. ASSUME NEW b \in BOOLEAN, SetNanOnFailure(b) PROVE StagesInv'
  BY <1>25 DEF SetNanOnFailure
<1>26. CASE Clear
  BY <1>26 DEF Clear
<1>27. CASE NewPattern
  BY <1>27 DEF NewPattern
<1>28. CASE UNCHANGED vars
  BY <1>28 DEF vars
<1> QED
  BY <1>1, <1>2, <1>3, <1>4, <1>5, <1>6, <1>7, <1>8, <1>9, <1>10, <1>11,
     <1>12, <1>13, <1>14, <1>15, <1>16, <1>17, <1>18, <1>19, <1>20, <1>21,
     <1>22, <1>23, <1>24, <1>25, <1>26, <1>27, <1>28 DEF Next,
     Environment, Step

\* A step that changes no claimant and no claim keeps both claim invariants.
SameClaims ==
  /\ inFlight' = inFlight
  /\ \A u \in Threads :
       /\ pc'[u] \in Claiming <=> pc[u] \in Claiming
       /\ pc[u] \in Claiming => arg'[u] = arg[u]

\* Steps that move nobody in or out of a claim keep the claims.
LEMMA ClaimsKept ==
  ASSUME ControlInv, SameClaims
  PROVE  ClaimsRecorded' /\ OneBuilderPerHash'
<1>1. \A h \in Hashes :
        (\E u \in Threads : pc'[u] \in Claiming /\ HashOf[arg'[u]] = h)
          <=> (\E u \in Threads : pc[u] \in Claiming /\ HashOf[arg[u]] = h)
  BY DEF SameClaims
<1>2. ClaimsRecorded'
  BY <1>1 DEF ControlInv, ClaimsRecorded, SameClaims
<1>3. OneBuilderPerHash'
  BY DEF ControlInv, OneBuilderPerHash, SameClaims
<1> QED
  BY <1>2, <1>3

\* ... and one builder per hash, on the list.
LEMMA NextClaims ==
  ControlInv /\ [Next]_vars => ClaimsRecorded' /\ OneBuilderPerHash'
<1> SUFFICES ASSUME ControlInv, [Next]_vars
             PROVE  ClaimsRecorded' /\ OneBuilderPerHash'
  OBVIOUS
<1> DEFINE Goal == ClaimsRecorded' /\ OneBuilderPerHash'
<1> /\ pc \in [Threads -> Stages]
    /\ arg \in [Threads -> Values \cup {None}]
    /\ inFlight \in [Hashes -> Nat]
    /\ TypeOK /\ StagesInv
  BY DEF ControlInv, TypeOK
<1> USE DEF Stages, settings, threadVars
<1>1. ASSUME NEW t \in Threads, NEW v \in Values, Call(t, v) PROVE Goal
  <2> SameClaims
    BY <1>1 DEF SameClaims, Claiming, Call
  <2> QED
    BY ClaimsKept
<1>2. ASSUME NEW t \in Threads, Hit(t) PROVE Goal
  <2> SameClaims
    BY <1>2 DEF SameClaims, Claiming, Hit
  <2> QED
    BY ClaimsKept
<1>3. ASSUME NEW t \in Threads, Wait(t) PROVE Goal
  <2> SameClaims
    BY <1>3 DEF SameClaims, Claiming, Wait
  <2> QED
    BY ClaimsKept
<1>4. ASSUME NEW t \in Threads, Claim(t) PROVE Goal
  <2> DEFINE h == HashOf[arg[t]]
  <2>1. h \in Hashes /\ inFlight[h] = 0 /\ inFlight' = [inFlight EXCEPT ![h] = 1]
    BY <1>4, HashTyped DEF Claim
  <2>2. \A u \in Threads : ~(pc[u] \in Claiming /\ HashOf[arg[u]] = h)
    BY <2>1 DEF ControlInv, ClaimsRecorded
  <2>3. \A u \in Threads :
          pc'[u] \in Claiming <=> u = t \/ pc[u] \in Claiming
    BY <1>4 DEF Claim, Claiming
  <2>4. arg' = arg
    BY <1>4 DEF Claim
  <2>5. OneBuilderPerHash'
    BY <2>2, <2>3, <2>4 DEF ControlInv, OneBuilderPerHash
  <2>6. ClaimsRecorded'
    BY <2>1, <2>2, <2>3, <2>4 DEF ControlInv, ClaimsRecorded
  <2> QED
    BY <2>5, <2>6
<1>5. ASSUME NEW t \in Threads, RejectValues(t) PROVE Goal
  <2> SameClaims
    BY <1>5 DEF SameClaims, Claiming, RejectValues, GiveUp, FailureAnswer
  <2> QED
    BY ClaimsKept
<1>6. ASSUME NEW t \in Threads, RejectRecycled(t) PROVE Goal
  <2> SameClaims
    BY <1>6 DEF SameClaims, Claiming, RejectRecycled
  <2> QED
    BY ClaimsKept
<1>7. ASSUME NEW t \in Threads, Begin(t) PROVE Goal
  <2> SameClaims
    BY <1>7 DEF SameClaims, Claiming, Begin
  <2> QED
    BY ClaimsKept
<1>8. ASSUME NEW t \in Threads, AllocationFails(t) PROVE Goal
  <2> SameClaims
    BY <1>8 DEF SameClaims, Claiming, AllocationFails, GiveUp
  <2> QED
    BY ClaimsKept
<1>9. ASSUME NEW t \in Threads, Factored(t) PROVE Goal
  <2> SameClaims
    BY <1>9 DEF SameClaims, Claiming, Factored
  <2> QED
    BY ClaimsKept
<1>10. ASSUME NEW t \in Threads, FactorizationFails(t) PROVE Goal
  <2> SameClaims
    BY <1>10 DEF SameClaims, Claiming, FactorizationFails, GiveUp, FailureAnswer
  <2> QED
    BY ClaimsKept
<1>11. ASSUME NEW t \in Threads, LibraryError(t) PROVE Goal
  <2> SameClaims
    BY <1>11 DEF SameClaims, Claiming, LibraryError, GiveUp
  <2> QED
    BY ClaimsKept
<1>12. ASSUME NEW t \in Threads, ThrowsHoldingRaw(t) PROVE Goal
  <2> SameClaims
    BY <1>12 DEF SameClaims, Claiming, ThrowsHoldingRaw, GiveUp
  <2> QED
    BY ClaimsKept
<1>13. ASSUME NEW t \in Threads, ReadCap(t) PROVE Goal
  <2> SameClaims
    BY <1>13 DEF SameClaims, Claiming, ReadCap
  <2> QED
    BY ClaimsKept
<1>14. ASSUME NEW t \in Threads, Insert(t) PROVE Goal
  <2> SameClaims
    BY <1>14 DEF SameClaims, Claiming, Insert
  <2> QED
    BY ClaimsKept
<1>15. ASSUME NEW t \in Threads, InsertThrows(t) PROVE Goal
  <2> SameClaims
    BY <1>15 DEF SameClaims, Claiming, InsertThrows, GiveUp
  <2> QED
    BY ClaimsKept
<1>16. ASSUME NEW t \in Threads, EndClaim(t) PROVE Goal
  <2> DEFINE h == HashOf[arg[t]]
  <2>1. h \in Hashes /\ pc[t] \in Claiming
    BY <1>16, HashTyped DEF EndClaim, Claiming
  <2>2. inFlight[h] = 1
    BY <2>1 DEF ControlInv, ClaimsRecorded
  <2> inFlight' = [inFlight EXCEPT ![h] = 0]
    BY <1>16, <2>1, <2>2 DEF EndClaim
  <2>3. \A u \in Threads :
          pc'[u] \in Claiming <=> u # t /\ pc[u] \in Claiming
    BY <1>16 DEF EndClaim, Claiming
  <2>4. arg' = arg
    BY <1>16 DEF EndClaim
  <2>5. \A u \in Threads :
          u # t /\ pc[u] \in Claiming => HashOf[arg[u]] # h
    BY <2>1 DEF ControlInv, OneBuilderPerHash
  <2>6. OneBuilderPerHash'
    BY <2>3, <2>4 DEF ControlInv, OneBuilderPerHash
  <2>7. ClaimsRecorded'
    BY <2>1, <2>2, <2>3, <2>4, <2>5 DEF ControlInv, ClaimsRecorded
  <2> QED
    BY <2>6, <2>7
<1>17. ASSUME NEW t \in Threads, Notify(t) PROVE Goal
  <2> SameClaims
    BY <1>17 DEF SameClaims, Claiming, Notify
  <2> QED
    BY ClaimsKept
<1>18. ASSUME NEW t \in Threads, SpuriousWake(t) PROVE Goal
  <2> SameClaims
    BY <1>18 DEF SameClaims, Claiming, SpuriousWake
  <2> QED
    BY ClaimsKept
<1>19. ASSUME NEW t \in Threads, Release(t) PROVE Goal
  <2> SameClaims
    BY <1>19 DEF SameClaims, Claiming, Release, Finish
  <2> QED
    BY ClaimsKept
<1>20. ASSUME NEW t \in Threads, IssueToken(t) PROVE Goal
  <2> SameClaims
    BY <1>20 DEF SameClaims, Claiming, IssueToken, Finish
  <2> QED
    BY ClaimsKept
<1>21. ASSUME NEW t \in Threads, ResolveToken(t) PROVE Goal
  <2> SameClaims
    BY <1>21 DEF SameClaims, Claiming, ResolveToken
  <2> QED
    BY ClaimsKept
<1>22. CASE DropToken
  <2> SameClaims
    BY <1>22 DEF SameClaims, Claiming, DropToken
  <2> QED
    BY ClaimsKept
<1>23. ASSUME NEW n \in Caps, StoreCap(n) PROVE Goal
  <2> SameClaims
    BY <1>23 DEF SameClaims, Claiming, StoreCap
  <2> QED
    BY ClaimsKept
<1>24. CASE TrimCache
  <2> SameClaims
    BY <1>24 DEF SameClaims, Claiming, TrimCache
  <2> QED
    BY ClaimsKept
<1>25. ASSUME NEW b \in BOOLEAN, SetNanOnFailure(b) PROVE Goal
  <2> SameClaims
    BY <1>25 DEF SameClaims, Claiming, SetNanOnFailure
  <2> QED
    BY ClaimsKept
<1>26. CASE Clear
  <2> SameClaims
    BY <1>26 DEF SameClaims, Claiming, Clear
  <2> QED
    BY ClaimsKept
<1>27. CASE NewPattern
  <2>1. inFlight' = [h \in Hashes |-> 0] /\ \A u \in Threads : pc'[u] \notin Claiming
    BY <1>27 DEF NewPattern, Claiming
  <2> QED
    BY <2>1 DEF ClaimsRecorded, OneBuilderPerHash
<1>28. CASE UNCHANGED vars
  <2> SameClaims
    BY <1>28 DEF SameClaims, Claiming, vars
  <2> QED
    BY ClaimsKept
<1> QED
  BY <1>1, <1>2, <1>3, <1>4, <1>5, <1>6, <1>7, <1>8, <1>9, <1>10, <1>11,
     <1>12, <1>13, <1>14, <1>15, <1>16, <1>17, <1>18, <1>19, <1>20, <1>21,
     <1>22, <1>23, <1>24, <1>25, <1>26, <1>27, <1>28 DEF Next,
     Environment, Step

\* So these hold together throughout.
LEMMA ControlInductive == Spec => []ControlInv
<1>1. ControlInv /\ [Next]_vars => ControlInv'
  BY NextTypeOK, NextStages, NextClaims DEF ControlInv
<1> QED
  BY InitControl, <1>1, PTL DEF Spec

\* Every variable keeps its type; no count of FactorsInFlight goes below zero.
THEOREM TypeCorrect == Spec => []TypeOK
  BY ControlInductive, PTL DEF ControlInv

\* Two threads never build under the same hash at once.
THEOREM OneBuilder == Spec => []OneBuilderPerHash
  BY ControlInductive, PTL DEF ControlInv

-----------------------------------------------------------------------------
(* Storage: who may read it, who writes it.                                *)

\* Thread t holds a finished factor.
Holding(t) ==
  /\ pc[t] \in {"factored", "inserting", "ending", "notifying", "using"}
  /\ own[t] \in Storage

\* Thread t has storage to write to, and has not finished.
Building(t) == pc[t] \in {"claimed", "factoring"} /\ own[t] \in Storage

\* Storage s holds the factor of v, which has one.
IsFactorOf(s, v) == content[s] = v /\ v \in Values \ Unfactorable

HoldersInv == \A t \in Threads : Holding(t) => IsFactorOf(own[t], arg[t])

TokensInv == \A k \in tokens : IsFactorOf(k.num, k.ax)

SlotsInv ==
  \A i \in 1..Len(cache) :
    cache[i].num \in Storage => IsFactorOf(cache[i].num, cache[i].ax)

\* Storage that is being written has one owner.
BuildersInv ==
  \A t \in Threads : Building(t) =>
    /\ \A u \in Threads \ {t} : own[u] # own[t]
    /\ \A k \in tokens : k.num # own[t]
    /\ \A i \in 1..Len(cache) : cache[i].num # own[t]

StorageInv == HoldersInv /\ TokensInv /\ SlotsInv /\ BuildersInv

\* A step that writes no storage and hands none on.
NothingHandedOn ==
  /\ content' = content
  /\ tokens' \subseteq tokens
  /\ \A i \in 1..Len(cache') : i \in 1..Len(cache) /\ cache'[i] = cache[i]
  /\ \A u \in Threads :
       own'[u] \in Storage =>
         /\ own'[u] = own[u]
         /\ arg'[u] = arg[u]
         /\ Holding(u)' => Holding(u)
         /\ Building(u)' => Building(u)

\* Steps that hand no factor on keep every holder's factor.
LEMMA StorageKept ==
  ASSUME StorageInv, NothingHandedOn
  PROVE  StorageInv'
<1> USE DEF NothingHandedOn, StorageInv
<1>1. HoldersInv'
  BY DEF HoldersInv, IsFactorOf, Holding
<1>2. TokensInv'
  BY DEF TokensInv, IsFactorOf
<1>3. SlotsInv'
  BY DEF SlotsInv, IsFactorOf
<1>4. BuildersInv'
  <2> SUFFICES ASSUME NEW t \in Threads, Building(t)'
               PROVE  /\ \A u \in Threads \ {t} : own'[u] # own'[t]
                      /\ \A k \in tokens' : k.num # own'[t]
                      /\ \A i \in 1..Len(cache') : cache'[i].num # own'[t]
    BY DEF BuildersInv
  <2>1. own'[t] \in Storage /\ own'[t] = own[t] /\ Building(t)
    BY DEF Building
  <2> QED
    BY <2>1 DEF BuildersInv
<1> QED
  BY <1>1, <1>2, <1>3, <1>4

\* Nothing is held at first.
LEMMA InitStorage == Init => StorageInv
  BY CacheAssumption
  DEF Init, StorageInv, HoldersInv, TokensInv, SlotsInv, BuildersInv, Holding,
      Building

\* Every step leaves each factor whole for whoever holds it.
LEMMA NextStorage ==
  ControlInv /\ ControlInv' /\ StorageInv /\ [Next]_vars => StorageInv'
<1> SUFFICES ASSUME ControlInv, ControlInv', StorageInv, [Next]_vars
             PROVE  StorageInv'
  OBVIOUS
<1> /\ TypeOK /\ StagesInv
    /\ pc \in [Threads -> Stages]
    /\ arg \in [Threads -> Values \cup {None}]
    /\ own \in [Threads -> Storage \cup {None}]
    /\ tokens \subseteq Token
    /\ content \in [Storage -> Values \cup {None}]
    /\ None \notin Storage
  BY CacheAssumption DEF ControlInv, TypeOK
<1> USE DEF Stages, settings, threadVars
<1>1. ASSUME NEW t \in Threads, NEW v \in Values, Call(t, v) PROVE StorageInv'
  <2> own[t] = None
    BY <1>1 DEF Call, StagesInv, StageShape
  <2> NothingHandedOn
    BY <1>1 DEF NothingHandedOn, Holding, Building, Call
  <2> QED
    BY StorageKept
<1>2. ASSUME NEW t \in Threads, Hit(t) PROVE StorageInv'
  <2>1. PICK i \in 1..Len(cache) :
          Matches(i, arg[t]) /\ own' = [own EXCEPT ![t] = cache[i].num]
    BY <1>2, SlotsTyped DEF Hit
  <2>2. cache[i].num \in Storage /\ IsFactorOf(cache[i].num, arg[t])
    BY <2>1, SlotsTyped DEF Matches, StorageInv, SlotsInv
  <2>3. UNCHANGED <<content, tokens, cache, arg>>
    BY <1>2 DEF Hit
  <2>4. HoldersInv'
    BY <1>2, <2>1, <2>2, <2>3 DEF Hit, Holding, StorageInv, HoldersInv, IsFactorOf
  <2>5. TokensInv' /\ SlotsInv'
    BY <2>3 DEF StorageInv, TokensInv, SlotsInv, IsFactorOf
  <2>6. BuildersInv'
    BY <1>2, <2>1, <2>2, <2>3 DEF Hit, Building, StorageInv, BuildersInv
  <2> QED
    BY <2>4, <2>5, <2>6 DEF StorageInv
<1>3. ASSUME NEW t \in Threads, Wait(t) PROVE StorageInv'
  <2> NothingHandedOn
    BY <1>3 DEF NothingHandedOn, Holding, Building, Wait
  <2> QED
    BY StorageKept
<1>4. ASSUME NEW t \in Threads, Claim(t) PROVE StorageInv'
  <2>1. UNCHANGED <<content, tokens, arg>>
    BY <1>4 DEF Claim
  <2>2. own[t] = None
    BY <1>4 DEF Claim, StagesInv, StageShape
  <2>3. CASE UNCHANGED <<own, cache>>
    <3> NothingHandedOn
      BY <1>4, <2>1, <2>2, <2>3 DEF NothingHandedOn, Holding, Building, Claim
    <3> QED
      BY StorageKept
  <2>4. CASE ~UNCHANGED <<own, cache>>
    <3>1. PICK i \in 1..Len(cache) :
            /\ cache[i].num \in Storage
            /\ OnlyTheSlotHolds(i)
            /\ own' = [own EXCEPT ![t] = cache[i].num]
            /\ Len(cache') = Len(cache)
            /\ cache'[i] = Hole
            /\ \A j \in 1..Len(cache) \ {i} : cache'[j] = cache[j]
      BY <1>4, <2>4, ClaimEffect
    <3>2. Hole.num \notin Storage
      BY DEF Hole
    <3>3. /\ \A u \in Threads : own[u] # cache[i].num
          /\ \A k \in tokens : k.num # cache[i].num
          /\ \A j \in 1..Len(cache) \ {i} : cache[j].num # cache[i].num
      BY <3>1, SlotsTyped DEF OnlyTheSlotHolds
    <3>4. HoldersInv'
      BY <1>4, <2>1, <3>1 DEF Claim, Holding, StorageInv, HoldersInv, IsFactorOf
    <3>5. TokensInv' /\ SlotsInv'
      BY <2>1, <3>1, <3>2 DEF StorageInv, TokensInv, SlotsInv, IsFactorOf
    <3>6. ASSUME NEW u \in Threads, Building(u)'
          PROVE  /\ \A w \in Threads \ {u} : own'[w] # own'[u]
                 /\ \A k \in tokens' : k.num # own'[u]
                 /\ \A j \in 1..Len(cache') : cache'[j].num # own'[u]
      <4>1. CASE u = t
        BY <2>1, <3>1, <3>2, <3>3, <4>1
      <4>2. CASE u # t
        <5>1. Building(u) /\ own'[u] = own[u]
          BY <1>4, <3>1, <3>6, <4>2 DEF Claim, Building
        <5> QED
          BY <2>1, <3>1, <3>2, <3>3, <4>2, <5>1
          DEF Building, StorageInv, BuildersInv
      <4> QED
        BY <4>1, <4>2
    <3> QED
      BY <3>4, <3>5, <3>6 DEF StorageInv, BuildersInv
  <2> QED
    BY <2>3, <2>4
<1>5. ASSUME NEW t \in Threads, RejectValues(t) PROVE StorageInv'
  <2> NothingHandedOn
    BY <1>5 DEF NothingHandedOn, Holding, Building, RejectValues, GiveUp, FailureAnswer
  <2> QED
    BY StorageKept
<1>6. ASSUME NEW t \in Threads, RejectRecycled(t) PROVE StorageInv'
  <2>1. Building(t)
    BY <1>6 DEF RejectRecycled, Building
  <2>2. /\ \A u \in Threads \ {t} : own[u] # own[t]
        /\ \A k \in tokens : k.num # own[t]
        /\ \A i \in 1..Len(cache) : cache[i].num # own[t]
    BY <2>1 DEF StorageInv, BuildersInv
  <2>3. UNCHANGED <<cache, tokens, arg, pc>>
    BY <1>6 DEF RejectRecycled
  <2>4. \A x \in Storage \ {own[t]} : content'[x] = content[x]
    BY <1>6 DEF RejectRecycled
  <2>5. own' = [own EXCEPT ![t] = None]
    BY <1>6 DEF RejectRecycled
  <2>6. HoldersInv'
    BY <2>2, <2>3, <2>4, <2>5
    DEF Holding, StorageInv, HoldersInv, IsFactorOf
  <2>7. TokensInv'
    BY <2>2, <2>3, <2>4 DEF StorageInv, TokensInv, IsFactorOf, Token
  <2>8. SlotsInv'
    BY <2>2, <2>3, <2>4 DEF StorageInv, SlotsInv, IsFactorOf
  <2>9. BuildersInv'
    BY <2>3, <2>5 DEF Building, StorageInv, BuildersInv
  <2> QED
    BY <2>6, <2>7, <2>8, <2>9 DEF StorageInv
<1>7. ASSUME NEW t \in Threads, Begin(t) PROVE StorageInv'
  <2>1. PICK s \in Storage :
          /\ s \in (IF own[t] # None THEN {own[t]} ELSE Storage \ Reachable)
          /\ own' = [own EXCEPT ![t] = s]
          /\ content' = [content EXCEPT ![s] = None]
    BY <1>7 DEF Begin
  <2>2. /\ \A u \in Threads \ {t} : own[u] # s
        /\ \A k \in tokens : k.num # s
        /\ \A i \in 1..Len(cache) : cache[i].num # s
    <3>1. CASE own[t] # None
      BY <1>7, <2>1, <3>1 DEF Begin, Building, StorageInv, BuildersInv
    <3>2. CASE own[t] = None
      BY <2>1, <3>2, SlotsTyped DEF Reachable
    <3> QED
      BY <3>1, <3>2
  <2>3. UNCHANGED <<cache, tokens, arg>>
    BY <1>7 DEF Begin
  <2>4. pc' = [pc EXCEPT ![t] = "factoring"] /\ pc[t] = "claimed"
    BY <1>7 DEF Begin
  <2>5. \A x \in Storage \ {s} : content'[x] = content[x]
    BY <2>1
  <2>6. HoldersInv'
    BY <2>1, <2>2, <2>3, <2>4, <2>5
    DEF Holding, StorageInv, HoldersInv, IsFactorOf
  <2>7. TokensInv'
    BY <2>2, <2>3, <2>5 DEF StorageInv, TokensInv, IsFactorOf, Token
  <2>8. SlotsInv'
    BY <2>2, <2>3, <2>5 DEF StorageInv, SlotsInv, IsFactorOf
  <2>9. BuildersInv'
    BY <2>1, <2>2, <2>3, <2>4 DEF Building, StorageInv, BuildersInv
  <2> QED
    BY <2>6, <2>7, <2>8, <2>9 DEF StorageInv
<1>8. ASSUME NEW t \in Threads, AllocationFails(t) PROVE StorageInv'
  <2> NothingHandedOn
    BY <1>8 DEF NothingHandedOn, Holding, Building, AllocationFails, GiveUp
  <2> QED
    BY StorageKept
<1>9. ASSUME NEW t \in Threads, Factored(t) PROVE StorageInv'
  <2>1. Building(t) /\ arg[t] \in Values \ Unfactorable
    BY <1>9 DEF Factored, Building, StagesInv, StageShape, LibraryRejects
  <2>2. /\ \A u \in Threads \ {t} : own[u] # own[t]
        /\ \A k \in tokens : k.num # own[t]
        /\ \A i \in 1..Len(cache) : cache[i].num # own[t]
    BY <2>1 DEF StorageInv, BuildersInv
  <2>3. UNCHANGED <<cache, tokens, arg, own>>
    BY <1>9 DEF Factored
  <2>4. pc' = [pc EXCEPT ![t] = "factored"]
    BY <1>9 DEF Factored
  <2>5. /\ \A x \in Storage \ {own[t]} : content'[x] = content[x]
        /\ content'[own[t]] = arg[t]
    BY <1>9, <2>1 DEF Factored, Building
  <2>6. HoldersInv'
    BY <2>1, <2>2, <2>3, <2>4, <2>5
    DEF Holding, StorageInv, HoldersInv, IsFactorOf
  <2>7. TokensInv'
    BY <2>2, <2>3, <2>5 DEF StorageInv, TokensInv, IsFactorOf, Token
  <2>8. SlotsInv'
    BY <2>2, <2>3, <2>5 DEF StorageInv, SlotsInv, IsFactorOf
  <2>9. BuildersInv'
    BY <2>3, <2>4 DEF Building, StorageInv, BuildersInv
  <2> QED
    BY <2>6, <2>7, <2>8, <2>9 DEF StorageInv
<1>10. ASSUME NEW t \in Threads, FactorizationFails(t) PROVE StorageInv'
  <2> NothingHandedOn
    BY <1>10 DEF NothingHandedOn, Holding, Building, FactorizationFails, GiveUp, FailureAnswer
  <2> QED
    BY StorageKept
<1>11. ASSUME NEW t \in Threads, LibraryError(t) PROVE StorageInv'
  <2> NothingHandedOn
    BY <1>11 DEF NothingHandedOn, Holding, Building, LibraryError, GiveUp
  <2> QED
    BY StorageKept
<1>12. ASSUME NEW t \in Threads, ThrowsHoldingRaw(t) PROVE StorageInv'
  <2> NothingHandedOn
    BY <1>12 DEF NothingHandedOn, Holding, Building, ThrowsHoldingRaw, GiveUp
  <2> QED
    BY StorageKept
<1>13. ASSUME NEW t \in Threads, ReadCap(t) PROVE StorageInv'
  <2> NothingHandedOn
    BY <1>13 DEF NothingHandedOn, Holding, Building, ReadCap
  <2> QED
    BY StorageKept
<1>14. ASSUME NEW t \in Threads, Insert(t) PROVE StorageInv'
  <2>1. PICK p \in 1..Len(cache') :
          /\ cache'[p] = [ax |-> arg[t], num |-> own[t]]
          /\ \A i \in 1..Len(cache') \ {p} :
               i \in 1..Len(cache) /\ cache'[i] = cache[i]
    BY <1>14, InsertEffect
  <2>2. Holding(t) /\ IsFactorOf(own[t], arg[t])
    BY <1>14 DEF Insert, StagesInv, StageShape, Holding, StorageInv, HoldersInv
  <2>3. UNCHANGED <<content, tokens, arg, own>>
    BY <1>14 DEF Insert
  <2>4. pc' = [pc EXCEPT ![t] = "ending"] /\ pc[t] = "inserting"
    BY <1>14 DEF Insert
  <2>5. HoldersInv'
    BY <2>3, <2>4 DEF Holding, StorageInv, HoldersInv, IsFactorOf
  <2>6. TokensInv'
    BY <2>3 DEF StorageInv, TokensInv, IsFactorOf
  <2>7. SlotsInv'
    BY <2>1, <2>2, <2>3 DEF StorageInv, SlotsInv, IsFactorOf
  <2>8. ASSUME NEW u \in Threads, Building(u)'
        PROVE  /\ \A w \in Threads \ {u} : own'[w] # own'[u]
               /\ \A k \in tokens' : k.num # own'[u]
               /\ \A i \in 1..Len(cache') : cache'[i].num # own'[u]
    <3>1. Building(u) /\ u # t
      BY <2>3, <2>4, <2>8 DEF Building
    <3> QED
      BY <2>1, <2>3, <3>1 DEF StorageInv, BuildersInv
  <2> QED
    BY <2>5, <2>6, <2>7, <2>8 DEF StorageInv, BuildersInv
<1>15. ASSUME NEW t \in Threads, InsertThrows(t) PROVE StorageInv'
  <2> NothingHandedOn
    BY <1>15 DEF NothingHandedOn, Holding, Building, InsertThrows, GiveUp
  <2> QED
    BY StorageKept
<1>16. ASSUME NEW t \in Threads, EndClaim(t) PROVE StorageInv'
  <2> NothingHandedOn
    BY <1>16 DEF NothingHandedOn, Holding, Building, EndClaim
  <2> QED
    BY StorageKept
<1>17. ASSUME NEW t \in Threads, Notify(t) PROVE StorageInv'
  <2> NothingHandedOn
    BY <1>17 DEF NothingHandedOn, Holding, Building, Notify
  <2> QED
    BY StorageKept
<1>18. ASSUME NEW t \in Threads, SpuriousWake(t) PROVE StorageInv'
  <2> NothingHandedOn
    BY <1>18 DEF NothingHandedOn, Holding, Building, SpuriousWake
  <2> QED
    BY StorageKept
<1>19. ASSUME NEW t \in Threads, Release(t) PROVE StorageInv'
  <2> NothingHandedOn
    BY <1>19 DEF NothingHandedOn, Holding, Building, Release, Finish
  <2> QED
    BY StorageKept
<1>20. ASSUME NEW t \in Threads, IssueToken(t) PROVE StorageInv'
  <2>1. Holding(t) /\ IsFactorOf(own[t], arg[t])
    BY <1>20 DEF IssueToken, Finish, StagesInv, StageShape, Holding, StorageInv,
               HoldersInv
  <2>2. /\ tokens' = tokens \cup {[ax |-> arg[t], num |-> own[t]]}
        /\ UNCHANGED <<content, cache>>
        /\ pc' = [pc EXCEPT ![t] = "idle"]
        /\ own' = [own EXCEPT ![t] = None]
        /\ arg' = [arg EXCEPT ![t] = None]
        /\ pc[t] = "using"
    BY <1>20 DEF IssueToken, Finish
  <2>3. HoldersInv'
    BY <2>2 DEF Holding, StorageInv, HoldersInv, IsFactorOf
  <2>4. TokensInv'
    BY <2>1, <2>2 DEF StorageInv, TokensInv, IsFactorOf
  <2>5. SlotsInv'
    BY <2>2 DEF StorageInv, SlotsInv, IsFactorOf
  <2>6. ASSUME NEW u \in Threads, Building(u)'
        PROVE  /\ \A w \in Threads \ {u} : own'[w] # own'[u]
               /\ \A k \in tokens' : k.num # own'[u]
               /\ \A i \in 1..Len(cache') : cache'[i].num # own'[u]
    <3>1. Building(u) /\ u # t
      BY <2>2, <2>6 DEF Building
    <3>2. own'[u] = own[u] /\ own[u] # None /\ own[t] # own[u]
      BY <2>2, <3>1 DEF Building, StorageInv, BuildersInv
    <3> QED
      BY <2>2, <3>1, <3>2 DEF StorageInv, BuildersInv
  <2> QED
    BY <2>3, <2>4, <2>5, <2>6 DEF StorageInv, BuildersInv
<1>21. ASSUME NEW t \in Threads, ResolveToken(t) PROVE StorageInv'
  <2>1. PICK k \in tokens : /\ arg' = [arg EXCEPT ![t] = k.ax]
                            /\ own' = [own EXCEPT ![t] = k.num]
    BY <1>21 DEF ResolveToken
  <2>2. k.num \in Storage /\ IsFactorOf(k.num, k.ax)
    BY <2>1 DEF Token, StorageInv, TokensInv
  <2>3. /\ UNCHANGED <<content, cache, tokens>>
        /\ pc' = [pc EXCEPT ![t] = "using"]
    BY <1>21 DEF ResolveToken
  <2>4. HoldersInv'
    BY <2>1, <2>2, <2>3 DEF Holding, StorageInv, HoldersInv, IsFactorOf
  <2>5. TokensInv' /\ SlotsInv'
    BY <2>3 DEF StorageInv, TokensInv, SlotsInv, IsFactorOf
  <2>6. BuildersInv'
    BY <2>1, <2>2, <2>3 DEF Building, StorageInv, BuildersInv
  <2> QED
    BY <2>4, <2>5, <2>6 DEF StorageInv
<1>22. CASE DropToken
  <2> NothingHandedOn
    BY <1>22 DEF NothingHandedOn, Holding, Building, DropToken
  <2> QED
    BY StorageKept
<1>23. ASSUME NEW n \in Caps, StoreCap(n) PROVE StorageInv'
  <2> NothingHandedOn
    BY <1>23 DEF NothingHandedOn, Holding, Building, StoreCap
  <2> QED
    BY StorageKept
<1>24. CASE TrimCache
  <2>1. \A i \in 1..Len(cache') : i \in 1..Len(cache) /\ cache'[i] = cache[i]
    BY <1>24, TrimEffect, SlotsTyped
  <2> NothingHandedOn
    BY <1>24, <2>1 DEF NothingHandedOn, Holding, Building, TrimCache
  <2> QED
    BY StorageKept
<1>25. ASSUME NEW b \in BOOLEAN, SetNanOnFailure(b) PROVE StorageInv'
  <2> NothingHandedOn
    BY <1>25 DEF NothingHandedOn, Holding, Building, SetNanOnFailure
  <2> QED
    BY StorageKept
<1>26. CASE Clear
  <2> Len(cache') = 0
    BY <1>26 DEF Clear
  <2> NothingHandedOn
    BY <1>26 DEF NothingHandedOn, Holding, Building, Clear
  <2> QED
    BY StorageKept
<1>27. CASE NewPattern
  <2> Len(cache') = 0
    BY <1>27 DEF NewPattern
  <2> NothingHandedOn
    BY <1>27 DEF NothingHandedOn, Holding, Building, NewPattern
  <2> QED
    BY StorageKept
<1>28. CASE UNCHANGED vars
  <2> NothingHandedOn
    BY <1>28 DEF NothingHandedOn, Holding, Building, vars
  <2> QED
    BY StorageKept
<1> QED
  BY <1>1, <1>2, <1>3, <1>4, <1>5, <1>6, <1>7, <1>8, <1>9, <1>10, <1>11,
     <1>12, <1>13, <1>14, <1>15, <1>16, <1>17, <1>18, <1>19, <1>20, <1>21,
     <1>22, <1>23, <1>24, <1>25, <1>26, <1>27, <1>28 DEF Next,
     Environment, Step

\* So factors are whole throughout.
LEMMA StorageInductive == Spec => []StorageInv
<1>1. Init => StorageInv
  BY InitStorage
<1>2. ControlInv /\ ControlInv' /\ StorageInv /\ [Next]_vars => StorageInv'
  BY NextStorage
<1> QED
  BY <1>1, <1>2, ControlInductive, PTL DEF Spec

\* A factor in use, behind a token or in a slot is the factor of its values:
\* recycling the storage of evicted factors never writes under a reader.
THEOREM FactorsStayExact == Spec => []HeldFactorsExact
<1>1. ControlInv /\ StorageInv => HeldFactorsExact
  <2> SUFFICES ASSUME ControlInv, StorageInv PROVE HeldFactorsExact
    OBVIOUS
  <2>1. ASSUME NEW t \in Threads, pc[t] = "using", answer[t] = "factor"
        PROVE  content[own[t]] = arg[t]
    BY <2>1 DEF ControlInv, StagesInv, StageShape, StorageInv, HoldersInv,
                Holding, IsFactorOf
  <2>2. \A k \in tokens : content[k.num] = k.ax
    BY DEF StorageInv, TokensInv, IsFactorOf
  <2>3. \A i \in DOMAIN cache :
          cache[i].num # None => content[cache[i].num] = cache[i].ax
    BY SlotsTyped DEF ControlInv, StorageInv, SlotsInv, IsFactorOf
  <2> QED
    BY <2>1, <2>2, <2>3 DEF HeldFactorsExact
<1> QED
  BY <1>1, ControlInductive, StorageInductive, PTL

\* The storage a factorization writes into belongs to its thread alone.
THEOREM BuildersOwnTheirStorage == Spec => []BuilderOwnsItsStorage
<1>1. ControlInv /\ StorageInv => BuilderOwnsItsStorage
  BY SlotsTyped
  DEF ControlInv, TypeOK, StorageInv, BuildersInv, Building,
      BuilderOwnsItsStorage
<1> QED
  BY <1>1, ControlInductive, StorageInductive, PTL

-----------------------------------------------------------------------------
(* The cache: no matrix twice, and no more slots than a cap allows.        *)

\* Thread t has claimed its values and not yet inserted them.
Unbuilt(t) == pc[t] \in {"claimed", "factoring", "factored", "inserting"}

DistinctInv ==
  /\ NoDuplicateSlots
  /\ \A t \in Threads : Unbuilt(t) => ~Cached(arg[t])

\* A step after which the cache offers nothing new and nobody new builds.
NothingOffered ==
  /\ \A i \in DOMAIN cache' :
       i \in DOMAIN cache /\ (cache'[i] = cache[i] \/ cache'[i].num = None)
  /\ \A u \in Threads : Unbuilt(u)' => Unbuilt(u) /\ arg'[u] = arg[u]

\* Steps that add nothing to the cache add no duplicate.
LEMMA DistinctKept ==
  ASSUME DistinctInv, NothingOffered
  PROVE  DistinctInv'
  BY DEF DistinctInv, NothingOffered, NoDuplicateSlots, Cached, Matches

\* An empty cache has no duplicate.
LEMMA InitDistinct == Init => DistinctInv
  BY DEF Init, DistinctInv, NoDuplicateSlots, Unbuilt

\* Values are cached only by the one who claimed them, so once.
LEMMA NextDistinct ==
  ControlInv /\ DistinctInv /\ [Next]_vars => DistinctInv'
<1> SUFFICES ASSUME ControlInv, DistinctInv, [Next]_vars
             PROVE  DistinctInv'
  OBVIOUS
<1> /\ TypeOK /\ StagesInv /\ OneBuilderPerHash
    /\ pc \in [Threads -> Stages]
    /\ arg \in [Threads -> Values \cup {None}]
  BY DEF ControlInv, TypeOK
<1> USE DEF Stages, settings, threadVars
<1>1. ASSUME NEW t \in Threads, NEW v \in Values, Call(t, v) PROVE DistinctInv'
  <2> NothingOffered
    BY <1>1 DEF NothingOffered, Unbuilt, Call
  <2> QED
    BY DistinctKept
<1>2. ASSUME NEW t \in Threads, Hit(t) PROVE DistinctInv'
  <2> NothingOffered
    BY <1>2 DEF NothingOffered, Unbuilt, Hit
  <2> QED
    BY DistinctKept
<1>3. ASSUME NEW t \in Threads, Wait(t) PROVE DistinctInv'
  <2> NothingOffered
    BY <1>3 DEF NothingOffered, Unbuilt, Wait
  <2> QED
    BY DistinctKept
<1>4. ASSUME NEW t \in Threads, Claim(t) PROVE DistinctInv'
  <2>1. /\ ~Cached(arg[t])
        /\ arg' = arg
        /\ pc' = [pc EXCEPT ![t] = "claimed"]
    BY <1>4 DEF Claim
  <2>2. \A i \in DOMAIN cache' :
          i \in DOMAIN cache /\ (cache'[i] = cache[i] \/ cache'[i].num = None)
    <3>1. CASE UNCHANGED <<own, cache>>
      BY <3>1
    <3>2. CASE ~UNCHANGED <<own, cache>>
      <4>1. PICK i \in 1..Len(cache) :
              /\ cache' \in Seq(Slot)
              /\ Len(cache') = Len(cache)
              /\ cache'[i] = Hole
              /\ \A j \in 1..Len(cache) \ {i} : cache'[j] = cache[j]
        BY <1>4, <3>2, ClaimEffect
      <4>2. DOMAIN cache' = DOMAIN cache
        BY <4>1, SlotsTyped, LenProperties
      <4> QED
        BY <4>1, <4>2, SlotsTyped DEF Hole
    <3> QED
      BY <3>1, <3>2
  <2>3. NoDuplicateSlots'
    BY <2>2 DEF DistinctInv, NoDuplicateSlots
  <2>4. \A v : ~Cached(v) => ~Cached(v)'
    BY <2>2 DEF Cached, Matches
  <2>5. \A u \in Threads : Unbuilt(u)' => u = t \/ Unbuilt(u)
    BY <2>1 DEF Unbuilt
  <2>6. \A u \in Threads : Unbuilt(u)' => ~Cached(arg[u])'
    BY <2>1, <2>4, <2>5 DEF DistinctInv
  <2> QED
    BY <2>1, <2>3, <2>6 DEF DistinctInv
<1>5. ASSUME NEW t \in Threads, RejectValues(t) PROVE DistinctInv'
  <2> NothingOffered
    BY <1>5 DEF NothingOffered, Unbuilt, RejectValues, GiveUp, FailureAnswer
  <2> QED
    BY DistinctKept
<1>6. ASSUME NEW t \in Threads, RejectRecycled(t) PROVE DistinctInv'
  <2> NothingOffered
    BY <1>6 DEF NothingOffered, Unbuilt, RejectRecycled
  <2> QED
    BY DistinctKept
<1>7. ASSUME NEW t \in Threads, Begin(t) PROVE DistinctInv'
  <2> NothingOffered
    BY <1>7 DEF NothingOffered, Unbuilt, Begin
  <2> QED
    BY DistinctKept
<1>8. ASSUME NEW t \in Threads, AllocationFails(t) PROVE DistinctInv'
  <2> NothingOffered
    BY <1>8 DEF NothingOffered, Unbuilt, AllocationFails, GiveUp
  <2> QED
    BY DistinctKept
<1>9. ASSUME NEW t \in Threads, Factored(t) PROVE DistinctInv'
  <2> NothingOffered
    BY <1>9 DEF NothingOffered, Unbuilt, Factored
  <2> QED
    BY DistinctKept
<1>10. ASSUME NEW t \in Threads, FactorizationFails(t) PROVE DistinctInv'
  <2> NothingOffered
    BY <1>10 DEF NothingOffered, Unbuilt, FactorizationFails, GiveUp, FailureAnswer
  <2> QED
    BY DistinctKept
<1>11. ASSUME NEW t \in Threads, LibraryError(t) PROVE DistinctInv'
  <2> NothingOffered
    BY <1>11 DEF NothingOffered, Unbuilt, LibraryError, GiveUp
  <2> QED
    BY DistinctKept
<1>12. ASSUME NEW t \in Threads, ThrowsHoldingRaw(t) PROVE DistinctInv'
  <2> NothingOffered
    BY <1>12 DEF NothingOffered, Unbuilt, ThrowsHoldingRaw, GiveUp
  <2> QED
    BY DistinctKept
<1>13. ASSUME NEW t \in Threads, ReadCap(t) PROVE DistinctInv'
  <2> NothingOffered
    BY <1>13 DEF NothingOffered, Unbuilt, ReadCap
  <2> QED
    BY DistinctKept
<1>14. ASSUME NEW t \in Threads, Insert(t) PROVE DistinctInv'
  <2>1. PICK p \in 1..Len(cache') :
          /\ cache'[p] = [ax |-> arg[t], num |-> own[t]]
          /\ \A i \in 1..Len(cache') \ {p} :
               i \in 1..Len(cache) /\ cache'[i] = cache[i]
    BY <1>14, InsertEffect
  <2>2. DOMAIN cache' = 1..Len(cache') /\ DOMAIN cache = 1..Len(cache)
    BY <1>14, InsertEffect, SlotsTyped, LenProperties
  <2>3. ~Cached(arg[t]) /\ pc[t] = "inserting"
    BY <1>14 DEF Insert, DistinctInv, Unbuilt
  <2>4. arg' = arg /\ pc' = [pc EXCEPT ![t] = "ending"]
    BY <1>14 DEF Insert
  <2>5. NoDuplicateSlots'
    BY <2>1, <2>2, <2>3 DEF DistinctInv, NoDuplicateSlots, Cached, Matches
  <2>6. ASSUME NEW u \in Threads, Unbuilt(u)'
        PROVE  ~Cached(arg[u])'
    <3>1. u # t /\ Unbuilt(u) /\ arg[u] # arg[t]
      BY <2>3, <2>4, <2>6 DEF Unbuilt, OneBuilderPerHash, Claiming
    <3>2. ~Cached(arg[u])
      BY <3>1 DEF DistinctInv
    <3> QED
      BY <2>1, <2>2, <2>4, <3>1, <3>2 DEF Cached, Matches
  <2> QED
    BY <2>4, <2>5, <2>6 DEF DistinctInv
<1>15. ASSUME NEW t \in Threads, InsertThrows(t) PROVE DistinctInv'
  <2> NothingOffered
    BY <1>15 DEF NothingOffered, Unbuilt, InsertThrows, GiveUp
  <2> QED
    BY DistinctKept
<1>16. ASSUME NEW t \in Threads, EndClaim(t) PROVE DistinctInv'
  <2> NothingOffered
    BY <1>16 DEF NothingOffered, Unbuilt, EndClaim
  <2> QED
    BY DistinctKept
<1>17. ASSUME NEW t \in Threads, Notify(t) PROVE DistinctInv'
  <2> NothingOffered
    BY <1>17 DEF NothingOffered, Unbuilt, Notify
  <2> QED
    BY DistinctKept
<1>18. ASSUME NEW t \in Threads, SpuriousWake(t) PROVE DistinctInv'
  <2> NothingOffered
    BY <1>18 DEF NothingOffered, Unbuilt, SpuriousWake
  <2> QED
    BY DistinctKept
<1>19. ASSUME NEW t \in Threads, Release(t) PROVE DistinctInv'
  <2> NothingOffered
    BY <1>19 DEF NothingOffered, Unbuilt, Release, Finish
  <2> QED
    BY DistinctKept
<1>20. ASSUME NEW t \in Threads, IssueToken(t) PROVE DistinctInv'
  <2> NothingOffered
    BY <1>20 DEF NothingOffered, Unbuilt, IssueToken, Finish
  <2> QED
    BY DistinctKept
<1>21. ASSUME NEW t \in Threads, ResolveToken(t) PROVE DistinctInv'
  <2> NothingOffered
    BY <1>21 DEF NothingOffered, Unbuilt, ResolveToken
  <2> QED
    BY DistinctKept
<1>22. CASE DropToken
  <2> NothingOffered
    BY <1>22 DEF NothingOffered, Unbuilt, DropToken
  <2> QED
    BY DistinctKept
<1>23. ASSUME NEW n \in Caps, StoreCap(n) PROVE DistinctInv'
  <2> NothingOffered
    BY <1>23 DEF NothingOffered, Unbuilt, StoreCap
  <2> QED
    BY DistinctKept
<1>24. CASE TrimCache
  <2>1. /\ cache' \in Seq(Slot)
        /\ \A i \in 1..Len(cache') : cache'[i] = cache[i]
        /\ Len(cache') <= Len(cache)
    BY <1>24, TrimEffect
  <2>2. /\ DOMAIN cache' = 1..Len(cache') /\ DOMAIN cache = 1..Len(cache)
        /\ Len(cache') \in Nat /\ Len(cache) \in Nat
    BY <2>1, SlotsTyped, LenProperties
  <2> NothingOffered
    BY <1>24, <2>1, <2>2 DEF NothingOffered, Unbuilt, TrimCache
  <2> QED
    BY DistinctKept
<1>25. ASSUME NEW b \in BOOLEAN, SetNanOnFailure(b) PROVE DistinctInv'
  <2> NothingOffered
    BY <1>25 DEF NothingOffered, Unbuilt, SetNanOnFailure
  <2> QED
    BY DistinctKept
<1>26. CASE Clear
  <2> NothingOffered
    BY <1>26 DEF NothingOffered, Unbuilt, Clear
  <2> QED
    BY DistinctKept
<1>27. CASE NewPattern
  <2> NothingOffered
    BY <1>27 DEF NothingOffered, Unbuilt, NewPattern
  <2> QED
    BY DistinctKept
<1>28. CASE UNCHANGED vars
  <2> NothingOffered
    BY <1>28 DEF NothingOffered, Unbuilt, vars
  <2> QED
    BY DistinctKept
<1> QED
  BY <1>1, <1>2, <1>3, <1>4, <1>5, <1>6, <1>7, <1>8, <1>9, <1>10, <1>11,
     <1>12, <1>13, <1>14, <1>15, <1>16, <1>17, <1>18, <1>19, <1>20, <1>21,
     <1>22, <1>23, <1>24, <1>25, <1>26, <1>27, <1>28 DEF Next,
     Environment, Step

\* No matrix takes two slots of the cache.
THEOREM NoMatrixTwice == Spec => []NoDuplicateSlots
<1>1. ControlInv /\ DistinctInv /\ [Next]_vars => DistinctInv'
  BY NextDistinct
<1>2. DistinctInv => NoDuplicateSlots
  BY DEF DistinctInv
<1> QED
  BY InitDistinct, <1>1, <1>2, ControlInductive, PTL DEF Spec

\* An insert stays within the cap it read, and a trim within its own.
LEMMA NextWithinCaps ==
  ControlInv /\ CacheWithinCaps /\ [Next]_vars => CacheWithinCaps'
<1> SUFFICES ASSUME ControlInv, CacheWithinCaps, [Next]_vars
             PROVE  CacheWithinCaps'
  OBVIOUS
<1>1. /\ TypeOK /\ StagesInv
      /\ Len(cache) \in Nat
      /\ \A n \in Caps : n \in Nat
  BY CacheAssumption, SlotsTyped DEF ControlInv
<1>2. ASSUME NEW t \in Threads, Claim(t) PROVE CacheWithinCaps'
  BY <1>1, <1>2, ClaimEffect DEF CacheWithinCaps
<1>3. ASSUME NEW t \in Threads, Insert(t) PROVE CacheWithinCaps'
  <2>1. capSeen[t] \in Caps /\ (Len(cache') = Len(cache) \/ Len(cache') <= capSeen[t])
    BY <1>1, <1>3, InsertEffect
  <2> QED
    BY <1>1, <2>1 DEF CacheWithinCaps
<1>4. CASE TrimCache
  <2>1. Len(cache') \in Nat /\ Len(cache') <= Len(cache)
    BY <1>1, <1>4, TrimEffect, LenProperties
  <2> QED
    BY <1>1, <2>1 DEF CacheWithinCaps
<1>5. CASE Clear \/ NewPattern
  <2>1. Len(cache') = 0
    BY <1>5 DEF Clear, NewPattern
  <2> QED
    BY <1>1, <2>1 DEF CacheWithinCaps
<1>6. CASE UNCHANGED cache
  BY <1>6 DEF CacheWithinCaps
<1>7. \/ \E t \in Threads : Claim(t) \/ Insert(t)
      \/ TrimCache \/ Clear \/ NewPattern
      \/ UNCHANGED cache
  BY DEF Next, Environment, Step, vars, Call, Hit, Wait, SpuriousWake,
         RejectValues, RejectRecycled, Begin, AllocationFails, Factored,
         FactorizationFails, LibraryError, ThrowsHoldingRaw, ReadCap,
         InsertThrows, EndClaim, Notify, Release, IssueToken, Finish,
         ResolveToken, DropToken, StoreCap, SetNanOnFailure
<1> QED
  BY <1>2, <1>3, <1>4, <1>5, <1>6, <1>7

\* However inserts, trims and changes of the cap interleave, the cache has no
\* more slots than the largest cap: with one cap, than the cap.
THEOREM CacheBounded == Spec => []CacheWithinCaps
<1>1. Init => CacheWithinCaps
  BY CacheAssumption DEF Init, CacheWithinCaps
<1>2. ControlInv /\ CacheWithinCaps /\ [Next]_vars => CacheWithinCaps'
  BY NextWithinCaps
<1> QED
  BY <1>1, <1>2, ControlInductive, PTL DEF Spec

-----------------------------------------------------------------------------
(* Sleepers.                                                               *)

\* A step that puts nobody to sleep, ends no claim and notifies nobody.
WakersKept ==
  \A u \in Threads :
    /\ pc'[u] = "waiting" => pc[u] = "waiting" /\ arg'[u] = arg[u]
    /\ pc[u] \in Claiming => pc'[u] \in Claiming /\ arg'[u] = arg[u]
    /\ pc[u] = "notifying" => pc'[u] = "notifying"

\* Steps that end no claim leave every sleeper its waker.
LEMMA SleepersKept ==
  ASSUME SleepersHaveAWaker, WakersKept
  PROVE  SleepersHaveAWaker'
<1> SUFFICES ASSUME NEW t \in Threads, pc'[t] = "waiting"
             PROVE  \/ \E u \in Threads :
                         pc'[u] \in Claiming /\ HashOf[arg'[u]] = HashOf[arg'[t]]
                    \/ \E u \in Threads : pc'[u] = "notifying"
  BY DEF SleepersHaveAWaker
<1>1. pc[t] = "waiting" /\ arg'[t] = arg[t]
  BY DEF WakersKept
<1>2. \/ \E u \in Threads : pc[u] \in Claiming /\ HashOf[arg[u]] = HashOf[arg[t]]
      \/ \E u \in Threads : pc[u] = "notifying"
  BY <1>1 DEF SleepersHaveAWaker
<1> QED
  BY <1>1, <1>2 DEF WakersKept

\* A claim's end is followed by its notice.
LEMMA NextSleepers ==
  ControlInv /\ SleepersHaveAWaker /\ [Next]_vars => SleepersHaveAWaker'
<1> SUFFICES ASSUME ControlInv, SleepersHaveAWaker, [Next]_vars
             PROVE  SleepersHaveAWaker'
  OBVIOUS
<1> /\ pc \in [Threads -> Stages]
    /\ arg \in [Threads -> Values \cup {None}]
    /\ inFlight \in [Hashes -> Nat]
    /\ TypeOK /\ StagesInv
  BY DEF ControlInv, TypeOK
<1> USE DEF Stages, settings, threadVars
<1>1. ASSUME NEW t \in Threads, NEW v \in Values, Call(t, v) PROVE SleepersHaveAWaker'
  <2> WakersKept
    BY <1>1 DEF WakersKept, Claiming, Call
  <2> QED
    BY SleepersKept
<1>2. ASSUME NEW t \in Threads, Hit(t) PROVE SleepersHaveAWaker'
  <2> WakersKept
    BY <1>2 DEF WakersKept, Claiming, Hit
  <2> QED
    BY SleepersKept
<1>3. ASSUME NEW t \in Threads, Wait(t) PROVE SleepersHaveAWaker'
  <2>1. HashOf[arg[t]] \in Hashes /\ inFlight[HashOf[arg[t]]] > 0
    BY <1>3, HashTyped DEF Wait
  <2>2. PICK u \in Threads : pc[u] \in Claiming /\ HashOf[arg[u]] = HashOf[arg[t]]
    BY <2>1 DEF ControlInv, ClaimsRecorded
  <2>3. /\ arg' = arg
        /\ \A w \in Threads : w # t => pc'[w] = pc[w]
        /\ pc[t] = "lookup"
    BY <1>3 DEF Wait
  <2> QED
    BY <2>2, <2>3 DEF SleepersHaveAWaker, Claiming
<1>4. ASSUME NEW t \in Threads, Claim(t) PROVE SleepersHaveAWaker'
  <2> WakersKept
    BY <1>4 DEF WakersKept, Claiming, Claim
  <2> QED
    BY SleepersKept
<1>5. ASSUME NEW t \in Threads, RejectValues(t) PROVE SleepersHaveAWaker'
  <2> WakersKept
    BY <1>5 DEF WakersKept, Claiming, RejectValues, GiveUp, FailureAnswer
  <2> QED
    BY SleepersKept
<1>6. ASSUME NEW t \in Threads, RejectRecycled(t) PROVE SleepersHaveAWaker'
  <2> WakersKept
    BY <1>6 DEF WakersKept, Claiming, RejectRecycled
  <2> QED
    BY SleepersKept
<1>7. ASSUME NEW t \in Threads, Begin(t) PROVE SleepersHaveAWaker'
  <2> WakersKept
    BY <1>7 DEF WakersKept, Claiming, Begin
  <2> QED
    BY SleepersKept
<1>8. ASSUME NEW t \in Threads, AllocationFails(t) PROVE SleepersHaveAWaker'
  <2> WakersKept
    BY <1>8 DEF WakersKept, Claiming, AllocationFails, GiveUp
  <2> QED
    BY SleepersKept
<1>9. ASSUME NEW t \in Threads, Factored(t) PROVE SleepersHaveAWaker'
  <2> WakersKept
    BY <1>9 DEF WakersKept, Claiming, Factored
  <2> QED
    BY SleepersKept
<1>10. ASSUME NEW t \in Threads, FactorizationFails(t) PROVE SleepersHaveAWaker'
  <2> WakersKept
    BY <1>10 DEF WakersKept, Claiming, FactorizationFails, GiveUp, FailureAnswer
  <2> QED
    BY SleepersKept
<1>11. ASSUME NEW t \in Threads, LibraryError(t) PROVE SleepersHaveAWaker'
  <2> WakersKept
    BY <1>11 DEF WakersKept, Claiming, LibraryError, GiveUp
  <2> QED
    BY SleepersKept
<1>12. ASSUME NEW t \in Threads, ThrowsHoldingRaw(t) PROVE SleepersHaveAWaker'
  <2> WakersKept
    BY <1>12 DEF WakersKept, Claiming, ThrowsHoldingRaw, GiveUp
  <2> QED
    BY SleepersKept
<1>13. ASSUME NEW t \in Threads, ReadCap(t) PROVE SleepersHaveAWaker'
  <2> WakersKept
    BY <1>13 DEF WakersKept, Claiming, ReadCap
  <2> QED
    BY SleepersKept
<1>14. ASSUME NEW t \in Threads, Insert(t) PROVE SleepersHaveAWaker'
  <2> WakersKept
    BY <1>14 DEF WakersKept, Claiming, Insert
  <2> QED
    BY SleepersKept
<1>15. ASSUME NEW t \in Threads, InsertThrows(t) PROVE SleepersHaveAWaker'
  <2> WakersKept
    BY <1>15 DEF WakersKept, Claiming, InsertThrows, GiveUp
  <2> QED
    BY SleepersKept
<1>16. ASSUME NEW t \in Threads, EndClaim(t) PROVE SleepersHaveAWaker'
  <2> pc'[t] = "notifying"
    BY <1>16 DEF EndClaim
  <2> QED
    BY DEF SleepersHaveAWaker
<1>17. ASSUME NEW t \in Threads, Notify(t) PROVE SleepersHaveAWaker'
  <2> \A u \in Threads : pc'[u] # "waiting"
    BY <1>17 DEF Notify
  <2> QED
    BY DEF SleepersHaveAWaker
<1>18. ASSUME NEW t \in Threads, SpuriousWake(t) PROVE SleepersHaveAWaker'
  <2> WakersKept
    BY <1>18 DEF WakersKept, Claiming, SpuriousWake
  <2> QED
    BY SleepersKept
<1>19. ASSUME NEW t \in Threads, Release(t) PROVE SleepersHaveAWaker'
  <2> WakersKept
    BY <1>19 DEF WakersKept, Claiming, Release, Finish
  <2> QED
    BY SleepersKept
<1>20. ASSUME NEW t \in Threads, IssueToken(t) PROVE SleepersHaveAWaker'
  <2> WakersKept
    BY <1>20 DEF WakersKept, Claiming, IssueToken, Finish
  <2> QED
    BY SleepersKept
<1>21. ASSUME NEW t \in Threads, ResolveToken(t) PROVE SleepersHaveAWaker'
  <2> WakersKept
    BY <1>21 DEF WakersKept, Claiming, ResolveToken
  <2> QED
    BY SleepersKept
<1>22. CASE DropToken
  <2> WakersKept
    BY <1>22 DEF WakersKept, Claiming, DropToken
  <2> QED
    BY SleepersKept
<1>23. ASSUME NEW n \in Caps, StoreCap(n) PROVE SleepersHaveAWaker'
  <2> WakersKept
    BY <1>23 DEF WakersKept, Claiming, StoreCap
  <2> QED
    BY SleepersKept
<1>24. CASE TrimCache
  <2> WakersKept
    BY <1>24 DEF WakersKept, Claiming, TrimCache
  <2> QED
    BY SleepersKept
<1>25. ASSUME NEW b \in BOOLEAN, SetNanOnFailure(b) PROVE SleepersHaveAWaker'
  <2> WakersKept
    BY <1>25 DEF WakersKept, Claiming, SetNanOnFailure
  <2> QED
    BY SleepersKept
<1>26. CASE Clear
  <2> WakersKept
    BY <1>26 DEF WakersKept, Claiming, Clear
  <2> QED
    BY SleepersKept
<1>27. CASE NewPattern
  <2> WakersKept
    BY <1>27 DEF WakersKept, Claiming, NewPattern
  <2> QED
    BY SleepersKept
<1>28. CASE UNCHANGED vars
  <2> WakersKept
    BY <1>28 DEF WakersKept, Claiming, vars
  <2> QED
    BY SleepersKept
<1> QED
  BY <1>1, <1>2, <1>3, <1>4, <1>5, <1>6, <1>7, <1>8, <1>9, <1>10, <1>11,
     <1>12, <1>13, <1>14, <1>15, <1>16, <1>17, <1>18, <1>19, <1>20, <1>21,
     <1>22, <1>23, <1>24, <1>25, <1>26, <1>27, <1>28 DEF Next,
     Environment, Step

\* No wake-up is lost: whoever sleeps on the condition variable, some thread
\* still has the notify_all to make that wakes it.
THEOREM NoLostWakeup == Spec => []SleepersHaveAWaker
<1>1. Init => SleepersHaveAWaker
  BY DEF Init, SleepersHaveAWaker
<1> QED
  BY <1>1, NextSleepers, ControlInductive, PTL DEF Spec

-----------------------------------------------------------------------------
(* FactorCache implements FactorOracle: what a thread is told maps to the  *)
(* oracle's reply, and every step maps to one step of the oracle or to     *)
(* none.                                                                   *)

\* What thread t has been told, as the refinement mapping puts it.
Said(t) ==
  IF pc[t] # "using" THEN [kind |-> "none", of |-> None]
  ELSE [kind |-> answer[t],
        of |-> IF answer[t] = "factor" THEN content[own[t]] ELSE None]

OracleStep == [Oracle!Next]_(Oracle!oracleVars)

\* A step after which every thread has been asked and told what it was before.
NothingSaid ==
  \A u \in Threads :
    /\ arg'[u] = arg[u]
    /\ pc'[u] = "using" <=> pc[u] = "using"
    /\ pc[u] = "using" =>
         /\ answer'[u] = answer[u]
         /\ answer[u] = "factor" => content'[own'[u]] = content[own[u]]

\* A step that tells nobody anything is a stutter of the oracle.
LEMMA Stutters ==
  ASSUME NothingSaid
  PROVE  OracleStep
<1>1. \A u \in Threads : arg'[u] = arg[u] /\ Said(u)' = Said(u)
  BY DEF NothingSaid, Said
<1> QED
  BY <1>1 DEF OracleStep, Oracle!oracleVars, Said

\* The oracle's two functions change at thread t only, to a and r.
Mapped(t, a, r) ==
  /\ [u \in Threads |-> arg[u]]' = [[u \in Threads |-> arg[u]] EXCEPT ![t] = a]
  /\ [u \in Threads |-> Said(u)]' = [[u \in Threads |-> Said(u)] EXCEPT ![t] = r]

\* How a change of one thread reads in the oracle.
LEMMA MapsOne ==
  ASSUME NEW t \in Threads, NEW a, NEW r,
         \A u \in Threads : arg'[u] = IF u = t THEN a ELSE arg[u],
         Said(t)' = r,
         \A u \in Threads \ {t} : Said(u)' = Said(u)
  PROVE  Mapped(t, a, r)
  BY DEF Mapped

\* One thread is told something its request allows.
LEMMA Replies ==
  ASSUME NEW t \in Threads, arg[t] \in Values, arg' = arg,
         Said(t) = Oracle!NoReply,
         \A u \in Threads \ {t} : Said(u)' = Said(u),
         \/ Said(t)' = Oracle!ErrorReply
         \/ arg[t] \in Unfactorable /\ Said(t)' = Oracle!NaNReply
         \/ arg[t] \notin Unfactorable /\ Said(t)' = Oracle!FactorOf(arg[t])
  PROVE  Oracle!Reply(t)
<1>1. arg[t] # None
  BY CacheAssumption
<1>2. PICK r : /\ r = Said(t)'
               /\ r \in {Oracle!ErrorReply} \cup
                     (IF arg[t] \in Unfactorable THEN {Oracle!NaNReply}
                      ELSE {Oracle!FactorOf(arg[t])})
  OBVIOUS
<1>3. [u \in Threads |-> Said(u)]' = [[u \in Threads |-> Said(u)] EXCEPT ![t] = r]
  BY <1>2
<1> QED
  BY <1>1, <1>2, <1>3 DEF Oracle!Reply, Said, Oracle!NoReply

\* The cache begins as the oracle does.
LEMMA InitOracle == Init => Oracle!Init
  BY DEF Init, Oracle!Init, Oracle!NoReply

\* Every step is one of the oracle's or none.
LEMMA NextOracle ==
  ControlInv /\ StorageInv /\ [Next]_vars => OracleStep
<1> SUFFICES ASSUME ControlInv, StorageInv, [Next]_vars
             PROVE  OracleStep
  OBVIOUS
<1> /\ TypeOK /\ StagesInv
    /\ pc \in [Threads -> Stages]
    /\ arg \in [Threads -> Values \cup {None}]
    /\ own \in [Threads -> Storage \cup {None}]
    /\ answer \in [Threads -> {"none", "factor", "nan", "error"}]
    /\ tokens \subseteq Token
    /\ content \in [Storage -> Values \cup {None}]
    /\ None \notin Storage
  BY CacheAssumption DEF ControlInv, TypeOK
<1> USE DEF Stages, settings, threadVars, OracleStep
<1>1. ASSUME NEW t \in Threads, NEW v \in Values, Call(t, v) PROVE OracleStep
  <2>1. /\ arg[t] = None
        /\ \A u \in Threads : arg'[u] = IF u = t THEN v ELSE arg[u]
        /\ \A u \in Threads : Said(u)' = Said(u)
    BY <1>1 DEF Call, StagesInv, StageShape, Said
  <2> Oracle!Ask(t, v)
    BY <2>1 DEF Oracle!Ask, Said
  <2> QED
    BY DEF Oracle!Next
<1>2. ASSUME NEW t \in Threads, Hit(t) PROVE OracleStep
  <2>1. PICK i \in DOMAIN cache :
          Matches(i, arg[t]) /\ own' = [own EXCEPT ![t] = cache[i].num]
    BY <1>2 DEF Hit
  <2>2. IsFactorOf(cache[i].num, arg[t])
    BY <2>1, SlotsTyped DEF Matches, StorageInv, SlotsInv
  <2>3. /\ arg[t] \in Values \ Unfactorable
        /\ arg' = arg
        /\ Said(t) = Oracle!NoReply
        /\ Said(t)' = Oracle!FactorOf(arg[t])
        /\ \A u \in Threads \ {t} : Said(u)' = Said(u)
    BY <1>2, <2>1, <2>2 DEF Hit, Said, IsFactorOf, Oracle!NoReply, Oracle!FactorOf
  <2> Oracle!Reply(t)
    BY <2>3, Replies
  <2> QED
    BY DEF Oracle!Next
<1>3. ASSUME NEW t \in Threads, Wait(t) PROVE OracleStep
  <2> NothingSaid
    BY <1>3 DEF NothingSaid, Wait
  <2> QED
    BY Stutters
<1>4. ASSUME NEW t \in Threads, Claim(t) PROVE OracleStep
  <2>1. \A u \in Threads \ {t} : own'[u] = own[u]
    BY <1>4, ClaimEffect
  <2> NothingSaid
    BY <1>4, <2>1 DEF NothingSaid, Claim
  <2> QED
    BY Stutters
<1>5. ASSUME NEW t \in Threads, RejectValues(t) PROVE OracleStep
  <2> NothingSaid
    BY <1>5 DEF NothingSaid, RejectValues, GiveUp, FailureAnswer
  <2> QED
    BY Stutters
<1>6. ASSUME NEW t \in Threads, RejectRecycled(t) PROVE OracleStep
  <2>1. Building(t)
    BY <1>6 DEF RejectRecycled, Building, StagesInv, StageShape
  <2>2. \A u \in Threads \ {t} : own[u] # own[t]
    BY <2>1 DEF StorageInv, BuildersInv
  <2> NothingSaid
    BY <1>6, <2>1, <2>2 DEF NothingSaid, Building, RejectRecycled
  <2> QED
    BY Stutters
<1>7. ASSUME NEW t \in Threads, Begin(t) PROVE OracleStep
  <2>1. PICK s \in (IF own[t] # None THEN {own[t]} ELSE Storage \ Reachable) :
          /\ own' = [own EXCEPT ![t] = s]
          /\ content' = [content EXCEPT ![s] = None]
    BY <1>7 DEF Begin
  <2>2. \A u \in Threads \ {t} : own[u] # s
    <3>1. CASE own[t] # None
      <4>1. Building(t) /\ s = own[t]
        BY <1>7, <2>1, <3>1 DEF Begin, Building
      <4> QED
        BY <4>1 DEF StorageInv, BuildersInv
    <3>2. CASE own[t] = None
      BY <2>1, <3>2 DEF Reachable
    <3> QED
      BY <3>1, <3>2
  <2> NothingSaid
    BY <1>7, <2>1, <2>2 DEF NothingSaid, Begin
  <2> QED
    BY Stutters
<1>8. ASSUME NEW t \in Threads, AllocationFails(t) PROVE OracleStep
  <2> NothingSaid
    BY <1>8 DEF NothingSaid, AllocationFails, GiveUp
  <2> QED
    BY Stutters
<1>9. ASSUME NEW t \in Threads, Factored(t) PROVE OracleStep
  <2>1. Building(t)
    BY <1>9 DEF Factored, Building, StagesInv, StageShape
  <2>2. \A u \in Threads \ {t} : own[u] # own[t]
    BY <2>1 DEF StorageInv, BuildersInv
  <2> NothingSaid
    BY <1>9, <2>1, <2>2 DEF NothingSaid, Building, Factored
  <2> QED
    BY Stutters
<1>10. ASSUME NEW t \in Threads, FactorizationFails(t) PROVE OracleStep
  <2> NothingSaid
    BY <1>10 DEF NothingSaid, FactorizationFails, GiveUp, FailureAnswer
  <2> QED
    BY Stutters
<1>11. ASSUME NEW t \in Threads, LibraryError(t) PROVE OracleStep
  <2> NothingSaid
    BY <1>11 DEF NothingSaid, LibraryError, GiveUp
  <2> QED
    BY Stutters
<1>12. ASSUME NEW t \in Threads, ThrowsHoldingRaw(t) PROVE OracleStep
  <2> NothingSaid
    BY <1>12 DEF NothingSaid, ThrowsHoldingRaw, GiveUp
  <2> QED
    BY Stutters
<1>13. ASSUME NEW t \in Threads, ReadCap(t) PROVE OracleStep
  <2> NothingSaid
    BY <1>13 DEF NothingSaid, ReadCap
  <2> QED
    BY Stutters
<1>14. ASSUME NEW t \in Threads, Insert(t) PROVE OracleStep
  <2> NothingSaid
    BY <1>14 DEF NothingSaid, Insert
  <2> QED
    BY Stutters
<1>15. ASSUME NEW t \in Threads, InsertThrows(t) PROVE OracleStep
  <2> NothingSaid
    BY <1>15 DEF NothingSaid, InsertThrows, GiveUp
  <2> QED
    BY Stutters
<1>16. ASSUME NEW t \in Threads, EndClaim(t) PROVE OracleStep
  <2> NothingSaid
    BY <1>16 DEF NothingSaid, EndClaim
  <2> QED
    BY Stutters
<1>17. ASSUME NEW t \in Threads, Notify(t) PROVE OracleStep
  <2>1. /\ arg' = arg
        /\ Said(t) = Oracle!NoReply
        /\ \A u \in Threads \ {t} : Said(u)' = Said(u)
        /\ Said(t)' = [kind |-> answer[t],
                       of |-> IF answer[t] = "factor" THEN content[own[t]] ELSE None]
    BY <1>17 DEF Notify, Said, Oracle!NoReply
  <2>2. arg[t] \in Values
    BY <1>17 DEF Notify, StagesInv, StageShape
  <2>3. CASE answer[t] = "factor"
    <3>1. IsFactorOf(own[t], arg[t])
      BY <1>17, <2>3 DEF Notify, StagesInv, StageShape, StorageInv, HoldersInv,
                       Holding
    <3>2. arg[t] \notin Unfactorable /\ Said(t)' = Oracle!FactorOf(arg[t])
      BY <2>1, <2>3, <3>1 DEF IsFactorOf, Oracle!FactorOf
    <3> Oracle!Reply(t)
      BY <2>1, <2>2, <3>2, Replies
    <3> QED
      BY DEF Oracle!Next
  <2>4. CASE answer[t] = "nan"
    <3>1. arg[t] \in Unfactorable
      BY <1>17, <2>4 DEF Notify, StagesInv, StageShape
    <3>2. Said(t)' = Oracle!NaNReply
      BY <2>1, <2>4 DEF Oracle!NaNReply
    <3> Oracle!Reply(t)
      BY <2>1, <2>2, <3>1, <3>2, Replies
    <3> QED
      BY DEF Oracle!Next
  <2>5. CASE answer[t] = "error"
    <3>1. Said(t)' = Oracle!ErrorReply
      BY <2>1, <2>5 DEF Oracle!ErrorReply
    <3> Oracle!Reply(t)
      BY <2>1, <2>2, <3>1, Replies
    <3> QED
      BY DEF Oracle!Next
  <2>6. answer[t] \in {"factor", "nan", "error"}
    BY <1>17 DEF Notify, StagesInv, StageShape
  <2> QED
    BY <2>3, <2>4, <2>5, <2>6
<1>18. ASSUME NEW t \in Threads, SpuriousWake(t) PROVE OracleStep
  <2> NothingSaid
    BY <1>18 DEF NothingSaid, SpuriousWake
  <2> QED
    BY Stutters
<1>19. ASSUME NEW t \in Threads, Release(t) PROVE OracleStep
  <2>1. /\ Said(t) # Oracle!NoReply
        /\ Said(t)' = Oracle!NoReply
        /\ \A u \in Threads : arg'[u] = IF u = t THEN None ELSE arg[u]
        /\ \A u \in Threads \ {t} : Said(u)' = Said(u)
    BY <1>19 DEF Release, Finish, StagesInv, StageShape, Said, Oracle!NoReply
  <2>2. Mapped(t, None, Oracle!NoReply)
    BY <2>1, MapsOne
  <2> Oracle!Done(t)
    BY <2>1, <2>2 DEF Oracle!Done, Mapped, Said, Oracle!NoReply
  <2> QED
    BY DEF Oracle!Next
<1>20. ASSUME NEW t \in Threads, IssueToken(t) PROVE OracleStep
  <2>1. /\ Said(t) # Oracle!NoReply
        /\ Said(t)' = Oracle!NoReply
        /\ \A u \in Threads : arg'[u] = IF u = t THEN None ELSE arg[u]
        /\ \A u \in Threads \ {t} : Said(u)' = Said(u)
    BY <1>20 DEF IssueToken, Finish, StagesInv, StageShape, Said, Oracle!NoReply
  <2>2. Mapped(t, None, Oracle!NoReply)
    BY <2>1, MapsOne
  <2> Oracle!Done(t)
    BY <2>1, <2>2 DEF Oracle!Done, Mapped, Said, Oracle!NoReply
  <2> QED
    BY DEF Oracle!Next
<1>21. ASSUME NEW t \in Threads, ResolveToken(t) PROVE OracleStep
  <2>1. PICK k \in tokens : /\ arg' = [arg EXCEPT ![t] = k.ax]
                            /\ own' = [own EXCEPT ![t] = k.num]
    BY <1>21 DEF ResolveToken
  <2>2. IsFactorOf(k.num, k.ax)
    BY <2>1 DEF StorageInv, TokensInv
  <2>3. /\ arg[t] = None
        /\ k.ax \in Values \ Unfactorable
        /\ \A u \in Threads : arg'[u] = IF u = t THEN k.ax ELSE arg[u]
        /\ Said(t)' = Oracle!FactorOf(k.ax)
        /\ \A u \in Threads \ {t} : Said(u)' = Said(u)
    BY <1>21, <2>1, <2>2
    DEF ResolveToken, StagesInv, StageShape, Said, IsFactorOf, Oracle!FactorOf
  <2>4. Mapped(t, k.ax, Oracle!FactorOf(k.ax))
    BY <2>3, MapsOne
  <2> Oracle!Recall(t, k.ax)
    BY <2>3, <2>4 DEF Oracle!Recall, Mapped, Said, Oracle!FactorOf
  <2> QED
    BY <2>3 DEF Oracle!Next
<1>22. CASE DropToken
  <2> NothingSaid
    BY <1>22 DEF NothingSaid, DropToken
  <2> QED
    BY Stutters
<1>23. ASSUME NEW n \in Caps, StoreCap(n) PROVE OracleStep
  <2> NothingSaid
    BY <1>23 DEF NothingSaid, StoreCap
  <2> QED
    BY Stutters
<1>24. CASE TrimCache
  <2> NothingSaid
    BY <1>24 DEF NothingSaid, TrimCache
  <2> QED
    BY Stutters
<1>25. ASSUME NEW b \in BOOLEAN, SetNanOnFailure(b) PROVE OracleStep
  <2> NothingSaid
    BY <1>25 DEF NothingSaid, SetNanOnFailure
  <2> QED
    BY Stutters
<1>26. CASE Clear
  <2> NothingSaid
    BY <1>26 DEF NothingSaid, Clear
  <2> QED
    BY Stutters
<1>27. CASE NewPattern
  <2> NothingSaid
    BY <1>27 DEF NothingSaid, NewPattern
  <2> QED
    BY Stutters
<1>28. CASE UNCHANGED vars
  <2> NothingSaid
    BY <1>28 DEF NothingSaid, vars
  <2> QED
    BY Stutters
<1> QED
  BY <1>1, <1>2, <1>3, <1>4, <1>5, <1>6, <1>7, <1>8, <1>9, <1>10, <1>11,
     <1>12, <1>13, <1>14, <1>15, <1>16, <1>17, <1>18, <1>19, <1>20, <1>21,
     <1>22, <1>23, <1>24, <1>25, <1>26, <1>27, <1>28 DEF Next,
     Environment, Step

\* With the cache, the recycling, the waiting and the tokens, a caller cannot
\* tell the program from one that factors every matrix afresh.
THEOREM CacheImplementsOracle == Spec => ImplementsOracle
<1>1. ControlInv /\ StorageInv /\ [Next]_vars => [Oracle!Next]_(Oracle!oracleVars)
  BY NextOracle DEF OracleStep
<1> QED
  BY InitOracle, <1>1, ControlInductive, StorageInductive, PTL
  DEF Spec, ImplementsOracle, Oracle!Spec
=============================================================================
