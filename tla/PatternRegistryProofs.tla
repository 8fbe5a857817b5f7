------------------------ MODULE PatternRegistryProofs ------------------------
(***************************************************************************)
(* What TLAPS proves of PatternRegistry, for any threads, programs,        *)
(* structures, hash and settings, and any number of clears.                *)
(***************************************************************************)
EXTENDS PatternRegistry, TLAPS

\* Every pattern somebody has hold of, those being compared included and the
\* one that is being made not.
Known(p) ==
  \/ p \in registry
  \/ p # None /\ \E t \in Threads :
       p = last[t].pat \/ p \in candidates[t] \/ (pc[t] = "found" /\ p = found[t])

\* The mutex is held by the one thread that creates or program that clears.
Locks ==
  /\ \A t \in Threads : pc[t] = "creating" <=> lock = t
  /\ \A q \in Programs : task[q] = "bump" <=> lock = q

\* Known patterns are of this generation or an older one; those of this one are
\* in the registry, or about to be outdated.
Births ==
  /\ \A p : Known(p) => p \in Pattern /\ p.born <= generation
  /\ \A p \in registry : p.born = generation
  /\ \A q \in Programs : task[q] = "bump" => registry = {}
  /\ (\A q \in Programs : task[q] # "bump") =>
       \A p : Known(p) /\ p.born = generation => p \in registry

\* What a thread remembers was current in the generation it noted.
Memory ==
  \A t \in Threads :
    /\ last[t].gen <= generation
    /\ IF last[t].pat = None
       THEN last[t].gen = 0
       ELSE last[t].pat.born >= last[t].gen

\* A call compares and answers with patterns no older than the generation it
\* read, which is no older than the one it began in.
Calls ==
  \A t \in Threads :
    /\ since[t] <= generation /\ gen[t] <= generation
    /\ pc[t] # "idle" => asks[t] \in Structures
    /\ pc[t] \in {"hashed", "looked", "creating", "found"} => since[t] <= gen[t]
    /\ pc[t] \notin {"looked", "creating"} => candidates[t] = {}
    /\ pc[t] \notin {"found", "creating"} => found[t] = None
    /\ \A p \in candidates[t] : p.born >= gen[t]
    /\ pc[t] \in {"found", "creating"} =>
         found[t] # None /\ found[t].structure = asks[t] /\ found[t].born >= gen[t]
    /\ pc[t] = "creating" =>
         /\ found[t].born = generation
         /\ \A p \in registry : p.structure # asks[t]

\* Patterns of this generation have the setting in force, or somebody who
\* changed it has yet to clear them away.
Settled ==
  \/ \E q \in Programs : task[q] \in {"clear", "bump"}
  \/ /\ \A p : Known(p) /\ p.born = generation => p.option = option
     /\ \A t \in Threads : pc[t] = "creating" => found[t].option = option

Unique ==
  \A p, q : Known(p) /\ Known(q) /\ p.structure = q.structure /\ p.born = q.born
    => p = q

RegistryInv ==
  TypeOK /\ Locks /\ Births /\ Memory /\ Calls /\ Settled /\ Unique

-----------------------------------------------------------------------------
\* An empty registry, and threads that remember nothing.
LEMMA InitRegistry == Init => RegistryInv
  BY RegistryAssumption DEF Init, RegistryInv, TypeOK, Locks, Births, Memory, Calls,
     Settled, Unique, Known, NoMemory

\* Every step keeps the types.
LEMMA NextType == RegistryInv /\ [Next]_vars => TypeOK'
<1> SUFFICES ASSUME RegistryInv, [Next]_vars PROVE TypeOK'
  OBVIOUS
<1>a. TypeOK /\ Locks /\ Births /\ Memory /\ Calls /\ Settled /\ Unique
  BY DEF RegistryInv
<1>1. ASSUME NEW t \in Threads, NEW s \in Structures, Ask(t, s)
      PROVE  TypeOK'
  BY <1>a, <1>1 DEF Ask, registryVars, callVars, TypeOK
<1>2. ASSUME NEW t \in Threads, Recall(t)
      PROVE  TypeOK'
  BY <1>a, <1>2 DEF Recall, IsRemembered, Matches, registryVars, callVars, TypeOK
<1>3. ASSUME NEW t \in Threads, Forgotten(t)
      PROVE  TypeOK'
  BY <1>a, <1>3 DEF Forgotten, IsRemembered, registryVars, callVars, TypeOK
<1>4. ASSUME NEW t \in Threads, LookUp(t)
      PROVE  TypeOK'
  BY <1>a, <1>4 DEF LookUp, Chain, registryVars, callVars, TypeOK
<1>5. ASSUME NEW t \in Threads, FindCandidate(t)
      PROVE  TypeOK'
  BY <1>a, <1>5 DEF FindCandidate, Matches, Take, Remember, registryVars, callVars, TypeOK
<1>6. ASSUME NEW t \in Threads, FindUnderLock(t)
      PROVE  TypeOK'
  BY <1>a, <1>6 DEF FindUnderLock, Chain, Matches, Take, Remember, registryVars, callVars, TypeOK
<1>7. ASSUME NEW t \in Threads, BeginCreate(t)
      PROVE  TypeOK'
  BY <1>a, <1>7, RegistryAssumption DEF BeginCreate, NoneMatches, Chain, Matches, registryVars, callVars, TypeOK, Calls, Pattern
<1>8. ASSUME NEW t \in Threads, Register(t)
      PROVE  TypeOK'
  BY <1>a, <1>8, RegistryAssumption DEF Register, Take, Remember, registryVars, callVars, TypeOK, Calls
<1>9. ASSUME NEW t \in Threads, CreateFails(t)
      PROVE  TypeOK'
  BY <1>a, <1>9 DEF CreateFails, registryVars, callVars, TypeOK
<1>10. ASSUME NEW t \in Threads, Return(t)
      PROVE  TypeOK'
  BY <1>a, <1>10 DEF Return, registryVars, callVars, TypeOK
<1>11. ASSUME NEW q \in Programs, NEW v \in Options, StoreOption(q, v)
      PROVE  TypeOK'
  BY <1>a, <1>11 DEF StoreOption, registryVars, callVars, TypeOK
<1>12. ASSUME NEW q \in Programs, AskToClear(q)
      PROVE  TypeOK'
  BY <1>a, <1>12 DEF AskToClear, registryVars, callVars, TypeOK
<1>13. ASSUME NEW q \in Programs, DropPatterns(q)
      PROVE  TypeOK'
  BY <1>a, <1>13 DEF DropPatterns, registryVars, callVars, TypeOK
<1>14. ASSUME NEW q \in Programs, BumpGeneration(q)
      PROVE  TypeOK'
  BY <1>a, <1>14 DEF BumpGeneration, registryVars, callVars, TypeOK
<1>15. CASE UNCHANGED vars
  BY <1>a, <1>15 DEF vars, registryVars, callVars, TypeOK
<1> QED
  BY <1>1, <1>2, <1>3, <1>4, <1>5, <1>6, <1>7, <1>8, <1>9, <1>10, <1>11,
     <1>12, <1>13, <1>14, <1>15 DEF Next, Step, Settings

\* Every step hands the mutex on properly.
LEMMA NextLocks == RegistryInv /\ [Next]_vars => Locks'
<1> SUFFICES ASSUME RegistryInv, [Next]_vars PROVE Locks'
  OBVIOUS
<1>a. TypeOK /\ Locks /\ Births /\ Memory /\ Calls /\ Settled /\ Unique
  BY DEF RegistryInv
<1>1. ASSUME NEW t \in Threads, NEW s \in Structures, Ask(t, s)
      PROVE  Locks'
  BY <1>a, <1>1, RegistryAssumption DEF Ask, registryVars, callVars, TypeOK, Locks
<1>2. ASSUME NEW t \in Threads, Recall(t)
      PROVE  Locks'
  BY <1>a, <1>2, RegistryAssumption DEF Recall, IsRemembered, Matches, registryVars, callVars, TypeOK, Locks
<1>3. ASSUME NEW t \in Threads, Forgotten(t)
      PROVE  Locks'
  BY <1>a, <1>3, RegistryAssumption DEF Forgotten, IsRemembered, registryVars, callVars, TypeOK, Locks
<1>4. ASSUME NEW t \in Threads, LookUp(t)
      PROVE  Locks'
  BY <1>a, <1>4, RegistryAssumption DEF LookUp, Chain, registryVars, callVars, TypeOK, Locks
<1>5. ASSUME NEW t \in Threads, FindCandidate(t)
      PROVE  Locks'
  BY <1>a, <1>5, RegistryAssumption DEF FindCandidate, Matches, Take, Remember, registryVars, callVars, TypeOK, Locks
<1>6. ASSUME NEW t \in Threads, FindUnderLock(t)
      PROVE  Locks'
  BY <1>a, <1>6, RegistryAssumption DEF FindUnderLock, Chain, Matches, Take, Remember, registryVars, callVars, TypeOK, Locks
<1>7. ASSUME NEW t \in Threads, BeginCreate(t)
      PROVE  Locks'
  BY <1>a, <1>7, RegistryAssumption DEF BeginCreate, NoneMatches, Chain, Matches, registryVars, callVars, TypeOK, Locks
<1>8. ASSUME NEW t \in Threads, Register(t)
      PROVE  Locks'
  BY <1>a, <1>8, RegistryAssumption DEF Register, Take, Remember, registryVars, callVars, TypeOK, Locks
<1>9. ASSUME NEW t \in Threads, CreateFails(t)
      PROVE  Locks'
  BY <1>a, <1>9, RegistryAssumption DEF CreateFails, registryVars, callVars, TypeOK, Locks
<1>10. ASSUME NEW t \in Threads, Return(t)
      PROVE  Locks'
  BY <1>a, <1>10, RegistryAssumption DEF Return, registryVars, callVars, TypeOK, Locks
<1>11. ASSUME NEW q \in Programs, NEW v \in Options, StoreOption(q, v)
      PROVE  Locks'
  BY <1>a, <1>11, RegistryAssumption DEF StoreOption, registryVars, callVars, TypeOK, Locks
<1>12. ASSUME NEW q \in Programs, AskToClear(q)
      PROVE  Locks'
  BY <1>a, <1>12, RegistryAssumption DEF AskToClear, registryVars, callVars, TypeOK, Locks
<1>13. ASSUME NEW q \in Programs, DropPatterns(q)
      PROVE  Locks'
  BY <1>a, <1>13, RegistryAssumption DEF DropPatterns, registryVars, callVars, TypeOK, Locks
<1>14. ASSUME NEW q \in Programs, BumpGeneration(q)
      PROVE  Locks'
  BY <1>a, <1>14, RegistryAssumption DEF BumpGeneration, registryVars, callVars, TypeOK, Locks
<1>15. CASE UNCHANGED vars
  BY <1>a, <1>15, RegistryAssumption DEF vars, registryVars, callVars, TypeOK, Locks
<1> QED
  BY <1>1, <1>2, <1>3, <1>4, <1>5, <1>6, <1>7, <1>8, <1>9, <1>10, <1>11,
     <1>12, <1>13, <1>14, <1>15 DEF Next, Step, Settings

\* Every step keeps what threads remember.
LEMMA NextMemory == RegistryInv /\ [Next]_vars => Memory'
<1> SUFFICES ASSUME RegistryInv, [Next]_vars PROVE Memory'
  OBVIOUS
<1>a. TypeOK /\ Locks /\ Births /\ Memory /\ Calls /\ Settled /\ Unique
  BY DEF RegistryInv
<1>1. ASSUME NEW t \in Threads, NEW s \in Structures, Ask(t, s)
      PROVE  Memory'
  BY <1>a, <1>1, RegistryAssumption DEF Ask, registryVars, callVars, TypeOK, Memory, Calls, Births
<1>2. ASSUME NEW t \in Threads, Recall(t)
      PROVE  Memory'
  BY <1>a, <1>2, RegistryAssumption DEF Recall, IsRemembered, Matches, registryVars, callVars, TypeOK, Memory, Calls, Births
<1>3. ASSUME NEW t \in Threads, Forgotten(t)
      PROVE  Memory'
  BY <1>a, <1>3, RegistryAssumption DEF Forgotten, IsRemembered, registryVars, callVars, TypeOK, Memory, Calls, Births
<1>4. ASSUME NEW t \in Threads, LookUp(t)
      PROVE  Memory'
  BY <1>a, <1>4, RegistryAssumption DEF LookUp, Chain, registryVars, callVars, TypeOK, Memory, Calls, Births
<1>5. ASSUME NEW t \in Threads, FindCandidate(t)
      PROVE  Memory'
  BY <1>a, <1>5, RegistryAssumption DEF FindCandidate, Matches, Take, Remember, registryVars, callVars, TypeOK, Memory, Calls, Births
<1>6. ASSUME NEW t \in Threads, FindUnderLock(t)
      PROVE  Memory'
  BY <1>a, <1>6, RegistryAssumption DEF FindUnderLock, Chain, Matches, Take, Remember, registryVars, callVars, TypeOK, Memory, Calls, Births
<1>7. ASSUME NEW t \in Threads, BeginCreate(t)
      PROVE  Memory'
  BY <1>a, <1>7, RegistryAssumption DEF BeginCreate, NoneMatches, Chain, Matches, registryVars, callVars, TypeOK, Memory, Calls, Births
<1>8. ASSUME NEW t \in Threads, Register(t)
      PROVE  Memory'
  BY <1>a, <1>8, RegistryAssumption DEF Register, Take, Remember, registryVars, callVars, TypeOK, Memory, Calls, Births
<1>9. ASSUME NEW t \in Threads, CreateFails(t)
      PROVE  Memory'
  BY <1>a, <1>9, RegistryAssumption DEF CreateFails, registryVars, callVars, TypeOK, Memory, Calls, Births
<1>10. ASSUME NEW t \in Threads, Return(t)
      PROVE  Memory'
  BY <1>a, <1>10, RegistryAssumption DEF Return, registryVars, callVars, TypeOK, Memory, Calls, Births
<1>11. ASSUME NEW q \in Programs, NEW v \in Options, StoreOption(q, v)
      PROVE  Memory'
  BY <1>a, <1>11, RegistryAssumption DEF StoreOption, registryVars, callVars, TypeOK, Memory, Calls, Births
<1>12. ASSUME NEW q \in Programs, AskToClear(q)
      PROVE  Memory'
  BY <1>a, <1>12, RegistryAssumption DEF AskToClear, registryVars, callVars, TypeOK, Memory, Calls, Births
<1>13. ASSUME NEW q \in Programs, DropPatterns(q)
      PROVE  Memory'
  BY <1>a, <1>13, RegistryAssumption DEF DropPatterns, registryVars, callVars, TypeOK, Memory, Calls, Births
<1>14. ASSUME NEW q \in Programs, BumpGeneration(q)
      PROVE  Memory'
  BY <1>a, <1>14, RegistryAssumption DEF BumpGeneration, registryVars, callVars, TypeOK, Memory, Calls, Births
<1>15. CASE UNCHANGED vars
  BY <1>a, <1>15, RegistryAssumption DEF vars, registryVars, callVars, TypeOK, Memory, Calls, Births
<1> QED
  BY <1>1, <1>2, <1>3, <1>4, <1>5, <1>6, <1>7, <1>8, <1>9, <1>10, <1>11,
     <1>12, <1>13, <1>14, <1>15 DEF Next, Step, Settings

\* Every step keeps what calls compare and answer with.
LEMMA NextCalls == RegistryInv /\ [Next]_vars => Calls'
<1> SUFFICES ASSUME RegistryInv, [Next]_vars PROVE Calls'
  OBVIOUS
<1>a. TypeOK /\ Locks /\ Births /\ Memory /\ Calls /\ Settled /\ Unique
  BY DEF RegistryInv
<1>1. ASSUME NEW t \in Threads, NEW s \in Structures, Ask(t, s)
      PROVE  Calls'
  BY <1>a, <1>1, RegistryAssumption DEF Ask, registryVars, callVars, TypeOK, Memory, Calls, Births, Locks, Pattern
<1>2. ASSUME NEW t \in Threads, Recall(t)
      PROVE  Calls'
  BY <1>a, <1>2, RegistryAssumption DEF Recall, IsRemembered, Matches, registryVars, callVars, TypeOK, Memory, Calls, Births, Locks, Pattern
<1>3. ASSUME NEW t \in Threads, Forgotten(t)
      PROVE  Calls'
  BY <1>a, <1>3, RegistryAssumption DEF Forgotten, IsRemembered, registryVars, callVars, TypeOK, Memory, Calls, Births, Locks, Pattern
<1>4. ASSUME NEW t \in Threads, LookUp(t)
      PROVE  Calls'
  BY <1>a, <1>4, RegistryAssumption DEF LookUp, Chain, registryVars, callVars, TypeOK, Memory, Calls, Births, Locks, Pattern
<1>5. ASSUME NEW t \in Threads, FindCandidate(t)
      PROVE  Calls'
  BY <1>a, <1>5, RegistryAssumption DEF FindCandidate, Matches, Take, Remember, registryVars, callVars, TypeOK, Memory, Calls, Births, Locks, Pattern
<1>6. ASSUME NEW t \in Threads, FindUnderLock(t)
      PROVE  Calls'
  BY <1>a, <1>6, RegistryAssumption DEF FindUnderLock, Chain, Matches, Take, Remember, registryVars, callVars, TypeOK, Memory, Calls, Births, Locks, Pattern
<1>7. ASSUME NEW t \in Threads, BeginCreate(t)
      PROVE  Calls'
  BY <1>a, <1>7, RegistryAssumption DEF BeginCreate, NoneMatches, Chain, Matches, registryVars, callVars, TypeOK, Memory, Calls, Births, Locks, Pattern
<1>8. ASSUME NEW t \in Threads, Register(t)
      PROVE  Calls'
  BY <1>a, <1>8, RegistryAssumption DEF Register, Take, Remember, registryVars, callVars, TypeOK, Memory, Calls, Births, Locks, Pattern
<1>9. ASSUME NEW t \in Threads, CreateFails(t)
      PROVE  Calls'
  BY <1>a, <1>9, RegistryAssumption DEF CreateFails, registryVars, callVars, TypeOK, Memory, Calls, Births, Locks, Pattern
<1>10. ASSUME NEW t \in Threads, Return(t)
      PROVE  Calls'
  BY <1>a, <1>10, RegistryAssumption DEF Return, registryVars, callVars, TypeOK, Memory, Calls, Births, Locks, Pattern
<1>11. ASSUME NEW q \in Programs, NEW v \in Options, StoreOption(q, v)
      PROVE  Calls'
  BY <1>a, <1>11, RegistryAssumption DEF StoreOption, registryVars, callVars, TypeOK, Memory, Calls, Births, Locks, Pattern
<1>12. ASSUME NEW q \in Programs, AskToClear(q)
      PROVE  Calls'
  BY <1>a, <1>12, RegistryAssumption DEF AskToClear, registryVars, callVars, TypeOK, Memory, Calls, Births, Locks, Pattern
<1>13. ASSUME NEW q \in Programs, DropPatterns(q)
      PROVE  Calls'
  BY <1>a, <1>13, RegistryAssumption DEF DropPatterns, registryVars, callVars, TypeOK, Memory, Calls, Births, Locks, Pattern
<1>14. ASSUME NEW q \in Programs, BumpGeneration(q)
      PROVE  Calls'
  BY <1>a, <1>14, RegistryAssumption DEF BumpGeneration, registryVars, callVars, TypeOK, Memory, Calls, Births, Locks, Pattern
<1>15. CASE UNCHANGED vars
  BY <1>a, <1>15, RegistryAssumption DEF vars, registryVars, callVars, TypeOK, Memory, Calls, Births, Locks, Pattern
<1> QED
  BY <1>1, <1>2, <1>3, <1>4, <1>5, <1>6, <1>7, <1>8, <1>9, <1>10, <1>11,
     <1>12, <1>13, <1>14, <1>15 DEF Next, Step, Settings

\* Every step keeps current patterns settled.
LEMMA NextSettled == RegistryInv /\ [Next]_vars => Settled'
<1> SUFFICES ASSUME RegistryInv, [Next]_vars PROVE Settled'
  OBVIOUS
<1>a. TypeOK /\ Locks /\ Births /\ Memory /\ Calls /\ Settled /\ Unique
  BY DEF RegistryInv
<1>1. ASSUME NEW t \in Threads, NEW s \in Structures, Ask(t, s)
      PROVE  Settled'
  <2>1. \A p : Known(p)' => Known(p)
    BY <1>a, <1>1, RegistryAssumption DEF Ask, registryVars, callVars, TypeOK, Calls, Known
  <2> QED
    BY <1>a, <2>1, <1>1, RegistryAssumption DEF Ask, registryVars, callVars, TypeOK, Locks, Settled, Births
<1>2. ASSUME NEW t \in Threads, Recall(t)
      PROVE  Settled'
  <2>1. \A p : Known(p)' => Known(p)
    BY <1>a, <1>2, RegistryAssumption DEF Recall, IsRemembered, Matches, registryVars, callVars, TypeOK, Calls, Known
  <2> QED
    BY <1>a, <2>1, <1>2, RegistryAssumption DEF Recall, IsRemembered, Matches, registryVars, callVars, TypeOK, Locks, Settled, Births
<1>3. ASSUME NEW t \in Threads, Forgotten(t)
      PROVE  Settled'
  <2>1. \A p : Known(p)' => Known(p)
    BY <1>a, <1>3, RegistryAssumption DEF Forgotten, IsRemembered, registryVars, callVars, TypeOK, Calls, Known
  <2> QED
    BY <1>a, <2>1, <1>3, RegistryAssumption DEF Forgotten, IsRemembered, registryVars, callVars, TypeOK, Locks, Settled, Births
<1>4. ASSUME NEW t \in Threads, LookUp(t)
      PROVE  Settled'
  <2>1. \A p : Known(p)' => Known(p)
    BY <1>a, <1>4, RegistryAssumption DEF LookUp, Chain, registryVars, callVars, TypeOK, Calls, Known
  <2> QED
    BY <1>a, <2>1, <1>4, RegistryAssumption DEF LookUp, Chain, registryVars, callVars, TypeOK, Locks, Settled, Births
<1>5. ASSUME NEW t \in Threads, FindCandidate(t)
      PROVE  Settled'
  <2>1. \A p : Known(p)' => Known(p)
    BY <1>a, <1>5, RegistryAssumption DEF FindCandidate, Matches, Take, Remember, registryVars, callVars, TypeOK, Calls, Known
  <2> QED
    BY <1>a, <2>1, <1>5, RegistryAssumption DEF FindCandidate, Matches, Take, Remember, registryVars, callVars, TypeOK, Locks, Settled, Births
<1>6. ASSUME NEW t \in Threads, FindUnderLock(t)
      PROVE  Settled'
  <2>1. \A p : Known(p)' => Known(p)
    BY <1>a, <1>6, RegistryAssumption DEF FindUnderLock, Chain, Matches, Take, Remember, registryVars, callVars, TypeOK, Calls, Known
  <2> QED
    BY <1>a, <2>1, <1>6, RegistryAssumption DEF FindUnderLock, Chain, Matches, Take, Remember, registryVars, callVars, TypeOK, Locks, Settled, Births
<1>7. ASSUME NEW t \in Threads, BeginCreate(t)
      PROVE  Settled'
  <2>1. \A p : Known(p)' => Known(p)
    BY <1>a, <1>7, RegistryAssumption DEF BeginCreate, NoneMatches, Chain, Matches, registryVars, callVars, TypeOK, Calls, Known
  <2> QED
    BY <1>a, <2>1, <1>7, RegistryAssumption DEF BeginCreate, NoneMatches, Chain, Matches, registryVars, callVars, TypeOK, Locks, Settled, Births
<1>8. ASSUME NEW t \in Threads, Register(t)
      PROVE  Settled'
  <2>1. \A p : Known(p)' => Known(p) \/ p = found[t]
    BY <1>a, <1>8, RegistryAssumption DEF Register, Take, Remember, registryVars, callVars, TypeOK, Calls, Known
  <2> QED
    BY <1>a, <2>1, <1>8, RegistryAssumption DEF Register, Take, Remember, TypeOK, Calls, Locks, Settled, Births
<1>9. ASSUME NEW t \in Threads, CreateFails(t)
      PROVE  Settled'
  <2>1. \A p : Known(p)' => Known(p)
    BY <1>a, <1>9, RegistryAssumption DEF CreateFails, registryVars, callVars, TypeOK, Calls, Known
  <2> QED
    BY <1>a, <2>1, <1>9, RegistryAssumption DEF CreateFails, registryVars, callVars, TypeOK, Locks, Settled, Births
<1>10. ASSUME NEW t \in Threads, Return(t)
      PROVE  Settled'
  <2>1. \A p : Known(p)' => Known(p)
    BY <1>a, <1>10, RegistryAssumption DEF Return, registryVars, callVars, TypeOK, Calls, Known
  <2> QED
    BY <1>a, <2>1, <1>10, RegistryAssumption DEF Return, registryVars, callVars, TypeOK, Locks, Settled, Births
<1>11. ASSUME NEW q \in Programs, NEW v \in Options, StoreOption(q, v)
      PROVE  Settled'
  <2>1. \A p : Known(p)' => Known(p)
    BY <1>a, <1>11, RegistryAssumption DEF StoreOption, registryVars, callVars, TypeOK, Calls, Known
  <2> QED
    BY <1>a, <2>1, <1>11, RegistryAssumption DEF StoreOption, registryVars, callVars, TypeOK, Locks, Settled, Births
<1>12. ASSUME NEW q \in Programs, AskToClear(q)
      PROVE  Settled'
  <2>1. \A p : Known(p)' => Known(p)
    BY <1>a, <1>12, RegistryAssumption DEF AskToClear, registryVars, callVars, TypeOK, Calls, Known
  <2> QED
    BY <1>a, <2>1, <1>12, RegistryAssumption DEF AskToClear, registryVars, callVars, TypeOK, Locks, Settled, Births
<1>13. ASSUME NEW q \in Programs, DropPatterns(q)
      PROVE  Settled'
  <2>1. \A p : Known(p)' => Known(p)
    BY <1>a, <1>13, RegistryAssumption DEF DropPatterns, registryVars, callVars, TypeOK, Calls, Known
  <2> QED
    BY <1>a, <2>1, <1>13, RegistryAssumption DEF DropPatterns, registryVars, callVars, TypeOK, Locks, Settled, Births
<1>14. ASSUME NEW q \in Programs, BumpGeneration(q)
      PROVE  Settled'
  <2>1. \A p : Known(p)' => Known(p)
    BY <1>a, <1>14, RegistryAssumption DEF BumpGeneration, registryVars, callVars, TypeOK, Calls, Known
  <2> QED
    BY <1>a, <2>1, <1>14, RegistryAssumption DEF BumpGeneration, registryVars, callVars, TypeOK, Locks, Settled, Births
<1>15. CASE UNCHANGED vars
  <2>1. \A p : Known(p)' => Known(p)
    BY <1>a, <1>15, RegistryAssumption DEF vars, registryVars, callVars, TypeOK, Calls, Known
  <2> QED
    BY <1>a, <2>1, <1>15, RegistryAssumption DEF vars, registryVars, callVars, TypeOK, Locks, Settled, Births
<1> QED
  BY <1>1, <1>2, <1>3, <1>4, <1>5, <1>6, <1>7, <1>8, <1>9, <1>10, <1>11,
     <1>12, <1>13, <1>14, <1>15 DEF Next, Step, Settings

\* Every step keeps patterns apart.
LEMMA NextUnique == RegistryInv /\ [Next]_vars => Unique'
<1> SUFFICES ASSUME RegistryInv, [Next]_vars PROVE Unique'
  OBVIOUS
<1>a. TypeOK /\ Locks /\ Births /\ Memory /\ Calls /\ Settled /\ Unique
  BY DEF RegistryInv
<1>1. ASSUME NEW t \in Threads, NEW s \in Structures, Ask(t, s)
      PROVE  Unique'
  <2>1. \A p : Known(p)' => Known(p)
    BY <1>a, <1>1, RegistryAssumption DEF Ask, registryVars, callVars, TypeOK, Calls, Known
  <2> QED
    BY <1>a, <2>1, <1>1, RegistryAssumption DEF Ask, registryVars, callVars, TypeOK, Locks, Unique, Births
<1>2. ASSUME NEW t \in Threads, Recall(t)
      PROVE  Unique'
  <2>1. \A p : Known(p)' => Known(p)
    BY <1>a, <1>2, RegistryAssumption DEF Recall, IsRemembered, Matches, registryVars, callVars, TypeOK, Calls, Known
  <2> QED
    BY <1>a, <2>1, <1>2, RegistryAssumption DEF Recall, IsRemembered, Matches, registryVars, callVars, TypeOK, Locks, Unique, Births
<1>3. ASSUME NEW t \in Threads, Forgotten(t)
      PROVE  Unique'
  <2>1. \A p : Known(p)' => Known(p)
    BY <1>a, <1>3, RegistryAssumption DEF Forgotten, IsRemembered, registryVars, callVars, TypeOK, Calls, Known
  <2> QED
    BY <1>a, <2>1, <1>3, RegistryAssumption DEF Forgotten, IsRemembered, registryVars, callVars, TypeOK, Locks, Unique, Births
<1>4. ASSUME NEW t \in Threads, LookUp(t)
      PROVE  Unique'
  <2>1. \A p : Known(p)' => Known(p)
    BY <1>a, <1>4, RegistryAssumption DEF LookUp, Chain, registryVars, callVars, TypeOK, Calls, Known
  <2> QED
    BY <1>a, <2>1, <1>4, RegistryAssumption DEF LookUp, Chain, registryVars, callVars, TypeOK, Locks, Unique, Births
<1>5. ASSUME NEW t \in Threads, FindCandidate(t)
      PROVE  Unique'
  <2>1. \A p : Known(p)' => Known(p)
    BY <1>a, <1>5, RegistryAssumption DEF FindCandidate, Matches, Take, Remember, registryVars, callVars, TypeOK, Calls, Known
  <2> QED
    BY <1>a, <2>1, <1>5, RegistryAssumption DEF FindCandidate, Matches, Take, Remember, registryVars, callVars, TypeOK, Locks, Unique, Births
<1>6. ASSUME NEW t \in Threads, FindUnderLock(t)
      PROVE  Unique'
  <2>1. \A p : Known(p)' => Known(p)
    BY <1>a, <1>6, RegistryAssumption DEF FindUnderLock, Chain, Matches, Take, Remember, registryVars, callVars, TypeOK, Calls, Known
  <2> QED
    BY <1>a, <2>1, <1>6, RegistryAssumption DEF FindUnderLock, Chain, Matches, Take, Remember, registryVars, callVars, TypeOK, Locks, Unique, Births
<1>7. ASSUME NEW t \in Threads, BeginCreate(t)
      PROVE  Unique'
  <2>1. \A p : Known(p)' => Known(p)
    BY <1>a, <1>7, RegistryAssumption DEF BeginCreate, NoneMatches, Chain, Matches, registryVars, callVars, TypeOK, Calls, Known
  <2> QED
    BY <1>a, <2>1, <1>7, RegistryAssumption DEF BeginCreate, NoneMatches, Chain, Matches, registryVars, callVars, TypeOK, Locks, Unique, Births
<1>8. ASSUME NEW t \in Threads, Register(t)
      PROVE  Unique'
  <2>1. \A p : Known(p)' => Known(p) \/ p = found[t]
    BY <1>a, <1>8, RegistryAssumption DEF Register, Take, Remember, registryVars, callVars, TypeOK, Calls, Known
  <2> QED
    BY <1>a, <2>1, <1>8, RegistryAssumption DEF Register, Take, Remember, TypeOK, Calls, Locks, Unique, Births
<1>9. ASSUME NEW t \in Threads, CreateFails(t)
      PROVE  Unique'
  <2>1. \A p : Known(p)' => Known(p)
    BY <1>a, <1>9, RegistryAssumption DEF CreateFails, registryVars, callVars, TypeOK, Calls, Known
  <2> QED
    BY <1>a, <2>1, <1>9, RegistryAssumption DEF CreateFails, registryVars, callVars, TypeOK, Locks, Unique, Births
<1>10. ASSUME NEW t \in Threads, Return(t)
      PROVE  Unique'
  <2>1. \A p : Known(p)' => Known(p)
    BY <1>a, <1>10, RegistryAssumption DEF Return, registryVars, callVars, TypeOK, Calls, Known
  <2> QED
    BY <1>a, <2>1, <1>10, RegistryAssumption DEF Return, registryVars, callVars, TypeOK, Locks, Unique, Births
<1>11. ASSUME NEW q \in Programs, NEW v \in Options, StoreOption(q, v)
      PROVE  Unique'
  <2>1. \A p : Known(p)' => Known(p)
    BY <1>a, <1>11, RegistryAssumption DEF StoreOption, registryVars, callVars, TypeOK, Calls, Known
  <2> QED
    BY <1>a, <2>1, <1>11, RegistryAssumption DEF StoreOption, registryVars, callVars, TypeOK, Locks, Unique, Births
<1>12. ASSUME NEW q \in Programs, AskToClear(q)
      PROVE  Unique'
  <2>1. \A p : Known(p)' => Known(p)
    BY <1>a, <1>12, RegistryAssumption DEF AskToClear, registryVars, callVars, TypeOK, Calls, Known
  <2> QED
    BY <1>a, <2>1, <1>12, RegistryAssumption DEF AskToClear, registryVars, callVars, TypeOK, Locks, Unique, Births
<1>13. ASSUME NEW q \in Programs, DropPatterns(q)
      PROVE  Unique'
  <2>1. \A p : Known(p)' => Known(p)
    BY <1>a, <1>13, RegistryAssumption DEF DropPatterns, registryVars, callVars, TypeOK, Calls, Known
  <2> QED
    BY <1>a, <2>1, <1>13, RegistryAssumption DEF DropPatterns, registryVars, callVars, TypeOK, Locks, Unique, Births
<1>14. ASSUME NEW q \in Programs, BumpGeneration(q)
      PROVE  Unique'
  <2>1. \A p : Known(p)' => Known(p)
    BY <1>a, <1>14, RegistryAssumption DEF BumpGeneration, registryVars, callVars, TypeOK, Calls, Known
  <2> QED
    BY <1>a, <2>1, <1>14, RegistryAssumption DEF BumpGeneration, registryVars, callVars, TypeOK, Locks, Unique, Births
<1>15. CASE UNCHANGED vars
  <2>1. \A p : Known(p)' => Known(p)
    BY <1>a, <1>15, RegistryAssumption DEF vars, registryVars, callVars, TypeOK, Calls, Known
  <2> QED
    BY <1>a, <2>1, <1>15, RegistryAssumption DEF vars, registryVars, callVars, TypeOK, Locks, Unique, Births
<1> QED
  BY <1>1, <1>2, <1>3, <1>4, <1>5, <1>6, <1>7, <1>8, <1>9, <1>10, <1>11,
     <1>12, <1>13, <1>14, <1>15 DEF Next, Step, Settings

\* Every step keeps current patterns registered.
LEMMA NextBirths == RegistryInv /\ [Next]_vars => Births'
<1> SUFFICES ASSUME RegistryInv, [Next]_vars PROVE Births'
  OBVIOUS
<1>a. TypeOK /\ Locks /\ Births /\ Memory /\ Calls /\ Settled /\ Unique
  BY DEF RegistryInv
<1>1. ASSUME NEW t \in Threads, NEW s \in Structures, Ask(t, s)
      PROVE  Births'
  <2>1. \A p : Known(p)' => Known(p)
    BY <1>a, <1>1, RegistryAssumption DEF Ask, registryVars, callVars, TypeOK, Calls, Known
  <2> QED
    BY <1>a, <2>1, <1>1, RegistryAssumption DEF Ask, registryVars, callVars, TypeOK, Locks, Births
<1>2. ASSUME NEW t \in Threads, Recall(t)
      PROVE  Births'
  <2>1. \A p : Known(p)' => Known(p)
    BY <1>a, <1>2, RegistryAssumption DEF Recall, IsRemembered, Matches, registryVars, callVars, TypeOK, Calls, Known
  <2> QED
    BY <1>a, <2>1, <1>2, RegistryAssumption DEF Recall, IsRemembered, Matches, registryVars, callVars, TypeOK, Locks, Births
<1>3. ASSUME NEW t \in Threads, Forgotten(t)
      PROVE  Births'
  <2>1. \A p : Known(p)' => Known(p)
    BY <1>a, <1>3, RegistryAssumption DEF Forgotten, IsRemembered, registryVars, callVars, TypeOK, Calls, Known
  <2> QED
    BY <1>a, <2>1, <1>3, RegistryAssumption DEF Forgotten, IsRemembered, registryVars, callVars, TypeOK, Locks, Births
<1>4. ASSUME NEW t \in Threads, LookUp(t)
      PROVE  Births'
  <2>1. \A p : Known(p)' => Known(p)
    BY <1>a, <1>4, RegistryAssumption DEF LookUp, Chain, registryVars, callVars, TypeOK, Calls, Known
  <2> QED
    BY <1>a, <2>1, <1>4, RegistryAssumption DEF LookUp, Chain, registryVars, callVars, TypeOK, Locks, Births
<1>5. ASSUME NEW t \in Threads, FindCandidate(t)
      PROVE  Births'
  <2>1. \A p : Known(p)' => Known(p)
    BY <1>a, <1>5, RegistryAssumption DEF FindCandidate, Matches, Take, Remember, registryVars, callVars, TypeOK, Calls, Known
  <2> QED
    BY <1>a, <2>1, <1>5, RegistryAssumption DEF FindCandidate, Matches, Take, Remember, registryVars, callVars, TypeOK, Locks, Births
<1>6. ASSUME NEW t \in Threads, FindUnderLock(t)
      PROVE  Births'
  <2>1. \A p : Known(p)' => Known(p)
    BY <1>a, <1>6, RegistryAssumption DEF FindUnderLock, Chain, Matches, Take, Remember, registryVars, callVars, TypeOK, Calls, Known
  <2> QED
    BY <1>a, <2>1, <1>6, RegistryAssumption DEF FindUnderLock, Chain, Matches, Take, Remember, registryVars, callVars, TypeOK, Locks, Births
<1>7. ASSUME NEW t \in Threads, BeginCreate(t)
      PROVE  Births'
  <2>1. \A p : Known(p)' => Known(p)
    BY <1>a, <1>7, RegistryAssumption DEF BeginCreate, NoneMatches, Chain, Matches, registryVars, callVars, TypeOK, Calls, Known
  <2> QED
    BY <1>a, <2>1, <1>7, RegistryAssumption DEF BeginCreate, NoneMatches, Chain, Matches, registryVars, callVars, TypeOK, Locks, Births
<1>8. ASSUME NEW t \in Threads, Register(t)
      PROVE  Births'
  <2>1. \A p : Known(p)' => Known(p) \/ p = found[t]
    BY <1>a, <1>8, RegistryAssumption DEF Register, Take, Remember, registryVars, callVars, TypeOK, Calls, Known
  <2> QED
    BY <1>a, <2>1, <1>8, RegistryAssumption DEF Register, Take, Remember, TypeOK, Calls, Locks, Births
<1>9. ASSUME NEW t \in Threads, CreateFails(t)
      PROVE  Births'
  <2>1. \A p : Known(p)' => Known(p)
    BY <1>a, <1>9, RegistryAssumption DEF CreateFails, registryVars, callVars, TypeOK, Calls, Known
  <2> QED
    BY <1>a, <2>1, <1>9, RegistryAssumption DEF CreateFails, registryVars, callVars, TypeOK, Locks, Births
<1>10. ASSUME NEW t \in Threads, Return(t)
      PROVE  Births'
  <2>1. \A p : Known(p)' => Known(p)
    BY <1>a, <1>10, RegistryAssumption DEF Return, registryVars, callVars, TypeOK, Calls, Known
  <2> QED
    BY <1>a, <2>1, <1>10, RegistryAssumption DEF Return, registryVars, callVars, TypeOK, Locks, Births
<1>11. ASSUME NEW q \in Programs, NEW v \in Options, StoreOption(q, v)
      PROVE  Births'
  <2>1. \A p : Known(p)' => Known(p)
    BY <1>a, <1>11, RegistryAssumption DEF StoreOption, registryVars, callVars, TypeOK, Calls, Known
  <2> QED
    BY <1>a, <2>1, <1>11, RegistryAssumption DEF StoreOption, registryVars, callVars, TypeOK, Locks, Births
<1>12. ASSUME NEW q \in Programs, AskToClear(q)
      PROVE  Births'
  <2>1. \A p : Known(p)' => Known(p)
    BY <1>a, <1>12, RegistryAssumption DEF AskToClear, registryVars, callVars, TypeOK, Calls, Known
  <2> QED
    BY <1>a, <2>1, <1>12, RegistryAssumption DEF AskToClear, registryVars, callVars, TypeOK, Locks, Births
<1>13. ASSUME NEW q \in Programs, DropPatterns(q)
      PROVE  Births'
  <2>1. \A p : Known(p)' => Known(p)
    BY <1>a, <1>13, RegistryAssumption DEF DropPatterns, registryVars, callVars, TypeOK, Calls, Known
  <2> QED
    BY <1>a, <2>1, <1>13, RegistryAssumption DEF DropPatterns, registryVars, callVars, TypeOK, Locks, Births
<1>14. ASSUME NEW q \in Programs, BumpGeneration(q)
      PROVE  Births'
  <2>1. \A p : Known(p)' => Known(p)
    BY <1>a, <1>14, RegistryAssumption DEF BumpGeneration, registryVars, callVars, TypeOK, Calls, Known
  <2>2. registry = {} /\ registry' = {} /\ generation' = generation + 1
    BY <1>a, <1>14 DEF BumpGeneration, Births
  <2>3. \A p : Known(p)' => p \in Pattern /\ p.born <= generation /\ p.born \in Nat
    BY <1>a, <2>1 DEF Births, Pattern
  <2>4. generation \in Nat
    BY <1>a DEF TypeOK
  <2>5. \A p : Known(p)' => p \in Pattern /\ p.born <= generation' /\ p.born # generation'
    BY <2>2, <2>3, <2>4
  <2> QED
    BY <2>2, <2>5 DEF Births
<1>15. CASE UNCHANGED vars
  <2>1. \A p : Known(p)' => Known(p)
    BY <1>a, <1>15, RegistryAssumption DEF vars, registryVars, callVars, TypeOK, Calls, Known
  <2> QED
    BY <1>a, <2>1, <1>15, RegistryAssumption DEF vars, registryVars, callVars, TypeOK, Locks, Births
<1> QED
  BY <1>1, <1>2, <1>3, <1>4, <1>5, <1>6, <1>7, <1>8, <1>9, <1>10, <1>11,
     <1>12, <1>13, <1>14, <1>15 DEF Next, Step, Settings

\* So it all holds together.
LEMMA Inductive == RegistryInv /\ [Next]_vars => RegistryInv'
  BY NextType, NextLocks, NextMemory, NextCalls, NextSettled, NextUnique, NextBirths
     DEF RegistryInv

-----------------------------------------------------------------------------
\* However many threads ask for a structure at once, and whatever they remember,
\* they share one pattern of it per generation.
THEOREM OnePattern == Spec => []OnePatternPerStructure
<1>1. RegistryInv => OnePatternPerStructure
  <2> SUFFICES ASSUME RegistryInv, NEW p \in Reachable, NEW q \in Reachable,
                      p.structure = q.structure, p.born = q.born
               PROVE  p = q
    BY DEF OnePatternPerStructure
  <2>1. \A x \in Reachable : Known(x) \/ \E t \in Threads : pc[t] = "creating" /\ x = found[t]
    BY DEF Reachable, Known, RegistryInv, Calls
  <2>2. CASE Known(p) /\ Known(q)
    BY <2>2 DEF RegistryInv, Unique
  <2>3. ASSUME NEW t \in Threads, pc[t] = "creating", NEW x, Known(x),
               x.structure = found[t].structure, x.born = found[t].born
        PROVE  FALSE
    <3>1. \A u \in Programs : task[u] # "bump"
      BY <2>3, RegistryAssumption DEF RegistryInv, Locks
    <3>2. x \in registry
      BY <2>3, <3>1 DEF RegistryInv, Births, Calls
    <3> QED
      BY <2>3, <3>2 DEF RegistryInv, Calls
  <2>4. \A t, u \in Threads : pc[t] = "creating" /\ pc[u] = "creating" => t = u
    BY DEF RegistryInv, Locks
  <2> QED
    BY <2>1, <2>2, <2>3, <2>4
<1> QED
  BY InitRegistry, Inductive, <1>1, PTL DEF Spec

\* No call is answered with another structure's pattern, nor with one that was
\* dropped before it began, although the generation is read without the lock.
THEOREM CurrentAnswers == Spec => []AnswersAreCurrent
<1>1. RegistryInv => AnswersAreCurrent
  <2> SUFFICES ASSUME RegistryInv, NEW t \in Threads, pc[t] = "found"
               PROVE  found[t].structure = asks[t] /\ found[t].born >= since[t]
    BY DEF AnswersAreCurrent
  <2>1. Known(found[t])
    BY DEF Known, RegistryInv, Calls
  <2>2. found[t].born \in Nat /\ gen[t] \in Nat /\ since[t] \in Nat
    BY <2>1 DEF RegistryInv, Births, TypeOK, Pattern
  <2> QED
    BY <2>2 DEF RegistryInv, Calls
<1> QED
  BY InitRegistry, Inductive, <1>1, PTL DEF Spec

\* The lock-free short cut is as good as a lookup.
THEOREM ShortCutSound == Spec => []RememberedIsRegistered
<1>1. RegistryInv => RememberedIsRegistered
  <2> SUFFICES ASSUME RegistryInv, NEW t \in Threads, last[t].gen = generation,
                      \A q \in Programs : task[q] # "bump"
               PROVE  last[t].pat \in registry
    BY DEF RememberedIsRegistered
  <2>1. last[t].pat # None /\ last[t].pat.born >= generation /\ generation \in Nat
    BY DEF RegistryInv, Memory, TypeOK
  <2>2. Known(last[t].pat)
    BY <2>1 DEF Known
  <2>3. last[t].pat.born = generation
    BY <2>1, <2>2 DEF RegistryInv, Births, Pattern
  <2> QED
    BY <2>2, <2>3 DEF RegistryInv, Births
<1> QED
  BY InitRegistry, Inductive, <1>1, PTL DEF Spec

\* Once no set_options is under way, no analysis made under an older setting can
\* reach a call, one that was under way when the setting changed included.
THEOREM OptionsApply == Spec => []SettingApplies
<1>1. RegistryInv => SettingApplies
  <2> SUFFICES ASSUME RegistryInv, \A q \in Programs : task[q] = "idle"
               PROVE  /\ \A p \in registry : p.option = option
                      /\ \A t \in Threads :
                           last[t].gen = generation => last[t].pat.option = option
    BY DEF SettingApplies
  <2>1. \A p : Known(p) /\ p.born = generation => p.option = option
    BY DEF RegistryInv, Settled
  <2>2. \A p \in registry : p.option = option
    BY <2>1 DEF RegistryInv, Births, Known
  <2>3. ASSUME NEW t \in Threads, last[t].gen = generation
        PROVE  last[t].pat.option = option
    <3>1. last[t].pat # None /\ last[t].pat.born >= generation /\ generation \in Nat
      BY <2>3 DEF RegistryInv, Memory, TypeOK
    <3>2. Known(last[t].pat)
      BY <3>1 DEF Known
    <3>3. last[t].pat.born = generation
      BY <3>1, <3>2 DEF RegistryInv, Births, Pattern
    <3> QED
      BY <2>1, <3>2, <3>3
  <2> QED
    BY <2>2, <2>3
<1> QED
  BY InitRegistry, Inductive, <1>1, PTL DEF Spec
=============================================================================
