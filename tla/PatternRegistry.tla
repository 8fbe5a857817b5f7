--------------------------- MODULE PatternRegistry ---------------------------
(***************************************************************************)
(* The patterns of one backend: a sparsity structure with its symbolic     *)
(* analysis, made once and shared by every call (src/src/cpp/common.h,     *)
(* get_pattern; each backend's create_pattern_locked and clear_cache).     *)
(*                                                                         *)
(* Handlers run on threads of XLA's pool.  Each thread remembers the last  *)
(* pattern it used and the generation it used it in, and takes no lock     *)
(* when it is asked for it again.  Programs change settings the analysis   *)
(* reads (supernodal, ordering) by storing them and then clearing the      *)
(* registry, which moves on to the next generation.                        *)
(***************************************************************************)
EXTENDS Integers, FiniteSets

CONSTANTS
  Threads,     \* threads that run handlers
  Programs,    \* Python threads that call clear_cache and set_options
  Structures,  \* COO structures: n, Ai and Aj
  Malformed,   \* those whose indices are out of range or analysis fails
  Hash,        \* pattern_hash
  Options,     \* values of the setting that the analysis reads
  MaxClears,   \* bound: how often the registry is cleared
  None

\* `id` tells patterns apart, as their addresses do; `born` is history, the
\* generation the pattern was registered in.
Pattern ==
  [id : Nat, structure : Structures, option : Options, born : Nat \ {0}]

ASSUME RegistryAssumption ==
  /\ Malformed \subseteq Structures
  /\ DOMAIN Hash = Structures
  /\ MaxClears \in Nat
  /\ None \notin Structures \cup Options \cup Threads \cup Programs
  /\ None \notin Pattern
  /\ Threads \cap Programs = {}

VARIABLES
  registry,    \* the patterns of all chains of the registry
  generation,  \* g_chol_generation, and its like
  option,      \* the setting (g_chol_supernodal, g_chol_ordering)
  lock,        \* who holds the registry's mutex
  made,        \* history: how many patterns were registered
  pc,          \* where each thread is in get_pattern
  asks,        \* the structure it is asked for
  since,       \* history: the generation its call began in
  gen,         \* get_pattern's gen
  candidates,  \* the chain, as it was when it looked
  found,       \* get_pattern's found
  last,        \* tl.last_pat and tl.last_gen
  task         \* where each program is in set_options or clear_cache

registryVars == <<registry, generation, option, lock, made>>
callVars == <<pc, asks, since, gen, candidates, found, last>>
vars == <<registryVars, callVars, task>>

NoMemory == [pat |-> None, gen |-> 0]

Init ==
  /\ registry = {}
  /\ generation = 1
  /\ option \in Options
  /\ lock = None
  /\ made = 0
  /\ pc = [t \in Threads |-> "idle"]
  /\ asks = [t \in Threads |-> None]
  /\ since = [t \in Threads |-> 0]
  /\ gen = [t \in Threads |-> 0]
  /\ candidates = [t \in Threads |-> {}]
  /\ found = [t \in Threads |-> None]
  /\ last = [t \in Threads |-> NoMemory]
  /\ task = [q \in Programs |-> "idle"]

-----------------------------------------------------------------------------
(* get_pattern                                                             *)

\* pattern_matches: sizes and indices, not only the hash that led to the chain.
Matches(p, s) == p.structure = s

Chain(s) == {p \in registry : Hash[p.structure] = Hash[s]}

Ask(t, s) ==
  /\ pc[t] = "idle"
  /\ pc' = [pc EXCEPT ![t] = "asked"]
  /\ asks' = [asks EXCEPT ![t] = s]
  /\ since' = [since EXCEPT ![t] = generation]
  /\ UNCHANGED <<registryVars, gen, candidates, found, last, task>>

\* [mutant of IsRemembered] the generation is not compared
IsRememberedAnyGen(t) ==
  last[t].pat # None /\ Matches(last[t].pat, asks[t])

\* The pattern of the thread's previous call, unless the registry was cleared.
IsRemembered(t) ==
  /\ last[t].pat # None
  /\ last[t].gen = generation
  /\ Matches(last[t].pat, asks[t])

\* generation is read without the lock, before anything else.
Recall(t) ==
  /\ pc[t] = "asked"
  /\ IsRemembered(t)
  /\ gen' = [gen EXCEPT ![t] = generation]
  /\ found' = [found EXCEPT ![t] = last[t].pat]
  /\ pc' = [pc EXCEPT ![t] = "found"]
  /\ UNCHANGED <<registryVars, asks, since, candidates, last, task>>

Forgotten(t) ==
  /\ pc[t] = "asked"
  /\ ~IsRemembered(t)
  /\ gen' = [gen EXCEPT ![t] = generation]
  /\ pc' = [pc EXCEPT ![t] = "hashed"]
  /\ UNCHANGED <<registryVars, asks, since, candidates, found, last, task>>

\* The chain is copied under the lock and compared outside it.
LookUp(t) ==
  /\ pc[t] = "hashed"
  /\ lock = None
  /\ candidates' = [candidates EXCEPT ![t] = Chain(asks[t])]
  /\ pc' = [pc EXCEPT ![t] = "looked"]
  /\ UNCHANGED <<registryVars, asks, since, gen, found, last, task>>

\* [mutant of Remember] a generation read only now
RememberLate(t, p) ==
  last' = [last EXCEPT ![t] = [pat |-> p, gen |-> generation]]

Remember(t, p) == last' = [last EXCEPT ![t] = [pat |-> p, gen |-> gen[t]]]

\* Keep p for this call and for the thread's next one.
Take(t, p) ==
  /\ found' = [found EXCEPT ![t] = p]
  /\ Remember(t, p)
  /\ pc' = [pc EXCEPT ![t] = "found"]
  /\ candidates' = [candidates EXCEPT ![t] = {}]
  /\ UNCHANGED <<asks, since, gen>>

FindCandidate(t) ==
  /\ pc[t] = "looked"
  /\ \E p \in candidates[t] : Matches(p, asks[t]) /\ Take(t, p)
  /\ UNCHANGED <<registryVars, task>>

\* [mutant of NoneMatches] what the first look saw is not looked at again
NoneMatchesUnchecked(t) == TRUE

NoneMatches(t) == ~\E p \in Chain(asks[t]) : Matches(p, asks[t])

\* Another thread made it between the two looks.
FindUnderLock(t) ==
  /\ pc[t] = "looked"
  /\ ~\E p \in candidates[t] : Matches(p, asks[t])
  /\ lock = None
  /\ \E p \in Chain(asks[t]) : Matches(p, asks[t]) /\ Take(t, p)
  /\ UNCHANGED <<registryVars, task>>

\* create: the analysis takes a while and the lock is held meanwhile.  It reads
\* the setting at its start.
BeginCreate(t) ==
  /\ pc[t] = "looked"
  /\ ~\E p \in candidates[t] : Matches(p, asks[t])
  /\ lock = None
  /\ NoneMatches(t)
  /\ lock' = t
  /\ found' = [found EXCEPT ![t] =
       [id |-> made, structure |-> asks[t], option |-> option,
        born |-> generation]]
  /\ pc' = [pc EXCEPT ![t] = "creating"]
  /\ UNCHANGED <<registry, generation, option, made, asks, since, gen,
                 candidates, last, task>>

Register(t) ==
  /\ pc[t] = "creating"
  /\ asks[t] \notin Malformed
  /\ registry' = registry \cup {found[t]}
  /\ made' = made + 1
  /\ lock' = None
  /\ Take(t, found[t])
  /\ UNCHANGED <<generation, option, task>>

\* Indices out of range, analysis failed, or out of memory: the lock is given
\* back, and neither the registry nor the thread's memory has changed.
CreateFails(t) ==
  /\ pc[t] = "creating"
  /\ lock' = None
  /\ found' = [found EXCEPT ![t] = None]
  /\ pc' = [pc EXCEPT ![t] = "failed"]
  /\ candidates' = [candidates EXCEPT ![t] = {}]
  /\ UNCHANGED <<registry, generation, option, made, asks, since, gen, last,
                 task>>

\* The handler is through with the pattern.
Return(t) ==
  /\ pc[t] \in {"found", "failed"}
  /\ pc' = [pc EXCEPT ![t] = "idle"]
  /\ asks' = [asks EXCEPT ![t] = None]
  /\ since' = [since EXCEPT ![t] = 0]
  /\ gen' = [gen EXCEPT ![t] = 0]
  /\ found' = [found EXCEPT ![t] = None]
  /\ UNCHANGED <<registryVars, candidates, last, task>>

-----------------------------------------------------------------------------
(* set_options and clear_cache.                                            *)

\* set_ordering, set_supernodal: stored at once; set_options clears next.
StoreOption(q, v) ==
  /\ task[q] = "idle"
  /\ generation <= MaxClears
  /\ option' = v
  /\ task' = [task EXCEPT ![q] = "clear"]
  /\ UNCHANGED <<registry, generation, lock, made, callVars>>

\* clear_cache on its own
AskToClear(q) ==
  /\ task[q] = "idle"
  /\ generation <= MaxClears
  /\ task' = [task EXCEPT ![q] = "clear"]
  /\ UNCHANGED <<registryVars, callVars>>

\* chol_clear_cache: clear_patterns_locked ...
DropPatterns(q) ==
  /\ task[q] = "clear"
  /\ lock = None
  /\ lock' = q
  /\ registry' = {}
  /\ task' = [task EXCEPT ![q] = "bump"]
  /\ UNCHANGED <<generation, option, made, callVars>>

\* [mutant of BumpGeneration] the threads are not told
ClearQuietly(q) ==
  /\ task[q] = "bump"
  /\ lock' = None
  /\ task' = [task EXCEPT ![q] = "idle"]
  /\ UNCHANGED <<registry, generation, option, made, callVars>>

\* ... and the generation, which threads read without the lock.
BumpGeneration(q) ==
  /\ task[q] = "bump"
  /\ generation' = generation + 1
  /\ lock' = None
  /\ task' = [task EXCEPT ![q] = "idle"]
  /\ UNCHANGED <<registry, option, made, callVars>>

-----------------------------------------------------------------------------
Step(t) ==
  \/ \E s \in Structures : Ask(t, s)
  \/ Recall(t) \/ Forgotten(t) \/ LookUp(t)
  \/ FindCandidate(t) \/ FindUnderLock(t) \/ BeginCreate(t) \/ Register(t)
  \/ CreateFails(t) \/ Return(t)

Settings(q) ==
  \/ \E v \in Options : StoreOption(q, v)
  \/ AskToClear(q) \/ DropPatterns(q) \/ BumpGeneration(q)

Next == (\E t \in Threads : Step(t)) \/ (\E q \in Programs : Settings(q))

Spec == Init /\ [][Next]_vars

-----------------------------------------------------------------------------
\* Patterns some thread can still reach.
Reachable ==
  (registry \cup {last[t].pat : t \in Threads} \cup {found[t] : t \in Threads})
    \ {None}

TypeOK ==
  /\ registry \subseteq Pattern
  /\ generation \in Nat \ {0}
  /\ option \in Options
  /\ lock \in Threads \cup Programs \cup {None}
  /\ made \in Nat
  /\ pc \in [Threads -> {"idle", "asked", "hashed", "looked", "creating",
                         "found", "failed"}]
  /\ asks \in [Threads -> Structures \cup {None}]
  /\ since \in [Threads -> Nat]
  /\ gen \in [Threads -> Nat]
  /\ candidates \in [Threads -> SUBSET Pattern]
  /\ found \in [Threads -> Pattern \cup {None}]
  /\ last \in [Threads -> [pat : Pattern \cup {None}, gen : Nat]]
  /\ task \in [Programs -> {"idle", "clear", "bump"}]

\* Between two clears a structure has one pattern for everybody, so its analysis
\* is made once and its numeric cache is shared: two threads that ask at the same
\* time, or one that remembers and one that looks up, never come by different
\* ones ("Another thread may have created it since the lock was last free").
OnePatternPerStructure ==
  \A p, q \in Reachable :
    p.structure = q.structure /\ p.born = q.born => p = q

\* A call is given a pattern of the very structure it asked for, and never one
\* that a clear_cache which was over before the call began had dropped -- though
\* threads remember patterns and compare generations without the lock.
AnswersAreCurrent ==
  \A t \in Threads : pc[t] = "found" =>
    /\ found[t].structure = asks[t]
    /\ found[t].born >= since[t]

\* What a thread remembers as of this generation is in the registry, so its
\* short cut finds what a lookup would -- except while a clear holds the lock.
RememberedIsRegistered ==
  \A t \in Threads :
    (last[t].gen = generation /\ \A q \in Programs : task[q] # "bump")
      => last[t].pat \in registry

\* "Clears the factorization cache so the setting applies to all patterns"
\* (set_options): once every set_options has returned, whatever a call can be
\* given was analysed under the setting in force, an analysis that was under way
\* when the setting changed included.
SettingApplies ==
  (\A q \in Programs : task[q] = "idle") =>
    /\ \A p \in registry : p.option = option
    /\ \A t \in Threads :
         last[t].gen = generation => last[t].pat.option = option
=============================================================================
