---------------------------- MODULE FactorCache ----------------------------
(***************************************************************************)
(* The numeric-factor cache of one sparsity pattern, shared by every       *)
(* thread that solves with that pattern (src/src/cpp/common.h, and the     *)
(* *_get_factor function of each backend).  A thread looks its matrix      *)
(* values up under the pattern's lock; on a miss it claims the work of     *)
(* factoring them, builds the factor outside the lock -- in the storage of *)
(* an evicted factor when nobody else holds that one -- and inserts it.    *)
(* Threads that ask meanwhile for values with the same hash wait on a      *)
(* condition variable.  Factors outlive their slots: a thread that is      *)
(* solving and a factor token each keep a reference.                       *)
(*                                                                         *)
(* Every action is one critical section, or one stretch of lock-free work, *)
(* of the code.  A numeric factor is the storage it lives in, and          *)
(* content[s] the values whose factor storage s holds; the use count of a  *)
(* shared_ptr is the number of places that name the storage.               *)
(***************************************************************************)
EXTENDS Naturals, Sequences, FiniteSets

CONSTANTS
  Threads,       \* threads that call *_get_factor on the pattern
  Values,        \* the COO values they may ask for
  Hashes,        \* what the values hash to
  HashOf,        \* fnv1a: collisions are allowed
  Unfactorable,  \* values that defeat the factorization
  NonFinite,     \* those of them that hold a NaN or an infinity
  Storage,       \* the numeric objects the allocator can hand out
  Caps,          \* the cache sizes set_*_cache_size may set
  Backend,       \* "cholmod", "klu" or "umfpack"
  TokenCap,      \* bound on the tokens alive at once
  MaxLost,       \* bound on the objects that exceptions may leak
  None

ASSUME CacheAssumption ==
  /\ HashOf \in [Values -> Hashes]
  /\ NonFinite \subseteq Unfactorable
  /\ Unfactorable \subseteq Values
  /\ Caps \subseteq Nat \ {0}
  /\ Caps # {}
  /\ Backend \in {"cholmod", "klu", "umfpack"}
  /\ TokenCap \in Nat
  /\ MaxLost \in Nat
  /\ None \notin Values \cup Storage

VARIABLES
  cache,       \* CholPattern::cache, a vector of slots
  next,        \* CholPattern::next, the rotation cursor (counts from 0)
  inFlight,    \* FactorsInFlight::hashes, as the number of entries of a hash
  cap,         \* g_chol_cache_cap / g_lu_cache_cap / g_umf_cache_cap
  capChange,   \* set_*_cache_size: "none", or "stored" before its trim
  registered,  \* the pattern is still in the registry
  nanOnFailure,\* g_nan_on_failure
  tokens,      \* factors the token table holds
  content,     \* content[s]: values whose factor is in s; None if half-written
  lost,        \* storage no reference reaches and nobody freed
  pc,          \* where each thread is in its call
  arg,         \* the values it asked for
  own,         \* the storage it holds: recycled, being built, or in use
  capSeen,     \* the cap it read before the lock of cache_factor
  answer       \* how its call ends

threadVars == <<pc, arg, own, capSeen, answer>>
settings == <<cap, capChange, nanOnFailure>>
vars == <<cache, next, inFlight, registered, settings, tokens, content, lost,
          threadVars>>

Slot == [ax : Values \cup {None}, num : Storage \cup {None}]
Token == [ax : Values, num : Storage]
Stages == {"idle", "lookup", "waiting", "claimed", "factoring", "factored",
           "inserting", "ending", "notifying", "using"}

\* The stages between find_or_claim_factor and the end of the InFlightClaim.
Claiming == {"claimed", "factoring", "factored", "inserting", "ending"}

Hole == [ax |-> None, num |-> None]

Init ==
  /\ cache = <<>>
  /\ next = 0
  /\ inFlight = [h \in Hashes |-> 0]
  /\ cap \in Caps
  /\ capChange = "none"
  /\ registered = TRUE
  /\ nanOnFailure \in BOOLEAN
  /\ tokens = {}
  /\ content = [s \in Storage |-> None]
  /\ lost = {}
  /\ pc = [t \in Threads |-> "idle"]
  /\ arg = [t \in Threads |-> None]
  /\ own = [t \in Threads |-> None]
  /\ capSeen = [t \in Threads |-> 0]
  /\ answer = [t \in Threads |-> "none"]

-----------------------------------------------------------------------------
(* References and storage.                                                 *)

\* Slot i holds a factor of these values: the hash compare and the memcmp.
Matches(i, v) == cache[i].num # None /\ cache[i].ax = v

Cached(v) == \E i \in DOMAIN cache : Matches(i, v)

\* Storage some reference (or a leak) keeps from the allocator.
Reachable ==
  lost \cup {own[t] : t \in Threads} \cup {k.num : k \in tokens}
       \cup {cache[i].num : i \in DOMAIN cache}

\* [mutant of OnlyTheSlotHolds] the references of tokens are not counted
NoThreadHolds(i) == \A t \in Threads : own[t] # cache[i].num

\* shared_ptr::use_count() == 1 for the factor in slot i.
OnlyTheSlotHolds(i) ==
  /\ \A t \in Threads : own[t] # cache[i].num
  /\ \A k \in tokens : k.num # cache[i].num
  /\ \A j \in DOMAIN cache \ {i} : cache[j].num # cache[i].num

\* evictable_slot_locked finds slot i of a full cache.
Evictable(i) ==
  /\ Len(cache) >= cap
  /\ i = (next % Len(cache)) + 1
  /\ cache[i].num # None
  /\ OnlyTheSlotHolds(i)

-----------------------------------------------------------------------------
(* The call: *_get_factor, find_or_claim_factor, cache_factor.             *)

\* A handler has its pattern and asks for the factor of v.
Call(t, v) ==
  /\ registered
  /\ pc[t] = "idle"
  /\ pc' = [pc EXCEPT ![t] = "lookup"]
  /\ arg' = [arg EXCEPT ![t] = v]
  /\ UNCHANGED <<cache, next, inFlight, registered, settings, tokens, content,
                 lost, own, capSeen, answer>>

Hit(t) ==
  /\ pc[t] = "lookup"
  /\ \E i \in DOMAIN cache :
        /\ Matches(i, arg[t])
        /\ own' = [own EXCEPT ![t] = cache[i].num]
  /\ pc' = [pc EXCEPT ![t] = "using"]
  /\ answer' = [answer EXCEPT ![t] = "factor"]
  /\ UNCHANGED <<cache, next, inFlight, registered, settings, tokens, content,
                 lost, arg, capSeen>>

Wait(t) ==
  /\ pc[t] = "lookup"
  /\ ~Cached(arg[t])
  /\ inFlight[HashOf[arg[t]]] > 0
  /\ pc' = [pc EXCEPT ![t] = "waiting"]
  /\ UNCHANGED <<cache, next, inFlight, registered, settings, tokens, content,
                 lost, arg, own, capSeen, answer>>

\* A condition variable may return from wait() for no reason.
SpuriousWake(t) ==
  /\ pc[t] = "waiting"
  /\ pc' = [pc EXCEPT ![t] = "lookup"]
  /\ UNCHANGED <<cache, next, inFlight, registered, settings, tokens, content,
                 lost, arg, own, capSeen, answer>>

\* [mutant of Detach] the slot keeps naming the storage it gave away
DetachLeavingSlot(t) ==
  IF Backend # "umfpack" /\ \E i \in DOMAIN cache : Evictable(i)
  THEN /\ \E i \in DOMAIN cache :
            Evictable(i) /\ own' = [own EXCEPT ![t] = cache[i].num]
       /\ UNCHANGED cache
  ELSE UNCHANGED <<own, cache>>

\* on_miss, still under the lock: CHOLMOD and KLU detach the storage of a slot
\* they may evict and leave a hole; UMFPACK has nothing to reuse.
Detach(t) ==
  IF Backend # "umfpack" /\ \E i \in DOMAIN cache : Evictable(i)
  THEN \E i \in DOMAIN cache :
         /\ Evictable(i)
         /\ own' = [own EXCEPT ![t] = cache[i].num]
         /\ cache' = [cache EXCEPT ![i] = Hole]
  ELSE UNCHANGED <<own, cache>>

\* [mutant of Claim] a woken thread does not look in the cache again
ClaimWithoutLookup(t) ==
  /\ pc[t] = "lookup"
  /\ inFlight[HashOf[arg[t]]] = 0
  /\ inFlight' = [inFlight EXCEPT ![HashOf[arg[t]]] = @ + 1]
  /\ Detach(t)
  /\ pc' = [pc EXCEPT ![t] = "claimed"]
  /\ UNCHANGED <<next, registered, settings, tokens, content, lost, arg,
                 capSeen, answer>>

Claim(t) ==
  /\ pc[t] = "lookup"
  /\ ~Cached(arg[t])
  /\ inFlight[HashOf[arg[t]]] = 0
  /\ inFlight' = [inFlight EXCEPT ![HashOf[arg[t]]] = @ + 1]
  /\ Detach(t)
  /\ pc' = [pc EXCEPT ![t] = "claimed"]
  /\ UNCHANGED <<next, registered, settings, tokens, content, lost, arg,
                 capSeen, answer>>

\* [mutant of GiveUp] an early return that does not end the claim
GiveUpKeepingClaim(t, how) ==
  /\ own' = [own EXCEPT ![t] = None]
  /\ answer' = [answer EXCEPT ![t] = how]
  /\ pc' = [pc EXCEPT ![t] = "using"]

\* Thread t's call is over, with no factor.  What it holds goes back to the
\* allocator, unless it leaks.
GiveUp(t, how) ==
  /\ own' = [own EXCEPT ![t] = None]
  /\ answer' = [answer EXCEPT ![t] = how]
  /\ pc' = [pc EXCEPT ![t] = "ending"]

\* factorization_failed: NaN or an error, as the option says at this moment.
FailureAnswer == IF nanOnFailure THEN "nan" ELSE "error"

\* What the library's status, or CHOLMOD's log-determinant, gives away: partial
\* pivoting does not see a NaN, so KLU's and UMFPACK's factorizations "succeed".
LibraryRejects ==
  IF Backend = "cholmod" THEN Unfactorable ELSE Unfactorable \ NonFinite

\* KLU and UMFPACK look for a NaN before they start.
RejectValues(t) ==
  /\ pc[t] = "claimed"
  /\ Backend # "cholmod"
  /\ arg[t] \in NonFinite
  /\ GiveUp(t, FailureAnswer)
  /\ UNCHANGED <<cache, next, inFlight, registered, settings, tokens, content,
                 lost, arg, capSeen>>

\* klu_refactor fails in the recycled storage, or its pivots grow: free it.
RejectRecycled(t) ==
  /\ pc[t] = "claimed"
  /\ Backend = "klu"
  /\ arg[t] \notin NonFinite
  /\ own[t] # None
  /\ content' = [content EXCEPT ![own[t]] = None]
  /\ own' = [own EXCEPT ![t] = None]
  /\ UNCHANGED <<cache, next, inFlight, registered, settings, tokens, lost, pc,
                 arg, capSeen, answer>>

\* [mutant of Begin] KLU and UMFPACK do not look for a NaN
BeginUnchecked(t) ==
  /\ pc[t] = "claimed"
  /\ \E s \in (IF own[t] # None THEN {own[t]} ELSE Storage \ Reachable) :
        /\ own' = [own EXCEPT ![t] = s]
        /\ content' = [content EXCEPT ![s] = None]
  /\ pc' = [pc EXCEPT ![t] = "factoring"]
  /\ UNCHANGED <<cache, next, inFlight, registered, settings, tokens, lost, arg,
                 capSeen, answer>>

\* The factorization starts to write: into the recycled storage, or a new one.
Begin(t) ==
  /\ pc[t] = "claimed"
  /\ Backend = "cholmod" \/ arg[t] \notin NonFinite
  /\ \E s \in (IF own[t] # None THEN {own[t]} ELSE Storage \ Reachable) :
        /\ own' = [own EXCEPT ![t] = s]
        /\ content' = [content EXCEPT ![s] = None]
  /\ pc' = [pc EXCEPT ![t] = "factoring"]
  /\ UNCHANGED <<cache, next, inFlight, registered, settings, tokens, lost, arg,
                 capSeen, answer>>

\* cholmod_copy_factor, klu_factor or umfpack_di_numeric finds no memory.
AllocationFails(t) ==
  /\ pc[t] = "claimed"
  /\ Backend = "cholmod" \/ arg[t] \notin NonFinite
  /\ own[t] = None
  /\ GiveUp(t, "error")
  /\ UNCHANGED <<cache, next, inFlight, registered, settings, tokens, content,
                 lost, arg, capSeen>>

Factored(t) ==
  /\ pc[t] = "factoring"
  /\ arg[t] \notin LibraryRejects
  /\ content' = [content EXCEPT ![own[t]] = arg[t]]
  /\ pc' = [pc EXCEPT ![t] = "factored"]
  /\ UNCHANGED <<cache, next, inFlight, registered, settings, tokens, lost, arg,
                 own, capSeen, answer>>

\* Not positive definite, singular, or a log-determinant that is not finite.
FactorizationFails(t) ==
  /\ pc[t] = "factoring"
  /\ arg[t] \in LibraryRejects
  /\ GiveUp(t, FailureAnswer)
  /\ UNCHANGED <<cache, next, inFlight, registered, settings, tokens, content,
                 lost, arg, capSeen>>

\* Any other status of the library.
LibraryError(t) ==
  /\ pc[t] = "factoring"
  /\ GiveUp(t, "error")
  /\ UNCHANGED <<cache, next, inFlight, registered, settings, tokens, content,
                 lost, arg, capSeen>>

\* bad_alloc while a raw pointer is all that holds the storage: the recycled
\* one before a holder takes it, or KLU's and UMFPACK's new one before theirs.
ThrowsHoldingRaw(t) ==
  /\ \/ pc[t] = "claimed"
     \/ pc[t] = "factoring" /\ Backend # "cholmod" /\ arg[t] \notin LibraryRejects
  /\ lost' = lost \cup ({own[t]} \ {None})
  /\ Cardinality(lost') <= MaxLost
  /\ GiveUp(t, "error")
  /\ UNCHANGED <<cache, next, inFlight, registered, settings, tokens, content,
                 arg, capSeen>>

\* The cap is an argument of cache_factor: it is read before the lock is taken.
ReadCap(t) ==
  /\ pc[t] = "factored"
  /\ capSeen' = [capSeen EXCEPT ![t] = cap]
  /\ pc' = [pc EXCEPT ![t] = "inserting"]
  /\ UNCHANGED <<cache, next, inFlight, registered, settings, tokens, content,
                 lost, arg, own, answer>>

\* [mutant of Insert] one slot too many
InsertPastCap(t) ==
  LET new == [ax |-> arg[t], num |-> own[t]]
      at == IF next >= Len(cache) THEN 0 ELSE next
  IN /\ pc[t] = "inserting"
     /\ \/ /\ Len(cache) <= capSeen[t]
           /\ cache' = Append(cache, new)
           /\ UNCHANGED next
        \/ /\ Len(cache) > capSeen[t]
           /\ cache' = [cache EXCEPT ![at + 1] = new]
           /\ next' = (at + 1) % Len(cache)
     /\ answer' = [answer EXCEPT ![t] = "factor"]
     /\ pc' = [pc EXCEPT ![t] = "ending"]
     /\ capSeen' = [capSeen EXCEPT ![t] = 0]
     /\ UNCHANGED <<inFlight, registered, settings, tokens, content, lost, arg,
                    own>>

\* cache_factor: a free slot, or else the next in rotation.
Insert(t) ==
  LET new == [ax |-> arg[t], num |-> own[t]]
      at == IF next >= Len(cache) THEN 0 ELSE next
  IN /\ pc[t] = "inserting"
     /\ \/ /\ Len(cache) < capSeen[t]
           /\ cache' = Append(cache, new)
           /\ UNCHANGED next
        \/ /\ Len(cache) >= capSeen[t]
           /\ cache' = [cache EXCEPT ![at + 1] = new]
           /\ next' = (at + 1) % Len(cache)
     /\ answer' = [answer EXCEPT ![t] = "factor"]
     /\ pc' = [pc EXCEPT ![t] = "ending"]
     /\ capSeen' = [capSeen EXCEPT ![t] = 0]
     /\ UNCHANGED <<inFlight, registered, settings, tokens, content, lost, arg,
                    own>>

\* The new slot's copy of the values cannot be allocated.
InsertThrows(t) ==
  /\ pc[t] = "inserting"
  /\ Len(cache) < capSeen[t]
  /\ GiveUp(t, "error")
  /\ capSeen' = [capSeen EXCEPT ![t] = 0]
  /\ UNCHANGED <<cache, next, inFlight, registered, settings, tokens, content,
                 lost, arg>>

\* [mutant of EndClaim] the sleepers are not notified
EndClaimSilently(t) ==
  /\ pc[t] = "ending"
  /\ inFlight' = [inFlight EXCEPT ![HashOf[arg[t]]] = @ - 1]
  /\ pc' = [pc EXCEPT ![t] = "using"]
  /\ UNCHANGED <<cache, next, registered, settings, tokens, content, lost, arg,
                 own, capSeen, answer>>

\* ~InFlightClaim: drop the claim under the lock, then notify_all without it.
EndClaim(t) ==
  /\ pc[t] = "ending"
  /\ inFlight' = [inFlight EXCEPT ![HashOf[arg[t]]] = @ - 1]
  /\ pc' = [pc EXCEPT ![t] = "notifying"]
  /\ UNCHANGED <<cache, next, registered, settings, tokens, content, lost, arg,
                 own, capSeen, answer>>

Notify(t) ==
  /\ pc[t] = "notifying"
  /\ pc' = [u \in Threads |-> IF u = t THEN "using"
                              ELSE IF pc[u] = "waiting" THEN "lookup"
                              ELSE pc[u]]
  /\ UNCHANGED <<cache, next, inFlight, registered, settings, tokens, content,
                 lost, arg, own, capSeen, answer>>

-----------------------------------------------------------------------------
(* The handler after the call, and the token table.                        *)

Finish(t) ==
  /\ pc[t] = "using"
  /\ pc' = [pc EXCEPT ![t] = "idle"]
  /\ arg' = [arg EXCEPT ![t] = None]
  /\ own' = [own EXCEPT ![t] = None]
  /\ answer' = [answer EXCEPT ![t] = "none"]
  /\ UNCHANGED <<cache, next, inFlight, registered, settings, content, lost,
                 capSeen>>

\* A solve, a log-determinant: the factor is read and let go.
Release(t) == Finish(t) /\ UNCHANGED tokens

\* TokenTable::issue (a failed factorization gets no slot in the table).
IssueToken(t) ==
  /\ answer[t] = "factor"
  /\ Cardinality(tokens) < TokenCap
  /\ tokens' = tokens \cup {[ax |-> arg[t], num |-> own[t]]}
  /\ Finish(t)

\* TokenTable::resolve copies the references for the call that consumes them.
ResolveToken(t) ==
  /\ pc[t] = "idle"
  /\ \E k \in tokens :
        /\ arg' = [arg EXCEPT ![t] = k.ax]
        /\ own' = [own EXCEPT ![t] = k.num]
  /\ answer' = [answer EXCEPT ![t] = "factor"]
  /\ pc' = [pc EXCEPT ![t] = "using"]
  /\ UNCHANGED <<cache, next, inFlight, registered, settings, tokens, content,
                 lost, capSeen>>

\* A newer token or clear_cache pushes one out.
DropToken ==
  /\ \E k \in tokens : tokens' = tokens \ {k}
  /\ UNCHANGED <<cache, next, inFlight, registered, settings, content, lost,
                 threadVars>>

-----------------------------------------------------------------------------
(* Settings: one Python thread at a time, under the interpreter lock.      *)

StoreCap(n) ==
  /\ capChange = "none"
  /\ cap' = n
  /\ capChange' = "stored"
  /\ UNCHANGED <<cache, next, inFlight, registered, nanOnFailure, tokens,
                 content, lost, threadVars>>

\* trim_numeric_caches; a pattern that left the registry is not reached.
TrimCache ==
  /\ capChange = "stored"
  /\ capChange' = "none"
  /\ IF registered
     THEN LET kept == IF Len(cache) > cap THEN SubSeq(cache, 1, cap) ELSE cache
          IN /\ cache' = kept
             /\ next' = IF next >= Len(kept) THEN 0 ELSE next
     ELSE UNCHANGED <<cache, next>>
  /\ UNCHANGED <<inFlight, registered, cap, nanOnFailure, tokens, content, lost,
                 threadVars>>

SetNanOnFailure(b) ==
  /\ capChange = "none"
  /\ nanOnFailure # b
  /\ nanOnFailure' = b
  /\ UNCHANGED <<cache, next, inFlight, registered, cap, capChange, tokens,
                 content, lost, threadVars>>

\* clear_patterns_locked, as this pattern sees it.
Clear ==
  /\ registered
  /\ capChange = "none"
  /\ registered' = FALSE
  /\ cache' = <<>>
  /\ next' = 0
  /\ UNCHANGED <<inFlight, settings, tokens, content, lost, threadVars>>

\* The structure is analysed again: a new pattern object, followed from here
\* on once the calls on the old one are over.
NewPattern ==
  /\ ~registered
  /\ \A t \in Threads : pc[t] = "idle"
  /\ registered' = TRUE
  /\ cache' = <<>>
  /\ next' = 0
  /\ inFlight' = [h \in Hashes |-> 0]
  /\ UNCHANGED <<settings, tokens, content, lost, threadVars>>

-----------------------------------------------------------------------------
\* What thread t does on its own once its call is under way.
Step(t) ==
  \/ Hit(t) \/ Wait(t) \/ Claim(t)
  \/ RejectValues(t) \/ RejectRecycled(t) \/ Begin(t) \/ AllocationFails(t)
  \/ Factored(t) \/ FactorizationFails(t) \/ LibraryError(t)
  \/ ThrowsHoldingRaw(t)
  \/ ReadCap(t) \/ Insert(t) \/ InsertThrows(t)
  \/ EndClaim(t) \/ Notify(t)

Environment ==
  \/ \E t \in Threads :
        \/ \E v \in Values : Call(t, v)
        \/ SpuriousWake(t)
        \/ Release(t) \/ IssueToken(t) \/ ResolveToken(t)
  \/ DropToken
  \/ \E n \in Caps : StoreCap(n)
  \/ TrimCache
  \/ \E b \in BOOLEAN : SetNanOnFailure(b)
  \/ Clear
  \/ NewPattern

Next == Environment \/ \E t \in Threads : Step(t)

Spec == Init /\ [][Next]_vars

FairSpec == Spec /\ \A t \in Threads : WF_vars(Step(t))

-----------------------------------------------------------------------------
TypeOK ==
  /\ cache \in Seq(Slot)
  /\ next \in Nat
  /\ inFlight \in [Hashes -> Nat]
  /\ cap \in Caps
  /\ capChange \in {"none", "stored"}
  /\ registered \in BOOLEAN
  /\ nanOnFailure \in BOOLEAN
  /\ tokens \subseteq Token
  /\ content \in [Storage -> Values \cup {None}]
  /\ lost \subseteq Storage
  /\ pc \in [Threads -> Stages]
  /\ arg \in [Threads -> Values \cup {None}]
  /\ own \in [Threads -> Storage \cup {None}]
  /\ capSeen \in [Threads -> Caps \cup {0}]
  /\ answer \in [Threads -> {"none", "factor", "nan", "error"}]

\* A factor a caller holds, one a token holds and one a slot offers is, all the
\* while, the factor of the values it is held for: no eviction, recycling or
\* hash collision changes it under them (evictable_slot_locked's use_count
\* test, find_or_claim_factor's memcmp).
HeldFactorsExact ==
  /\ \A t \in Threads :
        pc[t] = "using" /\ answer[t] = "factor" => content[own[t]] = arg[t]
  /\ \A k \in tokens : content[k.num] = k.ax
  /\ \A i \in DOMAIN cache :
        cache[i].num # None => content[cache[i].num] = cache[i].ax

\* The storage a thread is about to write, or writes, is nobody else's: not in
\* a slot, not behind a token, not another thread's (on_miss detaches it under
\* the lock; see "Recycling evicted factors" in common.h).
BuilderOwnsItsStorage ==
  \A t \in Threads :
    pc[t] \in {"claimed", "factoring"} /\ own[t] # None =>
      /\ \A u \in Threads \ {t} : own[u] # own[t]
      /\ \A k \in tokens : k.num # own[t]
      /\ \A i \in DOMAIN cache : cache[i].num # own[t]

\* Threads that build at the same time build values of different hashes, so
\* never the same matrix twice (FactorsInFlight).
OneBuilderPerHash ==
  \A t, u \in Threads :
    pc[t] \in Claiming /\ pc[u] \in Claiming /\ HashOf[arg[t]] = HashOf[arg[u]]
      => t = u

\* No matrix takes two slots of the cache, whatever clears, trims, failures and
\* collisions came between its claims.
NoDuplicateSlots ==
  \A i, j \in DOMAIN cache :
    cache[i].num # None /\ cache[j].num # None /\ cache[i].ax = cache[j].ax
      => i = j

\* A thread asleep on the condition variable has somebody to wake it: a claim
\* on its hash, or a thread between the end of a claim and its notify_all,
\* which ~InFlightClaim makes outside the lock.
SleepersHaveAWaker ==
  \A t \in Threads :
    pc[t] = "waiting" =>
      \/ \E u \in Threads : pc[u] \in Claiming /\ HashOf[arg[u]] = HashOf[arg[t]]
      \/ \E u \in Threads : pc[u] = "notifying"

\* The cache never has more slots than the largest cap there was: with one cap,
\* than the cap, however many inserts race.
CacheWithinCaps == \E n \in Caps : Len(cache) <= n

\* trim_numeric_caches says "the cap is a bound on memory" (common.h:401): with
\* no change of the cap and no insert under way, the cache is within it.
CapBoundsMemory ==
  capChange = "none" /\ (\A t \in Threads : pc[t] # "inserting")
    => Len(cache) <= cap

\* The promise without the cache: every caller gets a factor of its own values,
\* or a failure its values or the memory explain, and what it got never changes
\* in its hands.
Oracle == INSTANCE FactorOracle WITH
  request <- [t \in Threads |-> arg[t]],
  reply <- [t \in Threads |->
              IF pc[t] # "using" THEN [kind |-> "none", of |-> None]
              ELSE [kind |-> answer[t],
                    of |-> IF answer[t] = "factor" THEN content[own[t]]
                           ELSE None]]

ImplementsOracle == Oracle!Spec

\* Once no new calls come, every call under way is answered: nobody sleeps for
\* ever on the condition variable, and no claim outlives its thread.
AnsweredOnceCallsStop ==
  (<>[][~\E t \in Threads, v \in Values : Call(t, v)]_vars) =>
    \A t \in Threads : pc[t] = "lookup" ~> pc[t] = "using"
=============================================================================
