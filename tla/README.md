# A TLA+ model of sparsax

sparsax makes direct sparse solvers (CHOLMOD, KLU, UMFPACK) available to JAX as
XLA custom calls. The numerical work is done by SuiteSparse; what sparsax itself
has to get right is everything around it: which factor a call is answered from,
who may write to which storage at what moment, what a token names after other
tokens were issued, what reaches the program when one matrix of a batch fails,
and how work is divided among threads that may not start. Handlers run on
threads of XLA's pool, without Python's lock, so all of it is concurrent. That is
what these modules model.

Source paths below are relative to the repository; `common.h` is
`src/cpp/common.h`, and so on.

## The system

| Component | State it keeps | Operations | What makes it correct |
|---|---|---|---|
| Pattern registry (`common.h` `get_pattern`, `*_create_pattern_locked`, `*_clear_cache`) | chains of patterns by hash under one mutex per backend; a generation counter; each thread's last pattern | look a structure up, analyse and register it, clear | one analysis per structure; nobody is answered from before a clear; a changed setting applies to every pattern |
| Numeric-factor cache of a pattern (`find_or_claim_factor`, `FactorsInFlight`, `cache_factor`, `evictable_slot_locked`, `trim_numeric_caches`, `*_get_factor`) | slots of (values, factor), rotation cursor, hashes in flight, condition variable; the caps | look up, wait, claim, recycle, factor, fail, insert, trim, clear | a factor in use never changes; a matrix is built once; every sleeper is woken; the cap holds |
| Factor tokens (`TokenTable`, `factor`, `lu_factor`, `umf_factor` and the handlers that take tokens) | a table per backend from key to factor, the next key, the cap | issue, resolve, trim, clear, checks of issuer and rows | a token never names another factor; the newest survive |
| Work sharing (`run_on_threads`, `for_each_batch_element`, `for_each_panel`, `argmax_logprob`) | per call: cursor, failure flag, first error; per thread: its share of the machine | spawn, take items, fail, throw, join | each item once; a success is whole; nobody is left behind; the machine is divided |
| COO to CSC (`build_csc_from_coo`, `chol_create_pattern_locked`, the scatters) | column pointers, row indices, the map from COO entries to slots, the thread's value buffer | sort, count, place, sum up, scatter | the matrix the library sees is the sum of the entries |
| Handlers (`cholmod_handlers.cpp`, `lu_handlers.h`) | per call only; the setting `on_failure` | solve, logdet, slogdet, rcond, selinv, factor_solve, updown, token forms, batched forms | answers are whole, NaN exactly where numbers fail and the setting allows it |
| Shared factor (`chol_apply_solves`, `*_solve_one`, `chol_ensure_ldl`, `updown_solve`) | the factor and its LDL' copy under `ldl_mtx`; the buffers of each thread | chains of solves, panels on helper threads, one conversion, changes to a copy of the copy | nothing shared is written; a chain does its solves in order; the conversion happens once |
| Selected inverse, log-determinants, signs (`chol_selinv`, `chol_selinv_supernodal`, `chol_block_inverse`, `factor_logdet`, `klu_*_one`, `umf_*_one`) | workspaces | recursions over the factor's structure, from the last column or supernode to the first | every entry read was computed, from what it should be; both forms of a factor and all three libraries give the matrix's own determinant |
| GHK probabilities (`ghk.cpp`, `sobol_directions.h`) | the direction table; per thread the work arrays of a path | direction numbers, scrambled draws, a path's factor, its draws, its reverse sweep | draws fill the cube evenly and never touch 0 or 1; the factored recursion is the simulation of the differences, and the sweep its derivative |
| JAX layer (`src/sparsax/__init__.py`) | settings, registered primitives | abstract evaluation, vmap, JVP and transposition rules | derivative rules; settings reach the C++ side |
| PyTensor frontend (`src/sparsax/pytensor.py`) | none | thin wrappers | - |
| Module bindings (`module.cpp`, `handlers.h`) | the caps and settings as atomics | setters, `clear_cache`, introspection | settings take effect in an order that makes sense |

How they meet: a handler asks the registry for its pattern, asks the pattern's
cache for the factor of its values (which scatters the values through the
pattern's COO map and calls the library), reads its outputs off the factor while
holding a `shared_ptr` to it, and gives it back. The batched forms do this for
each element on a worker of the work-sharing layer. A token handler puts the
reference in the token table, and later calls resolve it there without the
cache. `set_*_cache_size`, `set_options` and `clear_cache` come from Python threads
at any time; they share with the handlers only atomics and the mutexes above.

What is hard: the storage of an evicted factor is reused while other factors
of the cache are read without a lock; two matrices may have one hash; a claim
must end on each of a dozen early returns and exceptions; the notification is
sent after the lock is let go; caps, generations and settings are read outside
the locks that guard what they govern; threads may fail to start, bodies may
throw, memory may run out in the error path itself. `PROJECT.json` lists 40
such hazards with the line each bites at.

## Modules

| Module | Models | |
|---|---|---|
| `FactorOracle` | what a caller of `*_get_factor` is promised, without a cache | abstract specification |
| `FactorCache` | the cache of one pattern, all backends (`Backend`) | detailed specification |
| `FactorCacheProofs` | theorems: invariants, and the cache implements the oracle | proofs |
| `TokenLedger` | what a program is promised of tokens, without tables, keys or caps | abstract specification |
| `TokenTable`, `TokenTableProofs` | tokens of every backend; they implement the ledger | detailed specification, proofs |
| `PatternRegistry`, `PatternRegistryProofs` | the registry of one backend and the settings behind it | |
| `WorkSharing`, `WorkSharingProofs` | one thread of XLA's pool making calls, with its workers | |
| `CooCsc`, `CooCscProofs` | both structure builders and the value scatter | |
| `Handlers`, `HandlersProofs` | every handler, over `FactorOracle` | composition |
| `SharedFactor`, `SharedFactorProofs` | what calls on several threads do with one factor at once | composition of solve chains, panels, LDL' copy and updates |
| `PrimeField` | exact numbers for the algebra of the two modules below | |
| `FactorReads` | selected inverses, log-determinants and signs | |
| `ArgmaxPath` | one thread's work on the paths of an argmax log-probability | |
| `SobolTable`, `SobolDraws`, `SobolDrawsProofs` | the direction table; the draws of one step | |
| `MC*` | instances for TLC | |

The composition goes through the oracle. `FactorCache` implements `FactorOracle`
(checked by TLC as `ImplementsOracle`, proved in `FactorCacheProofs`), and
`Handlers` instantiates `FactorOracle` with one requester per batch element in
place of the cache, and uses it as the oracle lets its callers
(`HandlersUseOracle`). So `Handlers` stays small, and what it shows holds with the
cache under it. The work-sharing layer enters `Handlers` by what `WorkSharing` shows of it:
elements are worked on in any order and at once, each once; the first error is
kept; untaken elements are left after one; and the call waits for all that run.
Tokens enter by what `TokenLedger` promises and `TokenTable` is proved to keep: a
token is answered with the factor of its own matrix or refused.

### FactorCache

An action is one critical section or one stretch of lock-free work. A numeric
factor is the storage it lives in (`Storage`); `content[s]` is the matrix whose
factor is in it, `None` while it is half-written. The use count of a `shared_ptr` is
the number of places that name the storage, so `use_count() == 1` is
`OnlyTheSlotHolds`. The state of a call is `pc`: `lookup` (`find_or_claim_factor`),
`waiting`, `claimed` (hash in flight, recycled storage detached), `factoring`,
`factored`, `inserting` (the cap was read, the lock not yet taken), `ending`
(`~InFlightClaim`), `notifying` (lock released, `notify_all` not yet called), `using`.
The backends differ where the code does: UMFPACK detaches nothing, KLU may give
a recycled factor up when its pivots grow, KLU and UMFPACK look for a NaN first
and CHOLMOD finds one in its log-determinant. `lost` is storage an exception
leaks, between the detach and the holder that would have taken it.
`Clear` takes the pattern out of the registry; `NewPattern` follows the structure's next
pattern, once no call is left on the old one (a simplification: calls on the
old and the new object at the same time share no state but tokens).

### TokenTable

Keys count up and are never given again, as `next_key_` does; `clear_cache`
empties the tables in turn (`toClear`). A batch issues or resolves its tokens one
at a time with other threads in between. Argument checks (`check_token_issuer`,
`check_token_rows`) are where the code has them: issuers before any key is
resolved, rows at each resolved one. That factors stay what they are is
`FactorCache`'s matter, so here a factor is just the matrix it is of.

`TokenLedger` is the same as a program sees it: tokens with names of their own, a set
`live` of those not forgotten, and for each call what it was told of the tokens it
presented. Issuing may forget any others, `Forget` any at all; a live token that fits
is answered with its own factor, only one that is not live is refused as stale. The
mapping (`Live`, `Held`, `Told` in `TokenTable`) takes the factor of a live token from
the table's entry, not from what the token was issued for, so that a key given twice
would show.

### PatternRegistry

`Recall` is the lock-free short cut through the thread's last pattern, `LookUp`
copies the chain under the lock, `FindCandidate` compares outside it,
`FindUnderLock` and `BeginCreate` are the second look. The analysis runs with the
lock held and reads the setting when it begins. `clear_cache` is two steps,
`DropPatterns` and `BumpGeneration`, because threads read the generation without
the lock.

### WorkSharing

One XLA thread (worker 0) makes calls; others are spawned and joined for each.
The helpers a many-column solve uses inside a batch element are kept as a
number, for the budget; that inner call is a call of this same module.
`SpawnNoMore` is `std::system_error` caught; `SpawnOutOfMemory` and
`MessageOutOfMemory` are the allocations whose failure is not caught, after which
the process is `terminated`. `CallsReturn` is about processes that live; that a
failure leaves the process alive is `FailuresReachTheCaller`, which does not hold
(see Findings).

### CooCsc

The passes are the code's, one array element a step; `Sort` leaves duplicates in
any order, as `std::sort` may. `Load` starts the values of a later factorization in
the buffer the last one left. `kind` is what differs between CHOLMOD (`upper`) and
the LU backends (`full`).

### Handlers

A call is checked, works on its elements and returns. For each element: the
factor (`Ask`, then one of `GetFactor`, `FactorEmpty`, `FactorFails`) or the token,
then what the handler reads off it. `on_failure` is read where a failure shows:
in `factorization_failed`, again in `lu_logdet_into`, and twice in an updown. A
factor that exists but whose log-determinant is not finite (`Flat`), and a
downdate that makes a matrix indefinite (`Spoiled`), are the failures after the
factor. The argument checks of each handler are one action, `Refuse`: they differ
in what they test, not in when.

### SharedFactor

Two callers use one factor, each with a helper thread that may start or not. Every
access that takes time is a `job` with the places it reads and writes, so that
a race is two jobs that overlap on a place one of them writes. A factor's content is
the set of changes made to it; a panel's content is the sequence of solves done
to it. `Ensure` is `chol_ensure_ldl` up to the decision, `Converted` and
`ConvertFails` its two ends; the lock is held in between. `Claim`/`Solved` are
a panel of `*_solve_one`; `stage`, `coff` and `k` are `s`, `coff` and `k` of
`chol_apply_solves`, `In` and `Out` its alternating buffers, which keep what an
earlier call of the thread left in them. `mode_chain` is flat, as in the code, so a
chain is found by its offset; `Starts` says where each one should start. `ClaimPath`, `DropRows` and `PathDone` are a
path of `argmax_logprob`, as far as the factor is concerned: rows are deleted from a
copy, but the ordering (`Shared::Perm`, `ghk.cpp:694`) is read off the shared LDL' copy
until the path is done, so the path's read of it lasts that long.

### PrimeField, FactorReads, ArgmaxPath

What these algorithms get wrong, if they do, is which number is multiplied with
which: an index one too far, a buffer overwritten too soon, a row in the wrong order.
Rounding is not what is checked. So numbers are those of the field with `Prime`
elements: equal is equal, division is exact, and a wrong index gives a wrong
number as surely as with reals. The squares of the field play the positive numbers:
with `Prime % 4 = 3` each has one root that is a square itself, so `Positive`,
`Sqrt` and the branches on "not positive definite" work as in the code (a matrix is
"indefinite" when a pivot is not a square; that happens about every other time, so
both branches are taken at every place that tests a pivot). A logarithm stands for
the number it is taken of, and a sum of logarithms for a product.

`FactorReads` is given factors (what CHOLMOD, KLU and UMFPACK return is external)
and compares what is read off them with the definition: cofactors and minors.
`Supernode` and `SimplicialColumn` are one turn of the loop over supernodes or
columns, last first; entries not computed yet are `None`, so that reading one shows.

`ArgmaxPath` follows `path_logprob` phase by phase (`ReadCompetitor`, `DropRows`,
`Schur`, `RankOne`, `Draw`, `EndDraws`, `Undo`), with `wk` the thread's work arrays,
which keep what the last path left. The reference is `DenseFactor`: the covariance of
the differences, built from the definition and factored densely. There is one
draw; what the normal distribution does to it enters as a slope and an offset
that are left open (`Draws`), which is all that the gradient sees of it.

### SobolTable, SobolDraws

`kRows` is the data of `sobol_directions.h`, all 255 rows. A word is the set of
positions of its ones, so `xor` is the symmetric difference, and `Leading` is the number
that its first digits are. The hash `mix64` is an arbitrary function of the node of the
digit tree (`Hashes`), and of the draw (`Owns`): of a draw's own hash, `uniform` takes
all the digits and `step_uniforms` those below the 32 of the point. `Rounded` is the
conversion to a double, with round-to-even.

## Runs

All finish in seconds to a few minutes. Deadlock is checked except where noted.

| Run | Instance | Shows |
|---|---|---|
| `MCFactorCache_safety` | KLU, 2 threads, 3 matrices (two collide, one NaN), 3 storages, caps 1 and 2, 1 token, 1 leak | the safety invariants and the refinement |
| `MCFactorCache_live` | CHOLMOD, 2 threads, a good and a bad matrix that collide, cap 1 | every call is answered |
| `MCFactorCache_cap` | CHOLMOD, 2 threads, caps 1 and 2 | **finding**: a lowered cap is undone |
| `MCTokenTable_batches` | 2 threads, batches of 2 of 3 matrices of two sizes (one fails), caps 1 and 2, 2 keys | own factor or refusal; a token lasts until the cap's number of newer ones; the cap holds |
| `MCTokenTable_boundary` | the same, batches of 1 | **finding**: a token is dropped one newer token earlier than documented |
| `MCPatternRegistry` | 2 threads, 2 programs, 3 structures of one hash (one malformed), 2 settings, 1 clear | one pattern, current answers, settings apply |
| `MCWorkSharing_calls` | 3 threads, panels of 2, sizes 0, 1, 3, 5 | whole answers, no thread left, budget; calls return while the process lives |
| `MCWorkSharing_thrown` | the same | **finding**: a second `bad_alloc` ends the process |
| `MCCooCsc` | all COO patterns of up to 3 entries, up to 3 x 3, indices -1..3, both kinds | the matrix is the sum of its entries |
| `MCHandlers` | 1 caller, batches of 0 to 2 of 4 kinds of matrix, every handler | whole answers, causes of NaN and errors, nothing held, every call returns |
| `MCSharedFactor` | 2 callers with a helper each, blocks of 2 panels, 5 kinds of call, chains of 3, 0 and 2 solves | no race, one conversion, own factor, chains in order, every call returns |
| `MCNumerics`: `SobolDraws` | all 256 dimensions and one past them at 32 digits; draws of 5 digits, 2 with hashes, 3 hashes, up to 33 draws | the table is primitive, points nested, blocks balanced, no 0 or 1 |
| `MCNumerics`: `ArgmaxPath` | 4 alternatives, 2 paths of 13 kinds, field of 23, 2 kinds of draw | the path is the simulation, its sweep the derivative, indefinite is given up |
| `MCNumerics`: `FactorReads` | order 6, 4 structures x 5 fillings x 2 orderings, simplicial and supernodal; LU of order 3, all permutations | entries of the inverse; determinants and signs |

The three runs marked **finding** must end in a counterexample; the others pass.

`MCNumerics` is one run for the three algorithms that have no state in common, with
each other or with anything else. It has an instance of each, and a behaviour starts
one of them and runs it to its end (`MCInit`, `MCNext`), so its states are those of the
three instances, side by side. `ArgmaxAssumption` and `ReadsAssumption` are assumed
there, of the instances.

Why the bounds are enough:

* Two threads are what each race of the cache is between: one that holds, looks
  up or sleeps and one that builds or evicts. Three matrices give a hash
  collision and a failure at once. Three storages are one more than the caps, so
  eviction and recycling happen and the allocator can also run out. The proofs
  have no such bounds; the runs are there to find mistakes cheaply and for what
  is not proved.
* `VIEW LiveState` drops the content of storage that nothing reaches: it is only
  read again after `Begin` has overwritten it. Threads and storage are
  interchangeable (`SYMMETRY`), as are the two good matrices of one size in
  `MCTokenTable_batches`; and no liveness property is checked under
  symmetry or the view.
* Two matrices that factor let a token name the wrong one; a `b` of three rows
  is refused by tokens of matrices of two. One table is enough there, since the
  theorem `TokensAnswerOwn` covers tables that number their tokens alike.
* Two keys and a batch of two meet a cap of one: a batch that evicts its own
  first token. `MaxKeys` bounds the issues, not the table.
* One clear (`MaxClears`) is enough for a thread to remember, miss or analyse
  across it; two programs put one's store between the other's store and clear.
* Three threads are one that calls and two that race each other; sizes 0, 1, 3
  and 5 straddle the panel width and the number of threads. Of a machine of three
  threads no batch gets both several workers and a share above one, so there
  `WithinBudget` is tested one factor at a time. Four threads would be the fewest with
  both, and are too many for TLC; the theorem `ThreadsWithinBudget` is for any number.
* Three entries are the fewest with a pair of duplicates and a neighbour on
  either side in the order.
* Two callers with every kind of call beside every other are the pairs a race is
  between. Two panels give a helper something to do; three solves use both
  intermediate buffers and one of them again; the chain without solves stands between
  two others, so that a wrong offset shows.
* The table is checked whole, at its full 32 digits. Draws are cut to five digits,
  `Nested` = 2 of which have hashes and `Low` = 1 more comes from the draw's own hash,
  which is all zeros, all ones or mixed: the
  scrambling of a digit sees only digits above it, so fewer digits leave out
  repetitions of the same step, and 33 draws are one too many for the
  digits, where the code refuses.
* Four alternatives leave up to three to compare, so all of them kept, all
  competitors but one, and mixes; the ordering moves each of them. 13 kinds of path
  include bad arguments and two that are not definite; two paths in a row let the
  second see what the first left. In the field of 23 a wrong number is right by
  accident one time in 23, and each property compares many numbers over many inputs.
* Order 6 has room for supernodes of one to three columns with gaps between
  their rows; `kBlockInverseBase` = 2 makes a block of six recurse twice. Order 3 has
  every cycle type a permutation's sign can go wrong on, for rows and columns at once.
* One caller is enough in `MCHandlers`: callers share only the setting, which
  changes at any step anyway. Proofs are for any number.

`CHECK_DEADLOCK FALSE`: in `MCCooCsc` and `MCNumerics` an answer or a refusal is the
end of the behaviour; in `MCSharedFactor` callers stop after `MaxCalls` calls; in
`MCWorkSharing_calls` and `MCWorkSharing_thrown` a terminated process takes no step.
(That nobody hangs in these is `CallsReturn`.)

### Fairness

Threads that can run do run: weak fairness on the steps a thread makes of its own
once a call is under way (`Step(t)` in `FactorCache`, `Work(w)` and `Carry` in
`WorkSharing`, `Handle(c)` in `Handlers`, `CallerSteps(c)` and `WorkerSteps(w)` in
`SharedFactor`). The code has no priorities and no spin
locks; the operating system schedules its threads, and SuiteSparse's functions
return. Nothing is assumed of programs: they need not call, change settings or
clear. Nothing is assumed of the cache's mutex either, so a thread that is woken may
find the lock taken and the hash claimed again, as often as new calls come:
`AnsweredOnceCallsStop` therefore assumes, in its own statement, that from some
point on no new call is made. Of `ldl_mtx` it is assumed that a thread gets it in the
end (strong fairness of `Ensure`): with finitely many callers of finitely many
calls it is held finitely often. Wakeups without cause may happen but are not
counted on.

Each property of a passing run is backed by a mutant: a plausible wrong version of a modelled
definition (`[mutant of ...]` in the modules, listed in `PROJECT.json`) under which
TLC finds it violated.

## Theorems

Proved with TLAPS for every value of the constants that meets the module's named
assumption (`CacheAssumption`, `TokenAssumption`, `RegistryAssumption`,
`WorkAssumption`, `HandlerAssumption`, `CooAssumption`, `SharedAssumption`,
`DrawsAssumption`, `TableAssumption`). The first
six say only that sets are sets of the right kind, caps are positive and `None` is no
value, and `DrawsAssumption` that hashes have as many digits as are taken from them.
`TableAssumption` is what the proofs need of the table in `sobol_directions.h`: degrees
are at least 1 and initial numbers are odd. It is about constants of the code, and TLC
evaluates it on all of them. `SharedAssumption` also says what calls look like: a mode is one of
two good ones or bad (-1); `mode_chain` is at least as long as `chain_lens` asks for,
as `factor_solve` builds both from one list (`__init__.py:1691-1704`); an updown has
one solve, whose mode its handler looks at before it asks for a factor
(`cholmod_handlers.cpp:791`).

* **FactorCacheProofs.** Types; `OneBuilderPerHash`; `HeldFactorsExact`;
  `BuilderOwnsItsStorage`; `NoDuplicateSlots`; `CacheWithinCaps`;
  `SleepersHaveAWaker`. The core is that the count of `inFlight[h]` is the presence
  of one builder of hash h: claims, holders and counts are tied for each thread by
  its `pc`. That storage being written is named by its builder alone makes
  recycling safe; that a builder of v excludes slots of v makes insertion unique.
  `CacheImplementsOracle`: `Spec => Oracle!Spec`, with
  the request as `arg` and the reply read off `pc`, `answer` and `content`. Every
  step is a step of the oracle or a stutter. It needs the invariant for one
  thing above all: no step changes `content[own[t]]` while t is `using` it.
* **TokenTableProofs.** Types and `AnswersOwnFactors`. The invariant that carries it
  joins tokens to the table: a key below `nextKey` that is in a table names what
  every token with that key and issuer was issued for, and keys are issued once.
  `FreshTokensResolve` and the action property `IssuingTrims` rest on a second one,
  `Window`: the keys of a table are an unbroken run that ends with the newest, and
  every key since the last clear that is missing from it has, for some cap, that
  many newer ones. `TrimmedRun` is why: trimming a run to the newest n leaves a run.
  `TablesImplementLedger`: `Spec => Ledger!Spec`, from both and from `Presented`, that a
  call presents only tokens the program was given. An issue is fresh because every key
  in a table, in the program's hands or in a call is below the next (`IssueIsFresh`), and
  its own entry survives the trim because it is the newest (`NewestKept`).
* **PatternRegistryProofs.** All four safety properties. The invariant follows
  generations through the lock (`RegistryInv`): the mutex is held by the one thread
  that analyses or program that clears (`Locks`); a pattern anyone has hold of that
  was born in the present generation is in the registry, unless a clear is between
  its two steps, when the registry is empty (`Births`); what a thread compares or
  answers with is no older than the generation it read (`Calls`); and a pattern of
  the present generation has the setting in force, or whoever changed that has yet
  to clear (`Settled`).
* **WorkSharingProofs.** Types; `EachItemOnce`; `AnswerIsWhole`; `NoneLeftBehind`.
  An item below the cursor is in one worker's hand or finished, unless something
  broke (`Hands`, `Coverage`); and what broke is recorded, or its worker is about to
  record it (`Errors`). `WithinBudget` and `ColumnsSolvedOnce` add `WidthInv`: threads
  times share is at most the machine for as long as a batch lasts, and only elements
  of a batch have helpers, one fewer than the share (`JobFits`, `HelpersFit`); then
  those at work inject into threads x share. A column is in the panel of its
  quotient and in no other (`PanelsPartition`), for any count and any width.
* **CooCscProofs.** `SortedAndPacked` and `MatrixIsSumOfEntries`. Everything is said
  by rank: `Opened(t)` is the set of positions before t that differ from their
  predecessor, and the slot of an entry is the number of openings before it. The sort
  makes equal entries neighbours, so an opening is a new matrix entry
  (`Counting`); the column pointers become the openings of all columns
  before (`Summing`, `Pointers`); and after t entries a slot of the buffer holds the sum
  of those of the t that point to it (`Partial`). Sums over sets are folds in an order
  that is not specified. That the order does not matter (`SumTakes`, `SumAdds`) is proved
  by taking a smallest set for which it would (`SmallestBad`, from the
  well-foundedness of strict inclusion on finite sets).
* **SharedFactorProofs.** Types; `ConvertedOnce`; `AnswersOwnFactor`; `ChainComposes`;
  `NoRace`. `HoldsLock` ties `ldl_mtx` to the one caller that converts: while it is held
  for that there is no copy, and who is past it has one. `JobOK` says for every place
  a caller can be at which access its workers can be in the middle of, and `Apart`
  that no panel is in two workers' hands. Two accesses then meet only at the
  factor or its copy, which no job writes but the conversion. `Position` says that
  `coff` is where chain k starts; `Blocks` that the chains before k are done, and of
  chain k, for each panel, the first `stage` solves, and one more where a worker has been. The
  buffers alternate, so a solve never reads what it overwrites, nor what an
  earlier call left.
* **HandlersProofs.** Types; `AnswersAreWhole`; `NaNHasCause`; `RaisingHasCause`;
  `NothingHeldAfter`. The invariant `HandlerInv` says, element by element (`Stage`), what
  request, reply and outputs may be at each place of the work; a step of one
  element is shown to disturb no other (`WorkIsApart`). `HandlersUseOracle`:
  `Spec => Factors!Spec`, every step asks, replies, recalls or gives back for one element,
  or is none of the oracle's.
* **SobolDrawsProofs.** `NeverZeroNorOne`: what a draw is before it is scaled, 2h + 1,
  is below two to the `Mantissa`, so nothing is rounded (`ToUniformExact`) and the draw
  is as far from 0 and 1 as half its last digit. `DirectionNumbersOpen`: the last one of a
  direction number is at its own digit. Initial numbers put it there because they are
  odd (`ScaledOpens`), and of the terms of the recurrence only the shifted one reaches so
  far (`RecurrenceOpens`). `DrawsAreBalanced` follows. Of the draw numbers on the way from
  one draw to another, just one is divided by the highest power of two that divides any
  (`EvenBetween`: between two odd multiples there is an even one). So the points differ in
  the digit of that direction number, which enters once, and in no later one, since the
  others on the way open earlier (`NextPoint`). In an aligned block of 2^m draws that
  power is below 2^m, so no two points agree in their first m digits (`BlockApart`).
  Scrambling flips a digit by the digits above it, so points whose scrambled digits agree
  that far agreed themselves (`ScrambleTells`); and 2^m draws with different
  first m digits have them all (`AllValues`). Powers of two and the numbers that digits stand
  for are recursive functions; what is proved of them goes by a least counterexample
  (`Induction`, from the well-foundedness of < on the naturals).

Types are proved, and no run repeats them, for `FactorCache`, `TokenTable`,
`WorkSharing`, `Handlers`, `SharedFactor` and, inside `RegistryInv`, `CscInv` and `Shape`,
`PatternRegistry`, `CooCsc` and `SobolDraws`; `FactorCache.TypeOK` is also what keeps the rotation
cursor within a cache that was made shorter. `OneBuilderPerHash` is proved and has no run
of its own either, since a second builder of a matrix shows in `NoDuplicateSlots`. Nor has
`ImplementsLedger`: evaluated on every step of two-item batches it makes the token run
many times longer (with `MaxBatch` = 1 TLC passes it at once), and what it adds to
`AnswersOwnFactors` and `FreshTokensResolve` is that nothing else shows.

Of what the runs check, every safety property of the cache, the tokens, the registry,
the work sharing, the CSC builders, the handlers and the shared factor is proved, and
of the draws everything but the primitivity of the table's polynomials.
Only model-checked are:

* the liveness properties (`AnsweredOnceCallsStop`, `CallsReturn`, `CallsAnswered`):
  fairness and ENABLED are beyond the prover;
* `FactorReads` and `ArgmaxPath`. They compare recursions (determinants, factors, the
  reverse sweep) with what they should compute, over the elements of a field that
  `PrimeField` enumerates; a general proof is linear algebra (the block inverse, the
  rank-one updates), for which the library has no facts to start from, and the
  determinants are recursive operators, which the prover does not read;
* `TableIsAdmissible`, as far as it says that the table's polynomials are primitive and
  all different: facts about constants, and the run is the whole table at its full
  width. Its first clause is `DirectionNumbersOpen`.

## Findings

Three runs must end in a counterexample.

* `MCFactorCache_cap`, `CapBoundsMemory`: `*_get_factor` reads the cap before
  `cache_factor` takes the lock, so an insert under way when the cap is lowered puts the
  cache above it, and nothing trims it until the cap is next set (`common.h:401`: "the
  cap is a bound on memory").
* `MCTokenTable_boundary`, `LastsAsDocumented`: a table keeps n tokens, the newest among
  them, so a token is stale once exactly n newer ones were issued (`common.h:471`). The
  message it is refused with says "more than set_token_cache_size() newer tokens were
  created since this one" (`common.h:474-476`), and the docstring allows to hold one
  "across at most n newer factorizations" (`__init__.py:1462-1463`). The trace has a cap of
  1 and one newer token. `FreshTokensResolve`, in `MCTokenTable_batches`, is the promise
  that the code does keep, for one newer token less.
* `MCWorkSharing_thrown`, `FailuresReachTheCaller`: `guarded` catches what a body throws
  and then allocates for the message (`common.h:113`). If memory runs out there too, which
  is likely when it was a `bad_alloc` that was caught, the second exception leaves the
  thread and the process ends, where the comment says that "an exception must not leave
  a spawned thread" and that "a failed allocation has to reach the caller the same way from
  any thread" (`common.h:94-97`). A `bad_alloc` in `std::thread`'s constructor is no
  `std::system_error` either (`common.h:123`): it leaves `run_on_threads` while the
  threads already spawned are joinable, with the same end (`SpawnOutOfMemory`).

Differences noticed that have no run of their own: a batch worker restores
`t_thread_share` on the line after its loop (`common.h:209`), so a body that throws
leaves the share on a thread of XLA's pool (in `WorkSharing`, `BodyThrows` passes
`RestoreShare` by); `set_token_cache_size` trims
only when the next token is issued, unlike the other caps; an insert that was
under way during `clear_cache` puts a factor in a pattern that has left the
registry, where it stays as long as a thread remembers the pattern; comments speak
of the oldest entry being evicted, while the cursor goes round; a failed token
passed with a `b` of the wrong size is answered with NaN and not refused.

## External code

SuiteSparse, the C++ library and XLA are modelled by what the code here relies on:
a status or a non-finite log-determinant tells a failed factorization (a downdate
that loses definiteness shows as `CHOLMOD_NOT_POSDEF` or in the log-determinant);
allocations may fail; a condition variable may wake for no reason; `std::sort` is
not stable; handlers may be called from any thread at any time.

## Not modelled

* Rounding, overflow and cancellation in doubles; the rational approximations of
  the normal quantile and of the scaled error function in `ghk.cpp`, and the
  log-mean over draws (one draw is modelled); `rcond`'s estimates, which the
  libraries make. They are functions of doubles without a
  state, which the repository's tests compare with references.
* `vmap`, JVP and transposition rules of `__init__.py`, and the choice of
  `lu_backend`: traced Python that builds expressions and keeps no state.
* `pytensor.py`: wrappers without state. Registration of handlers, introspection
  counters and build files: nothing a computation depends on.
* Weak memory: atomics are sequentially consistent in the model. The code's
  `relaxed` accesses are of single settings and counters and of the generation,
  which is only compared; what is published is published by mutexes.

## Plan

In order of importance; the first six came first because everything else reads
factors through them.

1. `FactorOracle`, `FactorCache`, proofs and refinement - done
2. `TokenTable`, proofs - done
3. `PatternRegistry`, proofs - done
4. `WorkSharing`, proofs - done
5. `CooCsc`, proofs - done
6. `Handlers` over the oracle, proofs - done
7. `SharedFactor`: solve chains, the LDL' copy, updates; proofs - done
8. `FactorReads`: selected inverses, log-determinants, signs - done
9. `ArgmaxPath`, `SobolTable`, `SobolDraws` - done
10. Token invariants: `IssuingTrims` and `FreshTokensResolve` - done
11. `InsideUnitInterval` and `BlocksBalanced` of the draws - done
12. `TokenLedger`, a token table as a map from tokens to factors that only forgets, and
    its refinement; the handlers as callers of the oracle - done

Left open: a proof of `ArgmaxPath` and `FactorReads`, which needs a theory of matrices
over a field before the first step of either.
