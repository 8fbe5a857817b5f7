----------------------------- MODULE WorkSharing -----------------------------
(***************************************************************************)
(* How a call spreads its work over threads (src/src/cpp/common.h):        *)
(* run_on_threads and its callers for_each_batch_element, for_each_panel   *)
(* and, in ghk.cpp, the paths of argmax_logprob.                           *)
(*                                                                         *)
(* One thread of XLA's pool makes one call after another.  Worker 0 is     *)
(* that thread; the others are spawned for a call and joined at its end.   *)
(* Calls of different threads share nothing here but the number of         *)
(* processors.  An element of a batch may itself be a solve of many        *)
(* columns, whose panels run on further threads, the helpers; that inner   *)
(* call is one of this same module, so only its width is kept here.        *)
(***************************************************************************)
EXTENDS Integers, FiniteSets

CONSTANTS
  NumThreads,  \* sparsax_num_threads()
  kPanel,      \* columns per panel
  Sizes,       \* elements of a batch, paths, or columns of a solve
  Worths,      \* element_work * batch / g_batch_work_per_thread
  NoJob

\* A run_on_threads: its items, the threads it asks for, and their share.
Jobs ==
  [kind : {"batch", "panels", "paths"}, size : Nat, count : Nat,
   threads : 1..NumThreads, share : 0..NumThreads]

ASSUME WorkAssumption ==
  /\ NumThreads \in Nat \ {0}
  /\ kPanel \in Nat \ {0}
  /\ Sizes \subseteq Nat
  /\ Worths \subseteq Nat
  /\ NoJob \notin Jobs

Workers == 0..(NumThreads - 1)

VARIABLES
  job,         \* the call under way
  pool,        \* how many threads it spawned
  cursor,      \* next: the item to be taken up next
  failed,      \* run_on_threads's flag
  err,         \* and its error
  at,          \* where each worker is
  item,        \* the item it has in hand
  share,       \* t_thread_share, of each thread
  saved,       \* what a batch worker restores it to
  helpers,     \* threads its element's panels run on, besides itself
  ran,         \* history: how often each item was finished
  broke,       \* history: how items ended that were not
  terminated   \* std::terminate was called

jobVars == <<job, pool, cursor, failed, err>>
workerVars == <<at, item, share, saved, helpers>>
vars == <<jobVars, workerVars, ran, broke, terminated>>

Least(a, b) == IF a <= b THEN a ELSE b
Most(a, b) == IF a >= b THEN a ELSE b

Init ==
  /\ job = NoJob
  /\ pool = 0
  /\ cursor = 0
  /\ failed = FALSE
  /\ err = "none"
  /\ at = [w \in Workers |-> "idle"]
  /\ item = [w \in Workers |-> 0]
  /\ share = [w \in Workers |-> 0]
  /\ saved = [w \in Workers |-> 0]
  /\ helpers = [w \in Workers |-> 0]
  /\ ran = <<>>
  /\ broke = {}
  /\ terminated = FALSE

-----------------------------------------------------------------------------
(* How many threads.                                                       *)

\* thread_budget, on worker w
ThreadBudget(w) == IF share[w] # 0 THEN share[w] ELSE NumThreads

\* panel_threads, on worker w
PanelThreads(w, nrhs) == Most(1, Least(ThreadBudget(w), nrhs \div kPanel))

\* for_each_batch_element's T
BatchThreads(n, worth, budget) == Most(1, Least(worth, Least(n, budget)))

\* [mutant of BatchShare] every worker may use them all
WholeBudget(budget, T) == budget

\* for_each_batch_element's share
BatchShare(budget, T) == Most(1, budget \div T)

\* [mutant of Panels] the last, narrower panel is forgotten
WholePanels(nrhs) == nrhs \div kPanel

\* for_each_panel's panels
Panels(nrhs) == (nrhs + kPanel - 1) \div kPanel

\* The columns of panel p of nrhs.
Columns(p, nrhs) ==
  LET j0 == p * kPanel
  IN j0..(j0 + Least(kPanel, nrhs - j0) - 1)

-----------------------------------------------------------------------------
(* A call begins.                                                          *)

Begin(kind, size, count, T, shr) ==
  /\ at[0] = "idle"
  /\ job' = [kind |-> kind, size |-> size, count |-> count, threads |-> T,
             share |-> shr]
  /\ pool' = 0
  /\ cursor' = 0
  /\ failed' = FALSE
  /\ err' = "none"
  /\ at' = [at EXCEPT ![0] = "spawning"]
  /\ ran' = [i \in 0..(count - 1) |-> 0]
  /\ broke' = {}
  /\ UNCHANGED <<item, share, saved, helpers, terminated>>

\* for_each_batch_element
Batch(n, worth) ==
  LET budget == ThreadBudget(0)
      T == BatchThreads(n, worth, budget)
  IN Begin("batch", n, n, T, BatchShare(budget, T))

\* for_each_panel: the backends call it for two panels and up.
Solve(nrhs) ==
  LET T == PanelThreads(0, nrhs)
  IN T > 1 /\ Begin("panels", nrhs, Panels(nrhs), T, 0)

\* argmax_logprob: run_on_threads over the paths.
Paths(n) ==
  /\ n > 0
  /\ Begin("paths", n, n, Most(1, Least(NumThreads, n)), 0)

Spawn ==
  /\ at[0] = "spawning"
  /\ pool < job.threads - 1
  /\ pool' = pool + 1
  /\ at' = [at EXCEPT ![pool + 1] = "start"]
  /\ share' = [share EXCEPT ![pool + 1] = 0]
  /\ UNCHANGED <<job, cursor, failed, err, item, saved, helpers, ran, broke,
                 terminated>>

\* std::system_error: the threads that run take all the work.  Also the way out
\* of the loop when all are spawned.
SpawnNoMore ==
  /\ at[0] = "spawning"
  /\ at' = [at EXCEPT ![0] = "start"]
  /\ UNCHANGED <<jobVars, item, share, saved, helpers, ran, broke, terminated>>

\* std::thread's constructor allocates; what it throws then is not caught, and
\* destroys the pool.  Threads in it that were not joined end the process.
SpawnOutOfMemory ==
  /\ at[0] = "spawning"
  /\ pool < job.threads - 1
  /\ IF pool = 0
     THEN /\ at' = [at EXCEPT ![0] = "threw"]
          /\ UNCHANGED terminated
     ELSE /\ terminated' = TRUE
          /\ UNCHANGED at
  /\ UNCHANGED <<jobVars, item, share, saved, helpers, ran, broke>>

-----------------------------------------------------------------------------
(* A worker: `guarded`, and the bodies it runs.                            *)

\* A batch worker takes its share of the threads.
Start(w) ==
  /\ at[w] = "start"
  /\ at' = [at EXCEPT ![w] = "check"]
  /\ IF job.kind = "batch"
     THEN /\ saved' = [saved EXCEPT ![w] = share[w]]
          /\ share' = [share EXCEPT ![w] = job.share]
     ELSE UNCHANGED <<saved, share>>
  /\ UNCHANGED <<jobVars, item, helpers, ran, broke, terminated>>

\* make_worker, or the workspace of a path, allocates and may throw.
StartThrows(w) ==
  /\ at[w] = "start"
  /\ job.kind # "batch"
  /\ at' = [at EXCEPT ![w] = "caught"]
  /\ broke' = broke \cup {"thrown"}
  /\ UNCHANGED <<jobVars, item, share, saved, helpers, ran, terminated>>

\* !failed.load() && ...
Check(w) ==
  /\ at[w] = "check"
  /\ at' = [at EXCEPT ![w] = IF failed THEN "finish" ELSE "take"]
  /\ UNCHANGED <<jobVars, item, share, saved, helpers, ran, broke, terminated>>

\* [mutant of Take] the cursor is read, and moved on at a later moment
TakeTorn(w) ==
  /\ at[w] = "take"
  /\ item' = [item EXCEPT ![w] = cursor]
  /\ \/ cursor' = cursor + 1
     \/ \E v \in Workers \ {w} : at[v] = "take" /\ cursor' = cursor
  /\ \/ /\ cursor < job.count
        /\ at' = [at EXCEPT ![w] = "body"]
     \/ /\ cursor >= job.count
        /\ at' = [at EXCEPT ![w] = "finish"]
  /\ UNCHANGED <<job, pool, failed, err, share, saved, helpers, ran, broke,
                 terminated>>

\* ... (s = next.fetch_add(1)) < batch.  An element of a batch may have columns
\* enough to be worth helpers.
Take(w) ==
  /\ at[w] = "take"
  /\ cursor' = cursor + 1
  /\ \/ /\ cursor < job.count
        /\ item' = [item EXCEPT ![w] = cursor]
        /\ at' = [at EXCEPT ![w] = "body"]
        /\ \E n \in IF job.kind = "batch" THEN Sizes ELSE {0} :
             helpers' = [helpers EXCEPT ![w] = PanelThreads(w, n) - 1]
     \/ /\ cursor >= job.count
        /\ at' = [at EXCEPT ![w] = "finish"]
        /\ UNCHANGED <<item, helpers>>
  /\ UNCHANGED <<job, pool, failed, err, share, saved, ran, broke, terminated>>

BodyDone(w) ==
  /\ at[w] = "body"
  /\ ran' = [ran EXCEPT ![item[w]] = @ + 1]
  /\ helpers' = [helpers EXCEPT ![w] = 0]
  /\ at' = [at EXCEPT ![w] = "check"]
  /\ UNCHANGED <<jobVars, item, share, saved, broke, terminated>>

\* A body returns an error: the worker's loop ends.
BodyFails(w) ==
  /\ at[w] = "body"
  /\ helpers' = [helpers EXCEPT ![w] = 0]
  /\ broke' = broke \cup {"error"}
  /\ at' = [at EXCEPT ![w] = "failing"]
  /\ UNCHANGED <<jobVars, item, share, saved, ran, terminated>>

\* A body throws: `guarded` catches it, past the worker's loop.
BodyThrows(w) ==
  /\ at[w] = "body"
  /\ helpers' = [helpers EXCEPT ![w] = 0]
  /\ broke' = broke \cup {"thrown"}
  /\ at' = [at EXCEPT ![w] = "caught"]
  /\ UNCHANGED <<jobVars, item, share, saved, ran, terminated>>

\* t_thread_share = saved, at the end of a batch worker's loop.
RestoreShare(w) ==
  IF job.kind = "batch"
  THEN share' = [share EXCEPT ![w] = saved[w]]
  ELSE UNCHANGED share

Finish(w) ==
  /\ at[w] = "finish"
  /\ RestoreShare(w)
  /\ at' = [at EXCEPT ![w] = "done"]
  /\ UNCHANGED <<jobVars, item, saved, helpers, ran, broke, terminated>>

\* [mutant of Record] the flag alone
RecordSilently(e) == failed' = TRUE /\ UNCHANGED err

\* record: the first error stays.
Record(e) ==
  /\ err' = IF err = "none" THEN e ELSE err
  /\ failed' = TRUE

RecordError(w) ==
  /\ at[w] = "failing"
  /\ RestoreShare(w)
  /\ Record("error")
  /\ at' = [at EXCEPT ![w] = "done"]
  /\ UNCHANGED <<job, pool, cursor, item, saved, helpers, ran, broke,
                 terminated>>

RecordThrown(w) ==
  /\ at[w] = "caught"
  /\ Record("thrown")
  /\ at' = [at EXCEPT ![w] = "done"]
  /\ UNCHANGED <<job, pool, cursor, item, share, saved, helpers, ran, broke,
                 terminated>>

\* "sparsax: " + what() allocates too, in the handler itself: what it throws
\* leaves a thread, or on worker 0 destroys the pool.
MessageOutOfMemory(w) ==
  /\ at[w] = "caught"
  /\ IF w = 0 /\ pool = 0
     THEN /\ at' = [at EXCEPT ![w] = "threw"]
          /\ UNCHANGED terminated
     ELSE /\ terminated' = TRUE
          /\ UNCHANGED at
  /\ UNCHANGED <<jobVars, item, share, saved, helpers, ran, broke>>

-----------------------------------------------------------------------------
(* A call ends.                                                            *)

\* [mutant of AllJoined] the caller does not wait
NotJoined == at[0] = "done"

\* [mutant of AllJoined] threads that could not be started are waited for
AllWantedJoined ==
  /\ at[0] = "done"
  /\ \A w \in 0..(job.threads - 1) : at[w] = "done"

\* th.join() for every thread of the pool
AllJoined == \A w \in 0..pool : at[w] = "done"

Join ==
  /\ AllJoined
  /\ at' = [at EXCEPT ![0] = "returned"]
  /\ UNCHANGED <<jobVars, item, share, saved, helpers, ran, broke, terminated>>

\* The thread goes back to XLA's pool, and the spawned ones are gone.
Return ==
  /\ at[0] \in {"returned", "threw"}
  /\ job' = NoJob
  /\ pool' = 0
  /\ cursor' = 0
  /\ failed' = FALSE
  /\ err' = "none"
  /\ at' = [w \in Workers |-> "idle"]
  /\ item' = [w \in Workers |-> 0]
  /\ saved' = [w \in Workers |-> 0]
  /\ ran' = <<>>
  /\ broke' = {}
  /\ UNCHANGED <<share, helpers, terminated>>

-----------------------------------------------------------------------------
Call ==
  \/ \E n \in Sizes, worth \in Worths : Batch(n, worth)
  \/ \E n \in Sizes : Solve(n) \/ Paths(n)

Work(w) ==
  \/ Start(w) \/ StartThrows(w) \/ Check(w) \/ Take(w)
  \/ BodyDone(w) \/ BodyFails(w) \/ BodyThrows(w)
  \/ Finish(w) \/ RecordError(w) \/ RecordThrown(w) \/ MessageOutOfMemory(w)

Carry == Spawn \/ SpawnNoMore \/ SpawnOutOfMemory \/ Join \/ Return

\* A process that was terminated takes no further step.
Next == ~terminated /\ (Call \/ Carry \/ \E w \in Workers : Work(w))

Spec == Init /\ [][Next]_vars

\* Threads that are runnable run, and bodies come to an end; a call need not be
\* made.
FairSpec ==
  /\ Spec
  /\ WF_vars(~terminated /\ Carry)
  /\ \A w \in Workers : WF_vars(~terminated /\ Work(w))

-----------------------------------------------------------------------------
Busy == {"start", "check", "take", "body", "failing", "caught", "finish"}

TypeOK ==
  /\ job \in Jobs \cup {NoJob}
  /\ pool \in 0..(NumThreads - 1)
  /\ cursor \in Nat
  /\ failed \in BOOLEAN
  /\ err \in {"none", "error", "thrown"}
  /\ at \in [Workers ->
               Busy \cup {"idle", "spawning", "done", "returned", "threw"}]
  /\ item \in [Workers -> Nat]
  /\ share \in [Workers -> 0..NumThreads]
  /\ saved \in [Workers -> 0..NumThreads]
  /\ helpers \in [Workers -> 0..(NumThreads - 1)]
  /\ DOMAIN ran = IF job = NoJob THEN {} ELSE 0..(job.count - 1)
  /\ \A i \in DOMAIN ran : ran[i] \in Nat
  /\ broke \subseteq {"error", "thrown"}
  /\ terminated \in BOOLEAN

\* No two workers have the same item in hand, and nobody has one in hand that was
\* finished before: elements share no lock because each has its own output
\* ("Elements are independent: each has its own factor and output").
EachItemOnce ==
  /\ \A v, w \in Workers :
        at[v] = "body" /\ at[w] = "body" /\ item[v] = item[w] => v = w
  /\ \A w \in Workers : at[w] = "body" => ran[item[w]] = 0
  /\ \A i \in DOMAIN ran : ran[i] <= 1

\* A call that returns no error has finished every item, however many of its
\* threads could be started ("the ones running finish the work"), and one in
\* which any item failed or threw returns the error of one that did.
AnswerIsWhole ==
  at[0] = "returned" =>
    IF err = "none"
    THEN broke = {} /\ \A i \in 0..(job.count - 1) : ran[i] = 1
    ELSE err \in broke

\* Of the columns of a solve, none is left out and none is solved twice.
ColumnsSolvedOnce ==
  at[0] = "returned" /\ job.kind = "panels" /\ err = "none" =>
    \A j \in 0..(job.size - 1) :
      Cardinality({p \in DOMAIN ran : j \in Columns(p, job.size)}) = 1

\* A call that has returned has nobody left who reads its stack.
NoneLeftBehind ==
  at[0] \in {"idle", "returned", "threw"} =>
    \A w \in Workers : at[w] \notin Busy /\ helpers[w] = 0

\* The threads of a call, those its elements' solves run on included, are never
\* more than the threads it may use: a batch of many-column solves "divides the
\* machine rather than multiplying it".  <<w, k>> is worker w's k-th helper, and
\* <<w, 0>> the worker itself.
WithinBudget ==
  Cardinality({t \in Workers \X Workers : at[t[1]] \in Busy /\ t[2] <= helpers[t[1]]})
    <= NumThreads

\* As long as the process lives, every call comes to an end, whichever threads
\* start, fail or throw.  That a failure leaves it alive is a property of its
\* own, the next one.
CallsReturn == []~terminated => (at[0] = "spawning" ~> at[0] = "idle")

\* What is thrown on a thread of a call reaches the caller, as the error that
\* the call returns or as an exception on the caller's own thread: "a failed
\* allocation has to reach the caller the same way from any thread", since an
\* exception that leaves a spawned one "would take the whole process with it".
\* The code does not keep this where memory runs out a second time.
FailuresReachTheCaller ==
  \A w \in Workers :
    at[w] = "caught" ~> (at[0] = "returned" /\ err # "none") \/ at[0] = "threw"
=============================================================================
