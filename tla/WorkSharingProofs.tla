-------------------------- MODULE WorkSharingProofs --------------------------
(***************************************************************************)
(* What TLAPS proves of WorkSharing, for any number of threads, any sizes  *)
(* of batches and solves and any panel width.                              *)
(***************************************************************************)
EXTENDS WorkSharing, FiniteSetTheorems, TLAPS

\* Who can be where: threads beyond the pool do not exist, and nobody outlives
\* the call.
Shape ==
  /\ at[0] = "idle" <=> job = NoJob
  /\ at[0] \in {"idle", "threw"} => pool = 0
  /\ job # NoJob => pool <= job.threads - 1
  /\ \A w \in Workers :
        /\ w > pool => at[w] = "idle"
        /\ w \in 1..pool => at[w] \in Busy \cup {"done"}
        /\ at[0] = "returned" /\ w \in 1..pool => at[w] = "done"
        /\ at[w] # "body" => helpers[w] = 0

\* The item in a worker's hand is its own, taken from the cursor and unfinished.
Hands ==
  /\ \A v, w \in Workers :
        at[v] = "body" /\ at[w] = "body" /\ item[v] = item[w] => v = w
  /\ \A w \in Workers : at[w] = "body" =>
        item[w] < cursor /\ item[w] \in DOMAIN ran /\ ran[item[w]] = 0
  /\ \A i \in DOMAIN ran : ran[i] <= 1 /\ (i >= cursor => ran[i] = 0)

\* What went wrong is recorded, or about to be.
Errors ==
  /\ failed <=> err # "none"
  /\ err # "none" => err \in broke
  /\ broke # {} =>
       failed \/ at[0] = "threw"
              \/ \E w \in Workers : at[w] \in {"failing", "caught"}
  /\ \A w \in Workers :
        /\ at[w] = "failing" => "error" \in broke
        /\ at[w] = "caught" => "thrown" \in broke

\* Unless something went wrong, an item that was taken is finished or in hand,
\* and a worker stops only when there are no more.
Coverage ==
  /\ broke = {} =>
       \A i \in DOMAIN ran : i < cursor =>
         ran[i] = 1 \/ \E w \in Workers : at[w] = "body" /\ item[w] = i
  /\ \A w \in Workers : at[w] \in {"finish", "done", "returned"} =>
       failed \/ cursor >= job.count

WorkInv == TypeOK /\ Shape /\ Hands /\ Errors /\ Coverage

-----------------------------------------------------------------------------
\* std::min and std::max.
LEMMA LeastMost ==
  ASSUME NEW a \in Int, NEW b \in Int
  PROVE  /\ Least(a, b) \in {a, b} /\ Least(a, b) <= a /\ Least(a, b) <= b
         /\ Most(a, b) \in {a, b} /\ Most(a, b) >= a /\ Most(a, b) >= b
  BY DEF Least, Most

\* A share times the number of shares is at most the whole.
LEMMA Quotient ==
  ASSUME NEW a \in Nat, NEW b \in Nat \ {0}
  PROVE  a \div b \in 0..a /\ b * (a \div b) <= a
  OBVIOUS

\* The workers of a batch and their shares, taken together, never exceed the
\* budget the batch began with.
LEMMA SharesFit ==
  ASSUME NEW n \in Nat, NEW worth \in Nat, NEW budget \in Nat \ {0}
  PROVE  /\ BatchThreads(n, worth, budget) \in 1..budget
         /\ BatchShare(budget, BatchThreads(n, worth, budget)) \in 1..budget
         /\ BatchThreads(n, worth, budget)
              * BatchShare(budget, BatchThreads(n, worth, budget)) <= budget
<1> DEFINE T == BatchThreads(n, worth, budget)
<1>1. T \in 1..budget
  BY LeastMost DEF BatchThreads, Least, Most
<1>2. budget \div T \in 0..budget /\ T * (budget \div T) <= budget
  BY <1>1, Quotient
<1>3. CASE budget \div T >= 1
  BY <1>1, <1>2, <1>3 DEF BatchShare, Most
<1>4. CASE budget \div T = 0
  BY <1>1, <1>2, <1>4 DEF BatchShare, Most
<1> QED
  BY <1>1, <1>2, <1>3, <1>4

\* No call asks for more threads than it may use.
LEMMA ThreadsFit ==
  ASSUME TypeOK, NEW w \in Workers, NEW n \in Nat
  PROVE  /\ ThreadBudget(w) \in 1..NumThreads
         /\ PanelThreads(w, n) \in 1..ThreadBudget(w)
         /\ PanelThreads(w, n) \in 1..NumThreads
<1>1. ThreadBudget(w) \in 1..NumThreads
  BY WorkAssumption DEF TypeOK, ThreadBudget
<1>2. n \div kPanel \in Nat
  BY Quotient, WorkAssumption
<1> QED
  BY <1>1, <1>2, WorkAssumption DEF PanelThreads, Least, Most

\* A solve has a number of panels.
LEMMA PanelsNat ==
  ASSUME NEW n \in Nat
  PROVE  Panels(n) \in Nat
  BY Quotient, WorkAssumption DEF Panels

\* A thread starts with no call and no share.
LEMMA InitWork == Init => WorkInv
  BY WorkAssumption DEF Init, WorkInv, TypeOK, Shape, Hands, Errors, Coverage,
     Workers, Busy

\* Whoever is at work has a call to work on.
LEMMA WorkerHasJob ==
  ASSUME WorkInv, NEW w \in Workers, at[w] # "idle"
  PROVE  job \in Jobs /\ job # NoJob
<1>1. pool \in Nat /\ 0 \in Workers
  BY WorkAssumption DEF WorkInv, TypeOK, Workers
<1>2. w \in Nat /\ (w = 0 \/ w <= pool)
  BY <1>1 DEF WorkInv, Shape, Workers
<1>3. at[0] # "idle"
  BY <1>1, <1>2 DEF WorkInv, Shape
<1> QED
  BY <1>3 DEF WorkInv, Shape, TypeOK

\* A thread that is not idle is in a call.
LEMMA SpawningHasJob ==
  ASSUME WorkInv, at[0] # "idle"
  PROVE  job \in Jobs
  BY DEF WorkInv, Shape, TypeOK

\* A call begins with a job of well-formed width, on an idle thread.
LEMMA CallBegins ==
  ASSUME WorkInv, Call
  PROVE  /\ job' \in Jobs /\ job' # NoJob /\ job'.count \in Nat
         /\ pool' = 0 /\ cursor' = 0 /\ failed' = FALSE /\ err' = "none"
         /\ broke' = {} /\ ran' = [i \in 0..(job'.count - 1) |-> 0]
         /\ at[0] = "idle" /\ at' = [at EXCEPT ![0] = "spawning"]
         /\ UNCHANGED <<item, share, saved, helpers, terminated>>
<1> DEFINE Begun ==
         /\ job' \in Jobs
         /\ pool' = 0 /\ cursor' = 0 /\ failed' = FALSE /\ err' = "none"
         /\ broke' = {} /\ ran' = [i \in 0..(job'.count - 1) |-> 0]
         /\ at[0] = "idle" /\ at' = [at EXCEPT ![0] = "spawning"]
         /\ UNCHANGED <<item, share, saved, helpers, terminated>>
<1>0. TypeOK /\ 0 \in Workers
  BY WorkAssumption DEF WorkInv, Workers
<1>1. ASSUME NEW n \in Sizes, NEW worth \in Worths, Batch(n, worth)
      PROVE  Begun
  <2> DEFINE budget == ThreadBudget(0)
             T == BatchThreads(n, worth, budget)
  <2>1. n \in Nat /\ worth \in Nat
    BY WorkAssumption
  <2>2. budget \in 1..NumThreads
    BY <1>0, ThreadsFit, <2>1
  <2>3. T \in 1..NumThreads /\ BatchShare(budget, T) \in 0..NumThreads
    <3>1. budget \in Nat \ {0}
      BY <2>2
    <3>2. T \in 1..budget /\ BatchShare(budget, T) \in 1..budget
      BY <2>1, <3>1, SharesFit
    <3> HIDE DEF budget, T
    <3> QED
      BY <2>2, <3>2, WorkAssumption
  <2>4. job' \in Jobs /\ job'.count = n
    BY <1>1, <2>1, <2>3 DEF Batch, Begin, Jobs
  <2> QED
    BY <1>1, <2>4 DEF Batch, Begin
<1>2. ASSUME NEW n \in Sizes, Solve(n)
      PROVE  Begun
  <2>1. n \in Nat
    BY WorkAssumption
  <2>2. PanelThreads(0, n) \in 1..NumThreads
    BY <1>0, <2>1, ThreadsFit
  <2>3. Panels(n) \in Nat
    BY <2>1, PanelsNat
  <2>4. job' \in Jobs /\ job'.count = Panels(n)
    BY <1>2, <2>1, <2>2, <2>3, WorkAssumption DEF Solve, Begin, Jobs
  <2> QED
    BY <1>2, <2>4 DEF Solve, Begin
<1>3. ASSUME NEW n \in Sizes, Paths(n)
      PROVE  Begun
  <2>1. n \in Nat
    BY WorkAssumption
  <2>2. Most(1, Least(NumThreads, n)) \in 1..NumThreads
    BY <2>1, WorkAssumption DEF Most, Least
  <2>3. job' \in Jobs /\ job'.count = n
    BY <1>3, <2>1, <2>2, WorkAssumption DEF Paths, Begin, Jobs
  <2> QED
    BY <1>3, <2>3 DEF Paths, Begin
<1>4. Begun
  BY <1>1, <1>2, <1>3 DEF Call
<1>5. job'.count \in Nat
  BY <1>4 DEF Jobs
<1> QED
  BY <1>4, <1>5, WorkAssumption

\* Every step of a call and of its workers keeps the types.
LEMMA NextType == WorkInv /\ [Next]_vars => TypeOK'
<1> SUFFICES ASSUME WorkInv, [Next]_vars PROVE TypeOK'
  OBVIOUS
<1>0. TypeOK
  BY DEF WorkInv
<1>1. CASE Call
  <2>1. /\ job' \in Jobs /\ job' # NoJob
        /\ pool' = 0 /\ cursor' = 0 /\ failed' = FALSE /\ err' = "none"
        /\ broke' = {} /\ ran' = [i \in 0..(job'.count - 1) |-> 0]
        /\ at' = [at EXCEPT ![0] = "spawning"]
        /\ UNCHANGED <<item, share, saved, helpers, terminated>>
    BY <1>1, CallBegins
  <2>2. DOMAIN ran' = 0..(job'.count - 1) /\ \A i \in DOMAIN ran' : ran'[i] = 0
    BY <2>1
  <2>3. 0 \in 0..(NumThreads - 1)
    BY WorkAssumption
  <2> QED
    BY <1>0, <2>1, <2>2, <2>3 DEF TypeOK
<1>2. CASE Spawn
  <2>1. job \in Jobs
    BY <1>2, SpawningHasJob DEF Spawn
  <2>2. pool + 1 \in Workers /\ pool' \in 0..(NumThreads - 1)
    <3>1. job.threads \in 1..NumThreads
      BY <2>1 DEF Jobs
    <3>2. pool \in Nat /\ pool < job.threads - 1 /\ pool' = pool + 1
      BY <1>0, <1>2 DEF Spawn, TypeOK
    <3> QED
      BY <3>1, <3>2, WorkAssumption DEF Workers
  <2>3. 0 \in 0..NumThreads
    BY WorkAssumption
  <2> QED
    BY <1>0, <1>2, <2>2, <2>3 DEF Spawn, TypeOK, Busy
<1>3. CASE SpawnNoMore
  BY <1>0, <1>3 DEF SpawnNoMore, TypeOK, Busy, jobVars, workerVars
<1>4. CASE SpawnOutOfMemory
  BY <1>0, <1>4 DEF SpawnOutOfMemory, TypeOK, Busy, jobVars, workerVars
<1>5. ASSUME NEW w \in Workers, Start(w)
      PROVE  TypeOK'
  <2>1. job \in Jobs
    BY <1>5, WorkerHasJob DEF Start, Busy
  <2>2. job.share \in 0..NumThreads
    BY <2>1 DEF Jobs
  <2> QED
    BY <1>0, <1>5, <2>2 DEF Start, TypeOK, Busy, jobVars
<1>6. ASSUME NEW w \in Workers, StartThrows(w)
      PROVE  TypeOK'
  BY <1>0, <1>6 DEF StartThrows, TypeOK, Busy, jobVars, workerVars
<1>7. ASSUME NEW w \in Workers, Check(w)
      PROVE  TypeOK'
  BY <1>0, <1>7 DEF Check, TypeOK, Busy, jobVars, workerVars
<1>8. ASSUME NEW w \in Workers, Take(w)
      PROVE  TypeOK'
  <2>1. cursor' \in Nat
    BY <1>0, <1>8 DEF Take, TypeOK
  <2>2. item' \in [Workers -> Nat]
    BY <1>0, <1>8 DEF Take, TypeOK
  <2>3. helpers' \in [Workers -> 0..(NumThreads - 1)]
    <3>1. \A n \in Nat : PanelThreads(w, n) - 1 \in 0..(NumThreads - 1)
      BY <1>0, ThreadsFit, WorkAssumption
    <3>2. \/ helpers' = helpers
          \/ \E n \in Nat : helpers' = [helpers EXCEPT ![w] = PanelThreads(w, n) - 1]
      BY <1>8, WorkAssumption DEF Take
    <3> QED
      BY <1>0, <3>1, <3>2 DEF TypeOK
  <2>4. at' \in [Workers -> Busy \cup {"idle", "spawning", "done", "returned", "threw"}]
    BY <1>0, <1>8 DEF Take, TypeOK, Busy
  <2>5. UNCHANGED <<job, pool, failed, err, share, saved, ran, broke, terminated>>
    BY <1>8 DEF Take
  <2> QED
    BY <1>0, <2>1, <2>2, <2>3, <2>4, <2>5 DEF TypeOK
<1>9. ASSUME NEW w \in Workers, BodyDone(w)
      PROVE  TypeOK'
  <2>1. item[w] \in DOMAIN ran
    BY <1>9 DEF BodyDone, WorkInv, Hands
  <2>2. ran' = [ran EXCEPT ![item[w]] = ran[item[w]] + 1]
    BY <1>9 DEF BodyDone
  <2>3. DOMAIN ran' = DOMAIN ran /\ \A i \in DOMAIN ran : ran'[i] \in Nat
    BY <1>0, <2>1, <2>2 DEF TypeOK
  <2>4. 0 \in 0..(NumThreads - 1)
    BY WorkAssumption
  <2> QED
    BY <1>0, <1>9, <2>3, <2>4 DEF BodyDone, TypeOK, Busy, jobVars
<1>10. ASSUME NEW w \in Workers, BodyFails(w)
      PROVE  TypeOK'
  <2>1. 0 \in 0..(NumThreads - 1)
    BY WorkAssumption
  <2> QED
    BY <1>0, <1>10, <2>1 DEF BodyFails, TypeOK, Busy, jobVars
<1>11. ASSUME NEW w \in Workers, BodyThrows(w)
      PROVE  TypeOK'
  <2>1. 0 \in 0..(NumThreads - 1)
    BY WorkAssumption
  <2> QED
    BY <1>0, <1>11, <2>1 DEF BodyThrows, TypeOK, Busy, jobVars
<1>12. ASSUME NEW w \in Workers, Finish(w)
      PROVE  TypeOK'
  BY <1>0, <1>12 DEF Finish, RestoreShare, TypeOK, Busy, jobVars, workerVars
<1>13. ASSUME NEW w \in Workers, RecordError(w)
      PROVE  TypeOK'
  BY <1>0, <1>13 DEF RecordError, RestoreShare, Record, TypeOK, Busy, jobVars, workerVars
<1>14. ASSUME NEW w \in Workers, RecordThrown(w)
      PROVE  TypeOK'
  BY <1>0, <1>14 DEF RecordThrown, Record, TypeOK, Busy, jobVars, workerVars
<1>15. ASSUME NEW w \in Workers, MessageOutOfMemory(w)
      PROVE  TypeOK'
  BY <1>0, <1>15 DEF MessageOutOfMemory, TypeOK, Busy, jobVars, workerVars
<1>16. CASE Join
  BY <1>0, <1>16 DEF Join, AllJoined, TypeOK, Busy, jobVars, workerVars
<1>17. CASE Return
  <2>1. 0 \in 0..(NumThreads - 1) /\ 0 \in 0..NumThreads
    BY WorkAssumption
  <2>2. job' = NoJob /\ ran' = <<>> /\ DOMAIN <<>> = {}
    BY <1>17 DEF Return
  <2> QED
    BY <1>0, <1>17, <2>1, <2>2 DEF Return, TypeOK, Busy
<1>18. CASE UNCHANGED vars
  BY <1>0, <1>18 DEF vars, TypeOK, Busy, jobVars, workerVars
<1> QED
  BY <1>1, <1>2, <1>3, <1>4, <1>5, <1>6, <1>7, <1>8, <1>9, <1>10, <1>11,
     <1>12, <1>13, <1>14, <1>15, <1>16, <1>17, <1>18 DEF Next, Carry, Work

\* ... who is where,
LEMMA NextShape == WorkInv /\ [Next]_vars => Shape'
<1> SUFFICES ASSUME WorkInv, [Next]_vars PROVE Shape'
  OBVIOUS
<1>0. TypeOK /\ Shape /\ Hands /\ Errors /\ Coverage
  BY DEF WorkInv
<1>a. 0 \in Workers /\ Workers \subseteq Nat
  BY WorkAssumption DEF Workers
<1>1. CASE Call
  <2>1. /\ job' # NoJob /\ job'.threads \in 1..NumThreads
        /\ pool' = 0 /\ cursor' = 0 /\ failed' = FALSE /\ err' = "none"
        /\ broke' = {} /\ ran' = [i \in 0..(job'.count - 1) |-> 0]
        /\ at[0] = "idle" /\ at' = [at EXCEPT ![0] = "spawning"]
        /\ UNCHANGED <<item, share, saved, helpers, terminated>>
    BY <1>1, CallBegins DEF Jobs
  <2>2. pool = 0 /\ \A v \in Workers : v # 0 => at[v] = "idle"
    BY <1>0, <1>a, <2>1 DEF Shape
  <2>3. \A v \in Workers : at'[v] = IF v = 0 THEN "spawning" ELSE "idle"
    BY <1>0, <1>a, <2>1, <2>2 DEF TypeOK
  <2>4. DOMAIN ran' = 0..(job'.count - 1) /\ \A i \in DOMAIN ran' : ran'[i] = 0
    BY <2>1
  <2> QED
    BY <1>0, <1>a, <2>1, <2>2, <2>3, <2>4, WorkAssumption DEF Shape
<1>2. CASE Spawn
  <2>1. job # NoJob /\ pool \in Nat /\ pool < job.threads - 1 /\ job.threads \in 1..NumThreads
    BY <1>0, <1>2, SpawningHasJob DEF Spawn, TypeOK, Shape, Jobs
  <2>2. pool' = pool + 1 /\ at' = [at EXCEPT ![pool + 1] = "start"] /\ pool + 1 \in Workers
    BY <1>2, <2>1, WorkAssumption DEF Spawn, Workers
  <2>3. \A v \in Workers : at'[v] = IF v = pool + 1 THEN "start" ELSE at[v]
    BY <1>0, <2>2 DEF TypeOK
  <2>4. at[0] = "spawning" /\ at'[0] = "spawning" /\ UNCHANGED <<job, helpers>>
    BY <1>2, <1>a, <2>1, <2>3 DEF Spawn
  <2>5. \A v \in Workers : helpers'[v] = helpers[v] /\ (at'[v] # "body" => helpers[v] = 0)
    <3>1. at[pool + 1] = "idle" /\ helpers[pool + 1] = 0
      BY <1>0, <2>1, <2>2 DEF Shape
    <3> QED
      BY <1>0, <2>3, <2>4, <3>1 DEF Shape
  <2>6. \A v \in Workers : v \in Nat /\ (v > pool' => at'[v] = "idle")
    BY <1>0, <1>a, <2>1, <2>2, <2>3 DEF Shape, TypeOK
  <2>7. \A v \in Workers : v \in 1..pool' => at'[v] \in Busy \cup {"done"}
    BY <1>0, <1>a, <2>1, <2>2, <2>3 DEF Shape, Busy, TypeOK
  <2> QED
    BY <2>1, <2>2, <2>4, <2>5, <2>6, <2>7 DEF Shape
<1>3. CASE SpawnNoMore
  BY <1>0, <1>a, <1>3 DEF SpawnNoMore, Busy, jobVars, workerVars, TypeOK, Shape
<1>4. CASE SpawnOutOfMemory
  BY <1>0, <1>a, <1>4 DEF SpawnOutOfMemory, Busy, jobVars, workerVars, TypeOK, Shape
<1>5. ASSUME NEW w \in Workers, Start(w)
      PROVE  Shape'
  BY <1>0, <1>a, <1>5 DEF Start, Busy, jobVars, workerVars, TypeOK, Shape
<1>6. ASSUME NEW w \in Workers, StartThrows(w)
      PROVE  Shape'
  BY <1>0, <1>a, <1>6 DEF StartThrows, Busy, jobVars, workerVars, TypeOK, Shape
<1>7. ASSUME NEW w \in Workers, Check(w)
      PROVE  Shape'
  BY <1>0, <1>a, <1>7 DEF Check, Busy, jobVars, workerVars, TypeOK, Shape
<1>8. ASSUME NEW w \in Workers, Take(w)
      PROVE  Shape'
  <2>1. at[w] = "take" /\ at'[w] \in {"body", "finish"} /\ UNCHANGED <<job, pool>>
        /\ \A v \in Workers \ {w} : at'[v] = at[v] /\ helpers'[v] = helpers[v]
    BY <1>0, <1>8 DEF Take, TypeOK
  <2>2. at'[w] = "finish" => helpers'[w] = 0
    BY <1>0, <1>8 DEF Take, TypeOK, Shape
  <2> QED
    BY <1>0, <1>a, <2>1, <2>2 DEF Shape, Busy
<1>9. ASSUME NEW w \in Workers, BodyDone(w)
      PROVE  Shape'
  BY <1>0, <1>a, <1>9 DEF BodyDone, Busy, jobVars, workerVars, TypeOK, Shape
<1>10. ASSUME NEW w \in Workers, BodyFails(w)
      PROVE  Shape'
  BY <1>0, <1>a, <1>10 DEF BodyFails, Busy, jobVars, workerVars, TypeOK, Shape
<1>11. ASSUME NEW w \in Workers, BodyThrows(w)
      PROVE  Shape'
  BY <1>0, <1>a, <1>11 DEF BodyThrows, Busy, jobVars, workerVars, TypeOK, Shape
<1>12. ASSUME NEW w \in Workers, Finish(w)
      PROVE  Shape'
  BY <1>0, <1>a, <1>12 DEF Finish, RestoreShare, Busy, jobVars, workerVars, TypeOK, Shape
<1>13. ASSUME NEW w \in Workers, RecordError(w)
      PROVE  Shape'
  BY <1>0, <1>a, <1>13 DEF RecordError, RestoreShare, Record, Busy, jobVars, workerVars, TypeOK, Shape
<1>14. ASSUME NEW w \in Workers, RecordThrown(w)
      PROVE  Shape'
  BY <1>0, <1>a, <1>14 DEF RecordThrown, Record, Busy, jobVars, workerVars, TypeOK, Shape
<1>15. ASSUME NEW w \in Workers, MessageOutOfMemory(w)
      PROVE  Shape'
  BY <1>0, <1>a, <1>15 DEF MessageOutOfMemory, Busy, jobVars, workerVars, TypeOK, Shape
<1>16. CASE Join
  BY <1>0, <1>a, <1>16 DEF Join, AllJoined, Busy, jobVars, workerVars, TypeOK, Shape
<1>17. CASE Return
  BY <1>0, <1>a, <1>17 DEF Return, Busy, jobVars, workerVars, TypeOK, Shape
<1>18. CASE UNCHANGED vars
  BY <1>0, <1>a, <1>18 DEF vars, Busy, jobVars, workerVars, TypeOK, Shape
<1> QED
  BY <1>1, <1>2, <1>3, <1>4, <1>5, <1>6, <1>7, <1>8, <1>9, <1>10, <1>11,
     <1>12, <1>13, <1>14, <1>15, <1>16, <1>17, <1>18 DEF Next, Carry, Work

\* ... the items in hand apart,
LEMMA NextHands == WorkInv /\ [Next]_vars => Hands'
<1> SUFFICES ASSUME WorkInv, [Next]_vars PROVE Hands'
  OBVIOUS
<1>0. TypeOK /\ Shape /\ Hands /\ Errors /\ Coverage
  BY DEF WorkInv
<1>a. 0 \in Workers /\ Workers \subseteq Nat
  BY WorkAssumption DEF Workers
<1>1. CASE Call
  <2>1. /\ job' # NoJob /\ job'.threads \in 1..NumThreads
        /\ pool' = 0 /\ cursor' = 0 /\ failed' = FALSE /\ err' = "none"
        /\ broke' = {} /\ ran' = [i \in 0..(job'.count - 1) |-> 0]
        /\ at[0] = "idle" /\ at' = [at EXCEPT ![0] = "spawning"]
        /\ UNCHANGED <<item, share, saved, helpers, terminated>>
    BY <1>1, CallBegins DEF Jobs
  <2>2. pool = 0 /\ \A v \in Workers : v # 0 => at[v] = "idle"
    BY <1>0, <1>a, <2>1 DEF Shape
  <2>3. \A v \in Workers : at'[v] = IF v = 0 THEN "spawning" ELSE "idle"
    BY <1>0, <1>a, <2>1, <2>2 DEF TypeOK
  <2>4. DOMAIN ran' = 0..(job'.count - 1) /\ \A i \in DOMAIN ran' : ran'[i] = 0
    BY <2>1
  <2> QED
    BY <1>0, <1>a, <2>1, <2>2, <2>3, <2>4, WorkAssumption DEF Hands
<1>2. CASE Spawn
  BY <1>0, <1>a, <1>2 DEF Spawn, Busy, jobVars, workerVars, TypeOK, Shape, Hands
<1>3. CASE SpawnNoMore
  BY <1>0, <1>a, <1>3 DEF SpawnNoMore, Busy, jobVars, workerVars, TypeOK, Shape, Hands
<1>4. CASE SpawnOutOfMemory
  BY <1>0, <1>a, <1>4 DEF SpawnOutOfMemory, Busy, jobVars, workerVars, TypeOK, Shape, Hands
<1>5. ASSUME NEW w \in Workers, Start(w)
      PROVE  Hands'
  BY <1>0, <1>a, <1>5 DEF Start, Busy, jobVars, workerVars, TypeOK, Shape, Hands
<1>6. ASSUME NEW w \in Workers, StartThrows(w)
      PROVE  Hands'
  BY <1>0, <1>a, <1>6 DEF StartThrows, Busy, jobVars, workerVars, TypeOK, Shape, Hands
<1>7. ASSUME NEW w \in Workers, Check(w)
      PROVE  Hands'
  BY <1>0, <1>a, <1>7 DEF Check, Busy, jobVars, workerVars, TypeOK, Shape, Hands
<1>8. ASSUME NEW w \in Workers, Take(w)
      PROVE  Hands'
  <2>1. at[w] = "take" /\ cursor' = cursor + 1 /\ cursor \in Nat /\ ran' = ran
        /\ \A v \in Workers \ {w} : at'[v] = at[v] /\ item'[v] = item[v]
    BY <1>0, <1>8 DEF Take, TypeOK
  <2>2. job \in Jobs /\ job # NoJob
    BY <2>1, WorkerHasJob
  <2>3. DOMAIN ran = 0..(job.count - 1) /\ job.count \in Nat
    BY <1>0, <2>2 DEF TypeOK, Jobs
  <2>4. at'[w] = "body" => item'[w] = cursor /\ cursor < job.count
    BY <1>0, <1>8 DEF Take, TypeOK
  <2>5. at'[w] = "body" => cursor \in DOMAIN ran /\ ran[cursor] = 0
    BY <1>0, <2>1, <2>3, <2>4 DEF Hands
  <2>6. \A v \in Workers \ {w} : at'[v] = "body" =>
          item'[v] < cursor /\ item'[v] \in DOMAIN ran /\ ran[item'[v]] = 0
    BY <1>0, <2>1 DEF Hands
  <2>7. \A v \in Workers : at'[v] = "body" => item'[v] \in Nat /\ item'[v] <= cursor
    <3>1. \A v \in Workers \ {w} : at'[v] = "body" => item'[v] \in Nat /\ item'[v] < cursor
      BY <1>0, <2>1, <2>6 DEF TypeOK
    <3> QED
      BY <2>1, <2>4, <3>1
  <2>8. \A i \in DOMAIN ran : ran[i] <= 1 /\ (i >= cursor' => ran[i] = 0)
    BY <1>0, <2>1, <2>3 DEF Hands
  <2>9. \A u, v \in Workers :
          at'[u] = "body" /\ at'[v] = "body" /\ item'[u] = item'[v] => u = v
    <3> SUFFICES ASSUME NEW u \in Workers, NEW v \in Workers,
                        at'[u] = "body", at'[v] = "body", item'[u] = item'[v]
                 PROVE  u = v
      OBVIOUS
    <3>1. CASE u # w /\ v # w
      BY <1>0, <2>1, <3>1 DEF Hands
    <3>2. CASE u = w \/ v = w
      <4>1. \A x \in Workers \ {w} : at'[x] = "body" => item'[x] < cursor
        BY <2>6
      <4> QED
        BY <2>1, <2>4, <3>2, <4>1
    <3> QED
      BY <3>1, <3>2
  <2> QED
    BY <2>1, <2>4, <2>5, <2>6, <2>7, <2>8, <2>9 DEF Hands
<1>9. ASSUME NEW w \in Workers, BodyDone(w)
      PROVE  Hands'
  BY <1>0, <1>a, <1>9 DEF BodyDone, Busy, jobVars, workerVars, TypeOK, Shape, Hands
<1>10. ASSUME NEW w \in Workers, BodyFails(w)
      PROVE  Hands'
  BY <1>0, <1>a, <1>10 DEF BodyFails, Busy, jobVars, workerVars, TypeOK, Shape, Hands
<1>11. ASSUME NEW w \in Workers, BodyThrows(w)
      PROVE  Hands'
  BY <1>0, <1>a, <1>11 DEF BodyThrows, Busy, jobVars, workerVars, TypeOK, Shape, Hands
<1>12. ASSUME NEW w \in Workers, Finish(w)
      PROVE  Hands'
  BY <1>0, <1>a, <1>12 DEF Finish, RestoreShare, Busy, jobVars, workerVars, TypeOK, Shape, Hands
<1>13. ASSUME NEW w \in Workers, RecordError(w)
      PROVE  Hands'
  BY <1>0, <1>a, <1>13 DEF RecordError, RestoreShare, Record, Busy, jobVars, workerVars, TypeOK, Shape, Hands
<1>14. ASSUME NEW w \in Workers, RecordThrown(w)
      PROVE  Hands'
  BY <1>0, <1>a, <1>14 DEF RecordThrown, Record, Busy, jobVars, workerVars, TypeOK, Shape, Hands
<1>15. ASSUME NEW w \in Workers, MessageOutOfMemory(w)
      PROVE  Hands'
  <2>1. UNCHANGED <<item, cursor, ran>>
    BY <1>15 DEF MessageOutOfMemory, jobVars
  <2>2. \A v \in Workers : at'[v] = "body" => at[v] = "body"
    BY <1>0, <1>15 DEF MessageOutOfMemory, TypeOK
  <2> QED
    BY <1>0, <2>1, <2>2 DEF Hands
<1>16. CASE Join
  BY <1>0, <1>a, <1>16 DEF Join, AllJoined, Busy, jobVars, workerVars, TypeOK, Shape, Hands
<1>17. CASE Return
  BY <1>0, <1>a, <1>17 DEF Return, Busy, jobVars, workerVars, TypeOK, Shape, Hands
<1>18. CASE UNCHANGED vars
  BY <1>0, <1>a, <1>18 DEF vars, Busy, jobVars, workerVars, TypeOK, Shape, Hands
<1> QED
  BY <1>1, <1>2, <1>3, <1>4, <1>5, <1>6, <1>7, <1>8, <1>9, <1>10, <1>11,
     <1>12, <1>13, <1>14, <1>15, <1>16, <1>17, <1>18 DEF Next, Carry, Work

\* ... every failure accounted for,
LEMMA NextErrors == WorkInv /\ [Next]_vars => Errors'
<1> SUFFICES ASSUME WorkInv, [Next]_vars PROVE Errors'
  OBVIOUS
<1>0. TypeOK /\ Shape /\ Hands /\ Errors /\ Coverage
  BY DEF WorkInv
<1>a. 0 \in Workers /\ Workers \subseteq Nat
  BY WorkAssumption DEF Workers
<1>1. CASE Call
  <2>1. /\ job' # NoJob /\ job'.threads \in 1..NumThreads
        /\ pool' = 0 /\ cursor' = 0 /\ failed' = FALSE /\ err' = "none"
        /\ broke' = {} /\ ran' = [i \in 0..(job'.count - 1) |-> 0]
        /\ at[0] = "idle" /\ at' = [at EXCEPT ![0] = "spawning"]
        /\ UNCHANGED <<item, share, saved, helpers, terminated>>
    BY <1>1, CallBegins DEF Jobs
  <2>2. pool = 0 /\ \A v \in Workers : v # 0 => at[v] = "idle"
    BY <1>0, <1>a, <2>1 DEF Shape
  <2>3. \A v \in Workers : at'[v] = IF v = 0 THEN "spawning" ELSE "idle"
    BY <1>0, <1>a, <2>1, <2>2 DEF TypeOK
  <2>4. DOMAIN ran' = 0..(job'.count - 1) /\ \A i \in DOMAIN ran' : ran'[i] = 0
    BY <2>1
  <2> QED
    BY <1>0, <1>a, <2>1, <2>2, <2>3, <2>4, WorkAssumption DEF Errors
<1>2. CASE Spawn
  BY <1>0, <1>a, <1>2 DEF Spawn, Busy, jobVars, workerVars, TypeOK, Shape, Errors
<1>3. CASE SpawnNoMore
  BY <1>0, <1>a, <1>3 DEF SpawnNoMore, Busy, jobVars, workerVars, TypeOK, Shape, Errors
<1>4. CASE SpawnOutOfMemory
  BY <1>0, <1>a, <1>4 DEF SpawnOutOfMemory, Busy, jobVars, workerVars, TypeOK, Shape, Errors
<1>5. ASSUME NEW w \in Workers, Start(w)
      PROVE  Errors'
  BY <1>0, <1>a, <1>5 DEF Start, Busy, jobVars, workerVars, TypeOK, Shape, Errors
<1>6. ASSUME NEW w \in Workers, StartThrows(w)
      PROVE  Errors'
  BY <1>0, <1>a, <1>6 DEF StartThrows, Busy, jobVars, workerVars, TypeOK, Shape, Errors
<1>7. ASSUME NEW w \in Workers, Check(w)
      PROVE  Errors'
  BY <1>0, <1>a, <1>7 DEF Check, Busy, jobVars, workerVars, TypeOK, Shape, Errors
<1>8. ASSUME NEW w \in Workers, Take(w)
      PROVE  Errors'
  <2>1. UNCHANGED <<failed, err, broke>> /\ at[w] = "take"
    BY <1>8 DEF Take
  <2>2. \A v \in Workers : at'[v] = at[v] \/ (v = w /\ at'[v] \in {"body", "finish"})
    BY <1>0, <1>8 DEF Take, TypeOK
  <2> QED
    BY <1>0, <1>a, <2>1, <2>2 DEF Errors
<1>9. ASSUME NEW w \in Workers, BodyDone(w)
      PROVE  Errors'
  BY <1>0, <1>a, <1>9 DEF BodyDone, Busy, jobVars, workerVars, TypeOK, Shape, Errors
<1>10. ASSUME NEW w \in Workers, BodyFails(w)
      PROVE  Errors'
  BY <1>0, <1>a, <1>10 DEF BodyFails, Busy, jobVars, workerVars, TypeOK, Shape, Errors
<1>11. ASSUME NEW w \in Workers, BodyThrows(w)
      PROVE  Errors'
  BY <1>0, <1>a, <1>11 DEF BodyThrows, Busy, jobVars, workerVars, TypeOK, Shape, Errors
<1>12. ASSUME NEW w \in Workers, Finish(w)
      PROVE  Errors'
  BY <1>0, <1>a, <1>12 DEF Finish, RestoreShare, Busy, jobVars, workerVars, TypeOK, Shape, Errors
<1>13. ASSUME NEW w \in Workers, RecordError(w)
      PROVE  Errors'
  BY <1>0, <1>a, <1>13 DEF RecordError, RestoreShare, Record, Busy, jobVars, workerVars, TypeOK, Shape, Errors
<1>14. ASSUME NEW w \in Workers, RecordThrown(w)
      PROVE  Errors'
  BY <1>0, <1>a, <1>14 DEF RecordThrown, Record, Busy, jobVars, workerVars, TypeOK, Shape, Errors
<1>15. ASSUME NEW w \in Workers, MessageOutOfMemory(w)
      PROVE  Errors'
  BY <1>0, <1>a, <1>15 DEF MessageOutOfMemory, Busy, jobVars, workerVars, TypeOK, Shape, Errors
<1>16. CASE Join
  BY <1>0, <1>a, <1>16 DEF Join, AllJoined, Busy, jobVars, workerVars, TypeOK, Shape, Errors
<1>17. CASE Return
  BY <1>0, <1>a, <1>17 DEF Return, Busy, jobVars, workerVars, TypeOK, Shape, Errors
<1>18. CASE UNCHANGED vars
  BY <1>0, <1>a, <1>18 DEF vars, Busy, jobVars, workerVars, TypeOK, Shape, Errors
<1> QED
  BY <1>1, <1>2, <1>3, <1>4, <1>5, <1>6, <1>7, <1>8, <1>9, <1>10, <1>11,
     <1>12, <1>13, <1>14, <1>15, <1>16, <1>17, <1>18 DEF Next, Carry, Work

\* ... and every item that was taken.
LEMMA NextCoverage == WorkInv /\ [Next]_vars => Coverage'
<1> SUFFICES ASSUME WorkInv, [Next]_vars PROVE Coverage'
  OBVIOUS
<1>0. TypeOK /\ Shape /\ Hands /\ Errors /\ Coverage
  BY DEF WorkInv
<1>a. 0 \in Workers /\ Workers \subseteq Nat
  BY WorkAssumption DEF Workers
<1>1. CASE Call
  <2>1. /\ job' # NoJob /\ job'.threads \in 1..NumThreads
        /\ pool' = 0 /\ cursor' = 0 /\ failed' = FALSE /\ err' = "none"
        /\ broke' = {} /\ ran' = [i \in 0..(job'.count - 1) |-> 0]
        /\ at[0] = "idle" /\ at' = [at EXCEPT ![0] = "spawning"]
        /\ UNCHANGED <<item, share, saved, helpers, terminated>>
    BY <1>1, CallBegins DEF Jobs
  <2>2. pool = 0 /\ \A v \in Workers : v # 0 => at[v] = "idle"
    BY <1>0, <1>a, <2>1 DEF Shape
  <2>3. \A v \in Workers : at'[v] = IF v = 0 THEN "spawning" ELSE "idle"
    BY <1>0, <1>a, <2>1, <2>2 DEF TypeOK
  <2>4. DOMAIN ran' = 0..(job'.count - 1) /\ \A i \in DOMAIN ran' : ran'[i] = 0
    BY <2>1
  <2> QED
    BY <1>0, <1>a, <2>1, <2>2, <2>3, <2>4, WorkAssumption DEF Coverage
<1>2. CASE Spawn
  BY <1>0, <1>a, <1>2 DEF Spawn, Busy, jobVars, workerVars, TypeOK, Shape, Hands, Errors, Coverage
<1>3. CASE SpawnNoMore
  BY <1>0, <1>a, <1>3 DEF SpawnNoMore, Busy, jobVars, workerVars, TypeOK, Shape, Hands, Errors, Coverage
<1>4. CASE SpawnOutOfMemory
  <2>1. UNCHANGED <<job, failed, cursor, ran, broke, item>>
    BY <1>4 DEF SpawnOutOfMemory, jobVars
  <2>2. \A v \in Workers : at'[v] = at[v] \/ (at[v] # "body" /\ at'[v] = "threw")
    BY <1>0, <1>a, <1>4 DEF SpawnOutOfMemory, TypeOK
  <2> QED
    BY <1>0, <2>1, <2>2 DEF Coverage
<1>5. ASSUME NEW w \in Workers, Start(w)
      PROVE  Coverage'
  <2>1. UNCHANGED <<job, failed, cursor, ran, broke, item>>
    BY <1>5 DEF Start, jobVars
  <2>2. \A v \in Workers : at'[v] = at[v] \/ (at[v] # "body" /\ at'[v] = "check")
    BY <1>0, <1>a, <1>5 DEF Start, TypeOK
  <2> QED
    BY <1>0, <2>1, <2>2 DEF Coverage
<1>6. ASSUME NEW w \in Workers, StartThrows(w)
      PROVE  Coverage'
  BY <1>0, <1>a, <1>6 DEF StartThrows, Busy, jobVars, workerVars, TypeOK, Shape, Hands, Errors, Coverage
<1>7. ASSUME NEW w \in Workers, Check(w)
      PROVE  Coverage'
  BY <1>0, <1>a, <1>7 DEF Check, Busy, jobVars, workerVars, TypeOK, Shape, Hands, Errors, Coverage
<1>8. ASSUME NEW w \in Workers, Take(w)
      PROVE  Coverage'
  <2>1. at[w] = "take" /\ cursor' = cursor + 1 /\ cursor \in Nat
        /\ UNCHANGED <<job, ran, broke, failed>>
        /\ \A v \in Workers \ {w} : at'[v] = at[v] /\ item'[v] = item[v]
    BY <1>0, <1>8 DEF Take, TypeOK
  <2>2. \/ at'[w] = "body" /\ item'[w] = cursor
        \/ at'[w] = "finish" /\ cursor >= job.count
    BY <1>0, <1>8 DEF Take, TypeOK
  <2>3. job \in Jobs /\ job # NoJob
    BY <2>1, WorkerHasJob
  <2>4. DOMAIN ran = 0..(job.count - 1) /\ job.count \in Nat
    BY <1>0, <2>3 DEF TypeOK, Jobs
  <2>5. ASSUME broke = {}, NEW i \in DOMAIN ran, i < cursor'
        PROVE  ran[i] = 1 \/ \E v \in Workers : at'[v] = "body" /\ item'[v] = i
    <3>1. CASE i < cursor
      BY <1>0, <2>1, <2>5, <3>1 DEF Coverage
    <3>2. CASE i = cursor
      BY <2>2, <2>4, <3>2
    <3> QED
      BY <2>1, <2>4, <2>5, <3>1, <3>2
  <2>6. ASSUME NEW v \in Workers, at'[v] \in {"finish", "done", "returned"}
        PROVE  failed \/ cursor' >= job.count
    BY <1>0, <2>1, <2>2, <2>4, <2>6 DEF Coverage
  <2> QED
    BY <2>1, <2>5, <2>6 DEF Coverage
<1>9. ASSUME NEW w \in Workers, BodyDone(w)
      PROVE  Coverage'
  <2>1. at[w] = "body" /\ UNCHANGED <<job, cursor, broke, failed, item>>
        /\ \A v \in Workers : at'[v] = IF v = w THEN "check" ELSE at[v]
    BY <1>0, <1>9 DEF BodyDone, TypeOK, jobVars
  <2>2. item[w] \in DOMAIN ran /\ ran[item[w]] = 0
    BY <1>0, <2>1 DEF Hands
  <2>3. DOMAIN ran' = DOMAIN ran /\ ran'[item[w]] = 1
        /\ \A i \in DOMAIN ran : i # item[w] => ran'[i] = ran[i]
    BY <1>9, <2>2 DEF BodyDone
  <2>4. ASSUME broke = {}, NEW i \in DOMAIN ran, i < cursor
        PROVE  ran'[i] = 1 \/ \E v \in Workers : at'[v] = "body" /\ item[v] = i
    <3>1. CASE i = item[w]
      BY <2>3, <3>1
    <3>2. CASE i # item[w] /\ ran[i] = 1
      BY <2>3, <3>2
    <3>3. CASE i # item[w] /\ ran[i] # 1
      <4>1. PICK v \in Workers : at[v] = "body" /\ item[v] = i
        BY <1>0, <2>4, <3>3 DEF Coverage
      <4> QED
        BY <2>1, <3>3, <4>1
    <3> QED
      BY <3>1, <3>2, <3>3
  <2> QED
    BY <1>0, <2>1, <2>3, <2>4 DEF Coverage
<1>10. ASSUME NEW w \in Workers, BodyFails(w)
      PROVE  Coverage'
  BY <1>0, <1>a, <1>10 DEF BodyFails, Busy, jobVars, workerVars, TypeOK, Shape, Hands, Errors, Coverage
<1>11. ASSUME NEW w \in Workers, BodyThrows(w)
      PROVE  Coverage'
  BY <1>0, <1>a, <1>11 DEF BodyThrows, Busy, jobVars, workerVars, TypeOK, Shape, Hands, Errors, Coverage
<1>12. ASSUME NEW w \in Workers, Finish(w)
      PROVE  Coverage'
  BY <1>0, <1>a, <1>12 DEF Finish, RestoreShare, Busy, jobVars, workerVars, TypeOK, Shape, Hands, Errors, Coverage
<1>13. ASSUME NEW w \in Workers, RecordError(w)
      PROVE  Coverage'
  BY <1>0, <1>a, <1>13 DEF RecordError, RestoreShare, Record, Busy, jobVars, workerVars, TypeOK, Shape, Hands, Errors, Coverage
<1>14. ASSUME NEW w \in Workers, RecordThrown(w)
      PROVE  Coverage'
  BY <1>0, <1>a, <1>14 DEF RecordThrown, Record, Busy, jobVars, workerVars, TypeOK, Shape, Hands, Errors, Coverage
<1>15. ASSUME NEW w \in Workers, MessageOutOfMemory(w)
      PROVE  Coverage'
  BY <1>0, <1>a, <1>15 DEF MessageOutOfMemory, Busy, jobVars, workerVars, TypeOK, Shape, Hands, Errors, Coverage
<1>16. CASE Join
  BY <1>0, <1>a, <1>16 DEF Join, AllJoined, Busy, jobVars, workerVars, TypeOK, Shape, Hands, Errors, Coverage
<1>17. CASE Return
  BY <1>0, <1>a, <1>17 DEF Return, Busy, jobVars, workerVars, TypeOK, Shape, Hands, Errors, Coverage
<1>18. CASE UNCHANGED vars
  BY <1>0, <1>a, <1>18 DEF vars, Busy, jobVars, workerVars, TypeOK, Shape, Hands, Errors, Coverage
<1> QED
  BY <1>1, <1>2, <1>3, <1>4, <1>5, <1>6, <1>7, <1>8, <1>9, <1>10, <1>11,
     <1>12, <1>13, <1>14, <1>15, <1>16, <1>17, <1>18 DEF Next, Carry, Work

\* So all of it together is an invariant.
LEMMA Inductive == WorkInv /\ [Next]_vars => WorkInv'
  BY NextType, NextShape, NextHands, NextErrors, NextCoverage DEF WorkInv

-----------------------------------------------------------------------------
\* A call's threads are as many as Workers has, and its state is well formed.
THEOREM WorkTypeCorrect == Spec => []TypeOK
<1>1. WorkInv => TypeOK
  BY DEF WorkInv
<1> QED
  BY InitWork, Inductive, <1>1, PTL DEF Spec

\* The cursor hands every item to one worker and once, for any number of threads.
THEOREM ItemsTakenOnce == Spec => []EachItemOnce
<1>1. WorkInv => EachItemOnce
  BY DEF WorkInv, Hands, EachItemOnce
<1> QED
  BY InitWork, Inductive, <1>1, PTL DEF Spec

\* A call that returns without an error has done all of its work, whichever of
\* its threads could be started; and no failure is lost.
THEOREM WholeAnswers == Spec => []AnswerIsWhole
<1>1. WorkInv => AnswerIsWhole
  <2> SUFFICES ASSUME WorkInv, at[0] = "returned"
               PROVE  IF err = "none"
                      THEN broke = {} /\ \A i \in 0..(job.count - 1) : ran[i] = 1
                      ELSE err \in broke
    BY DEF AnswerIsWhole
  <2>1. 0 \in Workers /\ Workers \subseteq Nat
    BY WorkAssumption DEF Workers
  <2>2. \A w \in Workers : at[w] \in {"returned", "done", "idle"}
    BY <2>1 DEF WorkInv, Shape, TypeOK
  <2>3. CASE err # "none"
    BY <2>3 DEF WorkInv, Errors
  <2>4. CASE err = "none"
    <3>1. broke = {} /\ ~failed
      BY <2>1, <2>2, <2>4 DEF WorkInv, Errors
    <3>2. job \in Jobs /\ job # NoJob
      BY <2>1, WorkerHasJob
    <3>3. DOMAIN ran = 0..(job.count - 1) /\ cursor >= job.count /\ job.count \in Nat
      BY <2>1, <3>1, <3>2 DEF WorkInv, TypeOK, Coverage, Jobs
    <3>4. \A i \in DOMAIN ran : i < cursor
      BY <3>3 DEF WorkInv, TypeOK
    <3>5. \A i \in DOMAIN ran : ran[i] = 1
      BY <2>2, <3>1, <3>4 DEF WorkInv, Coverage
    <3> QED
      BY <2>4, <3>1, <3>3, <3>5
  <2> QED
    BY <2>3, <2>4
<1> QED
  BY InitWork, Inductive, <1>1, PTL DEF Spec

\* Nobody is at work for a call that has returned.
THEOREM AllJoinedAtReturn == Spec => []NoneLeftBehind
<1>1. WorkInv => NoneLeftBehind
  <2> SUFFICES ASSUME WorkInv, at[0] \in {"idle", "returned", "threw"},
                      NEW w \in Workers
               PROVE  at[w] \notin Busy /\ helpers[w] = 0
    BY DEF NoneLeftBehind
  <2>1. pool \in Nat /\ (w = 0 \/ w \in 1..pool \/ w > pool)
    BY DEF WorkInv, TypeOK, Workers
  <2>2. w \in 1..pool => at[0] = "returned"
    BY DEF WorkInv, Shape
  <2>3. at[w] \in {"idle", "returned", "threw", "done"}
    BY <2>1, <2>2 DEF WorkInv, Shape
  <2> QED
    BY <2>3 DEF WorkInv, Shape, Busy
<1> QED
  BY InitWork, Inductive, <1>1, PTL DEF Spec
-----------------------------------------------------------------------------
(* How wide a call is, and how its items cover what was asked.             *)

\* A batch's workers and their shares fit the machine, and a solve's items are
\* its panels.
JobFits ==
  job # NoJob =>
    /\ job.kind = "batch" => job.share >= 1 /\ job.threads * job.share <= NumThreads
    /\ job.kind = "panels" => job.count = Panels(job.size)

\* Only the elements of a batch have helpers: as many as, with the worker
\* itself, make up its share.
HelpersFit ==
  job # NoJob => \A w \in Workers :
    /\ job.kind # "batch" => helpers[w] = 0
    /\ job.kind = "batch" =>
         /\ at[w] \in {"check", "take", "body", "failing", "caught", "finish"} =>
              share[w] = job.share
         /\ helpers[w] <= job.share - 1

WidthInv == WorkInv /\ JobFits /\ HelpersFit

-----------------------------------------------------------------------------
\* A call begins no wider than its thread may go.
LEMMA CallFits ==
  ASSUME WorkInv, Call
  PROVE  JobFits'
<1>0. TypeOK /\ 0 \in Workers
  BY WorkAssumption DEF WorkInv, Workers
<1>1. ASSUME NEW n \in Sizes, NEW worth \in Worths, Batch(n, worth)
      PROVE  JobFits'
  <2> DEFINE budget == ThreadBudget(0)
             T == BatchThreads(n, worth, budget)
             shr == BatchShare(budget, T)
  <2>1. n \in Nat /\ worth \in Nat
    BY WorkAssumption
  <2>2. budget \in 1..NumThreads
    BY <1>0, <2>1, ThreadsFit
  <2>3. T \in 1..budget /\ shr \in 1..budget /\ T * shr <= budget
    <3>1. budget \in Nat \ {0}
      BY <2>2
    <3> QED
      BY <2>1, <3>1, SharesFit
  <2>4. job'.kind = "batch" /\ job'.threads = T /\ job'.share = shr
    BY <1>1 DEF Batch, Begin
  <2> HIDE DEF budget, T, shr
  <2>5. shr >= 1 /\ T * shr <= NumThreads
    BY <2>2, <2>3, WorkAssumption
  <2> QED
    BY <2>4, <2>5 DEF JobFits
<1>2. ASSUME NEW n \in Sizes, Solve(n)
      PROVE  JobFits'
  <2>1. job'.kind = "panels" /\ job'.size = n /\ job'.count = Panels(n)
    BY <1>2 DEF Solve, Begin
  <2> QED
    BY <2>1 DEF JobFits, Panels
<1>3. ASSUME NEW n \in Sizes, Paths(n)
      PROVE  JobFits'
  <2>1. job'.kind = "paths"
    BY <1>3 DEF Paths, Begin
  <2> QED
    BY <2>1 DEF JobFits
<1> QED
  BY <1>1, <1>2, <1>3 DEF Call

\* Panels of no columns, or of one panel's worth, have no helpers.
LEMMA NoColumnsNoHelpers ==
  ASSUME TypeOK, NEW w \in Workers
  PROVE  PanelThreads(w, 0) = 1
<1>1. ThreadBudget(w) \in 1..NumThreads
  BY ThreadsFit
<1>2. 0 \div kPanel = 0
  BY Quotient, WorkAssumption
<1> QED
  BY <1>1, <1>2 DEF PanelThreads, Least, Most

\* A step of a worker or of the caller that leaves the call, the helpers and the
\* shares of those that stay at work as they were.
LEMMA WidthFrame ==
  ASSUME WidthInv, job' = job,
         \A w \in Workers :
            /\ helpers'[w] \in {0, helpers[w]}
            /\ at'[w] \in {"check", "take", "body", "failing", "caught", "finish"} =>
                 /\ share'[w] = share[w]
                 /\ job.kind = "batch" =>
                      at[w] \in {"check", "take", "body", "failing", "caught", "finish"}
  PROVE  JobFits' /\ HelpersFit'
<1>1. JobFits'
  BY DEF WidthInv, JobFits, Panels
<1>2. job # NoJob /\ job.kind = "batch" => job.share \in Nat \ {0}
  BY DEF WidthInv, WorkInv, TypeOK, Jobs, JobFits
<1>3. HelpersFit'
  BY <1>2 DEF WidthInv, HelpersFit
<1> QED
  BY <1>1, <1>3

\* Every step keeps every call within its width.
LEMMA NextWidth == WidthInv /\ [Next]_vars => WidthInv'
<1> SUFFICES ASSUME WidthInv, [Next]_vars PROVE WidthInv'
  OBVIOUS
<1> USE DEF jobVars, workerVars
<1>0. TypeOK /\ Shape /\ WorkInv /\ JobFits /\ HelpersFit
  BY DEF WidthInv, WorkInv
<1>a. 0 \in Workers /\ Workers \subseteq Nat
  BY WorkAssumption DEF Workers
<1>b. WorkInv'
  BY <1>0, Inductive
<1>c. helpers \in [Workers -> 0..(NumThreads - 1)] /\ DOMAIN at = Workers
      /\ DOMAIN share = Workers
  BY <1>0 DEF TypeOK
<1> DEFINE Fits == JobFits /\ HelpersFit
<1>1. CASE Call
  <2>1. JobFits'
    BY <1>0, <1>1, CallFits
  <2>2. /\ job' \in Jobs /\ pool' = 0 /\ at[0] = "idle"
        /\ at' = [at EXCEPT ![0] = "spawning"] /\ helpers' = helpers
    BY <1>0, <1>1, CallBegins
  <2>3. \A w \in Workers : at[w] = "idle" /\ helpers[w] = 0
    BY <1>0, <1>a, <2>2 DEF Shape
  <2>4. \A w \in Workers : at'[w] \in {"idle", "spawning"} /\ helpers'[w] = 0
    BY <1>c, <2>2, <2>3
  <2>5. job'.share \in Nat
    BY <2>2 DEF Jobs
  <2>6. HelpersFit'
    BY <2>1, <2>4, <2>5 DEF HelpersFit, JobFits
  <2> QED
    BY <1>b, <2>1, <2>6 DEF WidthInv
<1>2. CASE Spawn
  <2>1. job' = job /\ helpers' = helpers /\ pool' = pool + 1 /\ pool \in Nat
        /\ at' = [at EXCEPT ![pool + 1] = "start"]
        /\ share' = [share EXCEPT ![pool + 1] = 0]
    BY <1>0, <1>2 DEF Spawn, TypeOK
  <2> QED
    BY <1>b, <1>c, <2>1, WidthFrame DEF WidthInv
<1>3. CASE SpawnNoMore
  BY <1>b, <1>c, <1>3, WidthFrame DEF SpawnNoMore, WidthInv
<1>4. CASE SpawnOutOfMemory
  BY <1>b, <1>c, <1>4, WidthFrame DEF SpawnOutOfMemory, WidthInv
<1>5. ASSUME NEW w \in Workers, Start(w)
      PROVE  WidthInv'
  <2>1. /\ job' = job /\ helpers' = helpers /\ at' = [at EXCEPT ![w] = "check"]
        /\ share' = IF job.kind = "batch"
                    THEN [share EXCEPT ![w] = job.share] ELSE share
    BY <1>5 DEF Start
  <2>2. JobFits'
    BY <1>0, <2>1 DEF JobFits, Panels
  <2>3. HelpersFit'
    BY <1>0, <1>c, <2>1 DEF HelpersFit
  <2> QED
    BY <1>b, <2>2, <2>3 DEF WidthInv
<1>6. ASSUME NEW w \in Workers, StartThrows(w)
      PROVE  WidthInv'
  BY <1>b, <1>c, <1>6, WidthFrame DEF StartThrows, WidthInv
<1>7. ASSUME NEW w \in Workers, Check(w)
      PROVE  WidthInv'
  BY <1>b, <1>c, <1>7, WidthFrame DEF Check, WidthInv
<1>8. ASSUME NEW w \in Workers, Take(w)
      PROVE  WidthInv'
  <2>1. job' = job /\ share' = share /\ at[w] = "take"
        /\ \A v \in Workers \ {w} : at'[v] = at[v] /\ helpers'[v] = helpers[v]
    BY <1>c, <1>8 DEF Take
  <2>2. job \in Jobs /\ job # NoJob /\ Sizes \subseteq Nat
    BY <1>0, <2>1, WorkerHasJob, WorkAssumption
  <2>3. ASSUME job.kind # "batch" PROVE helpers'[w] = 0
    <3>1. helpers[w] = 0 /\ PanelThreads(w, 0) - 1 = 0
      BY <1>0, <2>2, <2>3, NoColumnsNoHelpers DEF HelpersFit
    <3> QED
      BY <1>c, <1>8, <2>3, <3>1 DEF Take
  <2>4. ASSUME job.kind = "batch" PROVE helpers'[w] <= job.share - 1
    <3>1. share[w] = job.share /\ job.share \in Nat \ {0} /\ helpers[w] <= job.share - 1
      BY <1>0, <2>1, <2>2, <2>4 DEF HelpersFit, JobFits, Jobs
    <3>2. ThreadBudget(w) = job.share
      BY <3>1 DEF ThreadBudget
    <3>3. \A n \in Sizes : PanelThreads(w, n) \in 1..job.share
      BY <1>0, <2>2, <3>2, ThreadsFit
    <3>4. \/ helpers'[w] = helpers[w]
          \/ \E n \in Sizes : helpers'[w] = PanelThreads(w, n) - 1
      BY <1>c, <1>8, <2>4 DEF Take
    <3> QED
      BY <3>1, <3>3, <3>4
  <2>5. JobFits'
    BY <1>0, <2>1 DEF JobFits, Panels
  <2>6. HelpersFit'
    BY <1>0, <2>1, <2>3, <2>4 DEF HelpersFit
  <2> QED
    BY <1>b, <2>5, <2>6 DEF WidthInv
<1>9. ASSUME NEW w \in Workers, BodyDone(w)
      PROVE  WidthInv'
  BY <1>b, <1>c, <1>9, WidthFrame DEF BodyDone, WidthInv
<1>10. ASSUME NEW w \in Workers, BodyFails(w)
      PROVE  WidthInv'
  BY <1>b, <1>c, <1>10, WidthFrame DEF BodyFails, WidthInv
<1>11. ASSUME NEW w \in Workers, BodyThrows(w)
      PROVE  WidthInv'
  BY <1>b, <1>c, <1>11, WidthFrame DEF BodyThrows, WidthInv
<1>12. ASSUME NEW w \in Workers, Finish(w)
      PROVE  WidthInv'
  BY <1>b, <1>c, <1>12, WidthFrame DEF Finish, RestoreShare, WidthInv
<1>13. ASSUME NEW w \in Workers, RecordError(w)
      PROVE  WidthInv'
  BY <1>b, <1>c, <1>13, WidthFrame DEF RecordError, RestoreShare, WidthInv
<1>14. ASSUME NEW w \in Workers, RecordThrown(w)
      PROVE  WidthInv'
  BY <1>b, <1>c, <1>14, WidthFrame DEF RecordThrown, WidthInv
<1>15. ASSUME NEW w \in Workers, MessageOutOfMemory(w)
      PROVE  WidthInv'
  BY <1>b, <1>c, <1>15, WidthFrame DEF MessageOutOfMemory, WidthInv
<1>16. CASE Join
  BY <1>b, <1>c, <1>16, WidthFrame DEF Join, WidthInv
<1>17. CASE Return
  BY <1>b, <1>17 DEF Return, WidthInv, JobFits, HelpersFit
<1>18. CASE UNCHANGED vars
  BY <1>b, <1>c, <1>18, WidthFrame DEF vars, WidthInv
<1> QED
  BY <1>1, <1>2, <1>3, <1>4, <1>5, <1>6, <1>7, <1>8, <1>9, <1>10, <1>11,
     <1>12, <1>13, <1>14, <1>15, <1>16, <1>17, <1>18 DEF Next, Carry, Work

\* A thread begins with no call to fit.
LEMMA Widths == Spec => []WidthInv
<1>1. Init => WidthInv
  BY InitWork DEF Init, WidthInv, JobFits, HelpersFit
<1> QED
  BY <1>1, NextWidth, PTL DEF Spec

\* A worker and its helpers, over all workers, fit the machine: for a batch
\* because threads times share does, for any other call because it has no helpers.
THEOREM ThreadsWithinBudget == Spec => []WithinBudget
<1>1. WidthInv => WithinBudget
  <2> SUFFICES ASSUME WidthInv PROVE WithinBudget
    OBVIOUS
  <2> DEFINE Running ==
        {t \in Workers \X Workers : at[t[1]] \in Busy /\ t[2] <= helpers[t[1]]}
  <2>0. TypeOK /\ Shape /\ JobFits /\ HelpersFit /\ WorkInv /\ 0 \in Workers
        /\ Workers = 0..(NumThreads - 1) /\ NumThreads \in Nat \ {0}
    BY WorkAssumption DEF WidthInv, WorkInv, Workers
  <2>1. ASSUME NEW m \in Nat, NEW n \in Nat, m * n <= NumThreads,
               \A w \in Workers : at[w] \in Busy => w < m /\ helpers[w] < n
        PROVE  WithinBudget
    <3> DEFINE A == 0..(m - 1)
               B == 0..(n - 1)
    <3>1. IsFiniteSet(A) /\ Cardinality(A) = m /\ IsFiniteSet(B) /\ Cardinality(B) = n
      <4>1. 0 \in Int /\ m - 1 \in Int /\ n - 1 \in Int
        OBVIOUS
      <4>2. /\ IsFiniteSet(A) /\ Cardinality(A) = IF 0 > m - 1 THEN 0 ELSE m - 1 - 0 + 1
            /\ IsFiniteSet(B) /\ Cardinality(B) = IF 0 > n - 1 THEN 0 ELSE n - 1 - 0 + 1
        BY <4>1, FS_Interval
      <4> QED
        BY <4>2
    <3>2. Running \subseteq A \X B
      <4> SUFFICES ASSUME NEW w \in Workers, NEW k \in Workers,
                          at[w] \in Busy, k <= helpers[w]
                   PROVE  w \in A /\ k \in B
        OBVIOUS
      <4>1. w < m /\ helpers[w] < n /\ helpers[w] \in Nat /\ w \in Nat /\ k \in Nat
        BY <2>0, <2>1 DEF TypeOK
      <4> QED
        BY <4>1
    <3> HIDE DEF A, B
    <3>3. IsFiniteSet(A \X B) /\ Cardinality(A \X B) = m * n
      BY <3>1, FS_Product
    <3>4. IsFiniteSet(Running) /\ Cardinality(Running) <= m * n
      BY <3>2, <3>3, FS_Subset
    <3>5. Cardinality(Running) \in Nat /\ m * n \in Nat
      BY <3>4, FS_CardinalityType
    <3>6. Cardinality(Running) <= NumThreads
      BY <2>0, <2>1, <3>4, <3>5
    <3> QED
      BY <3>6 DEF WithinBudget
  <2>2. CASE job = NoJob
    <3>1. \A w \in Workers : at[w] \notin Busy
      BY <2>0, <2>2, WorkerHasJob DEF Busy
    <3>2. 0 \in Nat /\ 0 * 0 <= NumThreads
      BY <2>0
    <3> QED
      BY <2>1, <3>1, <3>2
  <2>3. CASE job # NoJob
    <3>1. job \in Jobs /\ job.threads \in 1..NumThreads /\ job.share \in 0..NumThreads
      BY <2>0, <2>3 DEF TypeOK, Jobs
    <3>2. \A w \in Workers : at[w] \in Busy => w < job.threads
      <4> SUFFICES ASSUME NEW w \in Workers, at[w] \in Busy
                   PROVE  w < job.threads
        OBVIOUS
      <4>1. pool \in Nat /\ pool <= job.threads - 1 /\ w \in Nat
        BY <2>0, <2>3 DEF Shape, TypeOK
      <4>2. w <= pool
        BY <2>0, <4>1 DEF Shape, Busy
      <4> QED
        BY <3>1, <4>1, <4>2
    <3>3. CASE job.kind = "batch"
      <4>1. \A w \in Workers : helpers[w] < job.share
        <5>1. \A w \in Workers : helpers[w] \in Int /\ helpers[w] <= job.share - 1
          <6> SUFFICES ASSUME NEW w \in Workers
                       PROVE  helpers[w] \in Int /\ helpers[w] <= job.share - 1
            OBVIOUS
          <6>1. helpers[w] \in 0..(NumThreads - 1)
            BY <2>0 DEF TypeOK
          <6>2. HelpersFit
            BY <2>0
          <6>3. helpers[w] <= job.share - 1
            BY <2>3, <3>3, <6>2 DEF HelpersFit
          <6> QED
            BY <6>1, <6>3
        <5> QED
          BY <3>1, <5>1
      <4>2. job.threads * job.share <= NumThreads
        BY <2>0, <2>3, <3>3 DEF JobFits
      <4> QED
        BY <2>1, <3>1, <3>2, <4>1, <4>2
    <3>4. CASE job.kind # "batch"
      <4>1. \A w \in Workers : helpers[w] < 1
        BY <2>0, <2>3, <3>4 DEF HelpersFit
      <4>2. job.threads * 1 <= NumThreads
        BY <3>1
      <4> QED
        BY <2>1, <3>1, <3>2, <4>1, <4>2
    <3> QED
      BY <3>3, <3>4
  <2> QED
    BY <2>2, <2>3
<1> QED
  BY <1>1, Widths, PTL

\* The panels cut the columns up: every column is in one panel.
LEMMA PanelsPartition ==
  ASSUME NEW n \in Nat, NEW j \in 0..(n - 1)
  PROVE  \E p \in 0..(Panels(n) - 1) :
            {q \in 0..(Panels(n) - 1) : j \in Columns(q, n)} = {p}
<1> DEFINE k == kPanel
           p == j \div k
           m == Panels(n)
<1>0. k \in Nat \ {0} /\ j \in Nat /\ n \in Nat \ {0} /\ j < n
  BY WorkAssumption
<1>1. p \in Nat /\ p * k <= j /\ j < p * k + k
  BY <1>0
<1>2. m \in Nat /\ m * k <= n + k - 1 /\ n + k - 1 < m * k + k
  <2>1. n + k - 1 \in Nat
    BY <1>0
  <2> QED
    BY <1>0, <2>1 DEF Panels
<1> HIDE DEF p, m, k
<1>3. ASSUME NEW a \in Nat, NEW b \in Nat, a < b PROVE a * k + k <= b * k
  <2>1. PICK c \in Nat : b = a + 1 + c
    <3>1. b - a - 1 \in Nat /\ b = a + 1 + (b - a - 1)
      BY <1>3
    <3> QED
      BY <3>1
  <2>2. b * k = a * k + k + c * k /\ c * k \in Nat /\ a * k \in Nat
    BY <1>0, <2>1
  <2> QED
    BY <1>0, <2>2
<1>4. ASSUME NEW q \in Nat
      PROVE  j \in Columns(q, n) <=> q = p
  <2>1. q * k \in Nat /\ p * k \in Nat
    BY <1>0, <1>1
  <2>2. j \in Columns(q, n) <=> q * k <= j /\ j < q * k + k
    BY <1>0, <2>1 DEF Columns, Least, k
  <2>3. CASE q < p
    BY <1>0, <1>1, <1>3, <2>1, <2>2, <2>3
  <2>4. CASE p < q
    BY <1>0, <1>1, <1>3, <2>1, <2>2, <2>4
  <2>5. CASE q = p
    BY <1>1, <2>2, <2>5
  <2> QED
    BY <1>1, <2>3, <2>4, <2>5
<1>5. p < m
  <2>1. SUFFICES ASSUME m <= p PROVE FALSE
    BY <1>1, <1>2
  <2>2. m * k <= p * k
    BY <1>0, <1>1, <1>2, <1>3, <2>1
  <2> QED
    BY <1>0, <1>1, <1>2, <2>2
<1>6. p \in 0..(m - 1) /\ 0..(m - 1) \subseteq Nat
  BY <1>1, <1>2, <1>5
<1>7. {q \in 0..(m - 1) : j \in Columns(q, n)} = {p}
  BY <1>4, <1>6
<1> QED
  BY <1>6, <1>7 DEF m

\* Of the columns of a solve that returns, none is left out and none is solved
\* twice, for any number of columns and any width of panel.
THEOREM EveryColumnSolvedOnce == Spec => []ColumnsSolvedOnce
<1>1. WidthInv => ColumnsSolvedOnce
  <2> SUFFICES ASSUME WidthInv, at[0] = "returned", job.kind = "panels",
                      NEW j \in 0..(job.size - 1)
               PROVE  Cardinality({q \in DOMAIN ran : j \in Columns(q, job.size)}) = 1
    BY DEF ColumnsSolvedOnce
  <2>1. job \in Jobs /\ job # NoJob /\ TypeOK
    BY WorkAssumption, WorkerHasJob DEF WidthInv, WorkInv, Workers
  <2>2. job.size \in Nat /\ DOMAIN ran = 0..(Panels(job.size) - 1)
    BY <2>1 DEF TypeOK, Jobs, WidthInv, JobFits
  <2>3. PICK p \in DOMAIN ran : {q \in DOMAIN ran : j \in Columns(q, job.size)} = {p}
    BY <2>2, PanelsPartition
  <2> QED
    BY <2>3, FS_Singleton
<1> QED
  BY <1>1, Widths, PTL
=============================================================================
