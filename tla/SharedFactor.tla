---------------------------- MODULE SharedFactor ----------------------------
(***************************************************************************)
(* What calls on several threads do with one cached factor at the same     *)
(* time: chains of solves over blocks of columns (chol_apply_solves,       *)
(* *_solve_one), which helper threads share panel by panel; the LDL' copy  *)
(* that the first call to need it makes under ldl_mtx (chol_ensure_ldl);   *)
(* and the calls that change a factor and so work on a copy of that copy   *)
(* (updown_solve, and each path of argmax_logprob).                        *)
(*                                                                         *)
(* A factor's content is the set of changes made to it: {} is the factor   *)
(* of the matrix.  A panel's content is the sequence of solves done to it, *)
(* each with the factor it was done with.                                  *)
(***************************************************************************)
EXTENDS Integers, Sequences

CONSTANTS
  Callers,   \* threads that call
  Calls,     \* calls they may make: [op, mode_chain, chain_lens]
  NPanels,   \* panels of a block, and paths of an argmax call
  MaxChains, \* bound: chains of a call
  MaxCalls,  \* bound: calls of each thread
  None

Ops == {"chain",    \* solves with the cached factor, any backend
        "updown",   \* a changed factor and a solve with it
        "selinv",   \* reads the LDL' copy
        "argmax"}   \* changes a copy for each path

\* Where each of a call's chains starts in mode_chain, all chains flattened end
\* to end: one function for a call, none if chain_lens asks for more modes.
Starts ==
  [asked \in Calls |->
     LET lens == asked.chain_lens
     IN {start \in [1..(Len(lens) + 1) -> 0..Len(asked.mode_chain)] :
           /\ start[1] = 0
           /\ \A n \in 1..Len(lens) : start[n + 1] = start[n] + lens[n]}]

\* The contents of a factor: of the matrix, or with one change made to it.
Contents == {{}} \cup {{<<c, n>>} : c \in Callers, n \in 0..NPanels}

ASSUME SharedAssumption ==
  /\ None \notin Callers /\ None \notin Contents /\ None \notin {"ok", "error"}
  /\ NPanels \in Nat \ {0} /\ MaxCalls \in Nat /\ MaxChains \in Nat
  /\ \A asked \in Calls :
       /\ asked.op \in Ops
       /\ asked.mode_chain \in Seq({-1, 0, 1})   \* -1 is not a solve mode
       /\ asked.chain_lens \in Seq(Nat) /\ Len(asked.chain_lens) <= MaxChains
       /\ Starts[asked] # {}
       /\ asked.op = "updown" =>   \* one solve, its mode looked at on entry
            asked.chain_lens = <<1>> /\ asked.mode_chain[1] # -1

\* Each caller may have a helper thread; 0 is the caller itself.
Workers == Callers \X {0, 1}
Own(w) == w[1]

VARIABLES
  pc, call, made,    \* per caller: where it is, its call, calls made so far
  k, coff, stage,    \* the chain it is at, its offset, and s, its solve
  cursor, failed,    \* of the loop its workers share
  running,           \* its workers that have not left that loop
  block,             \* its buffers: each chain's b and x, and tmpA and tmpB
  job,               \* per worker: the access it is in the middle of
  copy,              \* per worker: its own copy of the LDL' factor
  L, Lldl,           \* the shared factor, and its LDL' copy once made
  ldl_mtx,           \* who holds it
  conversions,       \* g_num_ldl_conversions
  read,              \* per caller: contents its reads of a factor found
  answer             \* per caller: what its last call returned

position == <<k, coff, stage>>
caller == <<pc, call, made, position>>
loop == <<cursor, failed, running>>
shared == <<L, Lldl, ldl_mtx, conversions>>
vars == <<caller, loop, block, job, copy, shared, read, answer>>

Panels == 1..NPanels
Chains == 1..MaxChains
Buffers == ({"b", "x"} \X Chains) \cup ({"tmp"} \X {0, 1})

\* What memory holds that this call has not written.
Stale == << <<{}, -1>> >>

\* A job reads and writes places: a factor, a worker's workspace, its copy of
\* a factor, a panel of a buffer.
Idle == [item |-> 0, reads |-> {}, writes |-> {}, got |-> <<>>]

Init ==
  /\ pc = [c \in Callers |-> "idle"]
  /\ call = [c \in Callers |-> None]
  /\ made = [c \in Callers |-> 0]
  /\ k = [c \in Callers |-> 1]
  /\ coff = [c \in Callers |-> 0]
  /\ stage = [c \in Callers |-> 0]
  /\ cursor = [c \in Callers |-> 1]
  /\ failed = [c \in Callers |-> FALSE]
  /\ running = [c \in Callers |-> {}]
  /\ block = [c \in Callers |-> [buf \in Buffers |-> [p \in Panels |-> Stale]]]
  /\ job = [w \in Workers |-> Idle]
  /\ copy = [w \in Workers |-> None]
  /\ L = {}
  /\ Lldl = None
  /\ ldl_mtx = None
  /\ conversions = 0
  /\ read = [c \in Callers |-> {}]
  /\ answer = [c \in Callers |-> None]

Return(c, result) ==
  /\ pc' = [pc EXCEPT ![c] = "idle"]
  /\ answer' = [answer EXCEPT ![c] = result]

-----------------------------------------------------------------------------
Call(c) ==
  /\ pc[c] = "idle"
  /\ made[c] < MaxCalls
  /\ \E asked \in Calls :
       /\ call' = [call EXCEPT ![c] = asked]
       /\ pc' = [pc EXCEPT ![c] = IF asked.op = "chain" THEN "stage" ELSE "ensure"]
  /\ made' = [made EXCEPT ![c] = @ + 1]
  /\ k' = [k EXCEPT ![c] = 1]
  /\ coff' = [coff EXCEPT ![c] = 0]
  /\ stage' = [stage EXCEPT ![c] = 0]
  /\ block' = [block EXCEPT ![c] = [buf \in Buffers |->
                  CASE buf[1] = "b" -> [p \in Panels |-> <<>>]
                    [] buf[1] = "x" -> [p \in Panels |-> Stale]
                    [] buf[1] = "tmp" -> @[buf]]]
  /\ read' = [read EXCEPT ![c] = {}]
  /\ answer' = [answer EXCEPT ![c] = None]
  /\ UNCHANGED <<loop, job, copy, shared>>

-----------------------------------------------------------------------------
(* chol_ensure_ldl.                                                        *)

\* Where a call goes when the LDL' copy is there.
AfterEnsure(c) == IF call[c].op = "argmax" THEN "fork" ELSE "read"

\* [mutant of Ensure] the copy is looked for before the lock is taken
EnsureUnlocked(c) ==
  /\ pc[c] = "ensure"
  /\ IF Lldl # None
     THEN /\ pc' = [pc EXCEPT ![c] = AfterEnsure(c)]
          /\ UNCHANGED <<job, ldl_mtx>>
     ELSE /\ pc' = [pc EXCEPT ![c] = "convert"]
          /\ job' = [job EXCEPT ![<<c, 0>>] =
                       [Idle EXCEPT !.reads = {<<"L">>}, !.writes = {<<"Lldl">>}]]
          /\ UNCHANGED ldl_mtx
  /\ UNCHANGED <<call, made, position, loop, block, copy, L, Lldl, conversions, read,
                 answer>>

Ensure(c) ==
  /\ pc[c] = "ensure"
  /\ ldl_mtx = None
  /\ IF Lldl # None
     THEN /\ pc' = [pc EXCEPT ![c] = AfterEnsure(c)]
          /\ UNCHANGED <<job, ldl_mtx>>
     ELSE /\ pc' = [pc EXCEPT ![c] = "convert"]
          /\ job' = [job EXCEPT ![<<c, 0>>] =
                       [Idle EXCEPT !.reads = {<<"L">>}, !.writes = {<<"Lldl">>}]]
          /\ ldl_mtx' = c
  /\ UNCHANGED <<call, made, position, loop, block, copy, L, Lldl, conversions, read,
                 answer>>

Converted(c) ==
  /\ pc[c] = "convert"
  /\ Lldl' = L
  /\ conversions' = conversions + 1
  /\ ldl_mtx' = None
  /\ job' = [job EXCEPT ![<<c, 0>>] = Idle]
  /\ pc' = [pc EXCEPT ![c] = AfterEnsure(c)]
  /\ UNCHANGED <<call, made, position, loop, block, copy, L, read, answer>>

\* [mutant of ConvertFails] the lock is not given back
ConvertFailsHolding(c) ==
  /\ pc[c] = "convert"
  /\ job' = [job EXCEPT ![<<c, 0>>] = Idle]
  /\ Return(c, "error")
  /\ UNCHANGED <<call, made, position, loop, block, copy, L, Lldl, ldl_mtx,
                 conversions, read>>

\* cholmod_copy_factor or cholmod_change_factor fails: out of memory.
ConvertFails(c) ==
  /\ pc[c] = "convert"
  /\ ldl_mtx' = None
  /\ job' = [job EXCEPT ![<<c, 0>>] = Idle]
  /\ Return(c, "error")
  /\ UNCHANGED <<call, made, position, loop, block, copy, L, Lldl, conversions, read>>

-----------------------------------------------------------------------------
(* The selected inverse reads the copy, an updown copies it once more.     *)

BeginRead(c) ==
  /\ pc[c] = "read"
  /\ pc' = [pc EXCEPT ![c] = "reading"]
  /\ job' = [job EXCEPT ![<<c, 0>>] =
               [Idle EXCEPT !.reads = {<<"Lldl">>}, !.writes = {<<"copy", c, 0>>},
                            !.got = <<Lldl>>]]
  /\ UNCHANGED <<call, made, position, loop, block, copy, shared, read, answer>>

EndRead(c) ==
  LET got == job[<<c, 0>>].got[1]
  IN /\ pc[c] = "reading"
     /\ job' = [job EXCEPT ![<<c, 0>>] = Idle]
     /\ \/ /\ call[c].op = "selinv"
           /\ read' = [read EXCEPT ![c] = @ \cup {got}]
           /\ Return(c, "ok")
           /\ UNCHANGED copy
        \/ /\ call[c].op = "updown"
           /\ copy' = [copy EXCEPT ![<<c, 0>>] = got]
           /\ pc' = [pc EXCEPT ![c] = "update"]
           /\ UNCHANGED <<read, answer>>
     /\ UNCHANGED <<call, made, position, loop, block, shared>>

\* [mutant of Update] cholmod_updown is given the factor every call shares
UpdateShared(c) ==
  /\ pc[c] = "update"
  /\ Lldl' = Lldl \cup {<<c, 0>>}
  /\ copy' = [copy EXCEPT ![<<c, 0>>] = Lldl']
  /\ pc' = [pc EXCEPT ![c] = "stage"]
  /\ UNCHANGED <<call, made, position, loop, block, job, L, ldl_mtx, conversions, read,
                 answer>>

\* cholmod_updown on the call's own copy.
Update(c) ==
  /\ pc[c] = "update"
  /\ copy' = [copy EXCEPT ![<<c, 0>>] = @ \cup {<<c, 0>>}]
  /\ pc' = [pc EXCEPT ![c] = "stage"]
  /\ UNCHANGED <<call, made, position, loop, block, job, shared, read, answer>>

\* It fails, or leaves a matrix that is not positive definite.
UpdateFails(c) ==
  /\ pc[c] = "update"
  /\ copy' = [copy EXCEPT ![<<c, 0>>] = None]
  /\ Return(c, "error")
  /\ UNCHANGED <<call, made, position, loop, block, job, shared, read>>

-----------------------------------------------------------------------------
(* Solves, stage by stage and panel by panel.                              *)

ChainLen(c) == call[c].chain_lens[k[c]]
LastStage(c) == stage[c] = ChainLen(c) - 1
Mode(c) == call[c].mode_chain[coff[c] + stage[c] + 1]
MoreChains(c) == k[c] <= Len(call[c].chain_lens)

\* The buffer the stage before wrote to: intermediates go to and fro.
In(c) == IF stage[c] = 0 THEN <<"b", k[c]>> ELSE <<"tmp", (stage[c] - 1) % 2>>

Out(c) == IF LastStage(c) THEN <<"x", k[c]>> ELSE <<"tmp", stage[c] % 2>>

\* The factor a stage solves with, and its content.
Factor(c) == IF call[c].op = "updown" THEN <<"copy", c, 0>> ELSE <<"L">>
Content(c) == IF call[c].op = "updown" THEN copy[<<c, 0>>] ELSE L

AllChainsDone(c) ==
  /\ pc[c] = "stage" /\ ~MoreChains(c)
  /\ Return(c, "ok")
  /\ copy' = [copy EXCEPT ![<<c, 0>>] = None]
  /\ UNCHANGED <<call, made, position, loop, block, job, shared, read>>

EmptyChain(c) ==
  /\ pc[c] = "stage" /\ MoreChains(c)
  /\ ChainLen(c) = 0
  /\ block' = [block EXCEPT ![c][<<"x", k[c]>>] = block[c][<<"b", k[c]>>]]
  /\ k' = [k EXCEPT ![c] = @ + 1]
  /\ UNCHANGED <<pc, call, made, coff, stage, loop, job, copy, shared, read, answer>>

InvalidMode(c) ==
  /\ pc[c] = "stage" /\ MoreChains(c)
  /\ ChainLen(c) > 0 /\ Mode(c) = -1
  /\ Return(c, "error")
  /\ UNCHANGED <<call, made, position, loop, block, job, copy, shared, read>>

\* A block of two panels or more is shared with a helper, if one starts.
Fork(c) ==
  /\ \/ pc[c] = "fork"
     \/ pc[c] = "stage" /\ MoreChains(c) /\ ChainLen(c) > 0 /\ Mode(c) # -1
  /\ cursor' = [cursor EXCEPT ![c] = 1]
  /\ failed' = [failed EXCEPT ![c] = FALSE]
  /\ \E helpers \in SUBSET {<<c, 1>>} :
       /\ helpers # {} => NPanels > 1
       /\ running' = [running EXCEPT ![c] = {<<c, 0>>} \cup helpers]
  /\ pc' = [pc EXCEPT ![c] = IF @ = "fork" THEN "paths" ELSE "panels"]
  /\ UNCHANGED <<call, made, position, block, job, copy, shared, read, answer>>

AtRest(w) == job[w].item = 0

\* [mutant of Workspace] a KLU solve works in the Xwork of the shared factor
SharedWorkspace(w) == <<"Xwork">>

\* t_chol's X, Y and E, or the Xwork of a KLU worker's shallow copy, or t_umf.
Workspace(w) == <<"work", w[1], w[2]>>

Panel(buffer, c, p) == buffer \o <<c, p>>

Claim(w) ==
  LET c == Own(w)
      p == cursor[c]
  IN /\ w \in running[c] /\ AtRest(w)
     /\ pc[c] = "panels"
     /\ ~failed[c] /\ p <= NPanels
     /\ cursor' = [cursor EXCEPT ![c] = @ + 1]
     /\ job' = [job EXCEPT ![w] =
          [item |-> p,
           reads |-> {Factor(c), Panel(In(c), c, p)},
           writes |-> {Workspace(w), Panel(Out(c), c, p)},
           got |-> block[c][In(c)][p]]]
     /\ UNCHANGED <<caller, failed, running, block, copy, shared, read, answer>>

Solved(w) ==
  LET c == Own(w)
      done == <<Content(c), Mode(c)>>
  IN /\ pc[c] = "panels" /\ ~AtRest(w)
     /\ block' = [block EXCEPT ![c][Out(c)][job[w].item] = Append(job[w].got, done)]
     /\ job' = [job EXCEPT ![w] = Idle]
     /\ UNCHANGED <<caller, loop, copy, shared, read, answer>>

\* A solve or a path that fails ends its worker, and then the others.
Fails(w) ==
  LET c == Own(w)
  IN /\ pc[c] \in {"panels", "paths"} /\ ~AtRest(w)
     /\ failed' = [failed EXCEPT ![c] = TRUE]
     /\ running' = [running EXCEPT ![c] = @ \ {w}]
     /\ job' = [job EXCEPT ![w] = Idle]
     /\ copy' = IF pc[c] = "paths" THEN [copy EXCEPT ![w] = None] ELSE copy
     /\ UNCHANGED <<caller, cursor, block, shared, read, answer>>

Leave(w) ==
  LET c == Own(w)
  IN /\ w \in running[c] /\ AtRest(w)
     /\ failed[c] \/ cursor[c] > NPanels
     /\ running' = [running EXCEPT ![c] = @ \ {w}]
     /\ UNCHANGED <<caller, cursor, failed, block, job, copy, shared, read, answer>>

\* [mutant of NextChain] the offset stays where the first chain began
NextChainAtStart(c) ==
  /\ k' = [k EXCEPT ![c] = @ + 1]
  /\ stage' = [stage EXCEPT ![c] = 0]
  /\ UNCHANGED coff

NextChain(c) ==
  /\ k' = [k EXCEPT ![c] = @ + 1]
  /\ coff' = [coff EXCEPT ![c] = @ + ChainLen(c)]
  /\ stage' = [stage EXCEPT ![c] = 0]

\* The threads are joined: the next stage, or the answer.
Join(c) ==
  /\ pc[c] \in {"panels", "paths"}
  /\ running[c] = {}
  /\ IF ~failed[c] /\ pc[c] = "panels"
     THEN /\ IF LastStage(c)
             THEN NextChain(c)
             ELSE stage' = [stage EXCEPT ![c] = @ + 1] /\ UNCHANGED <<k, coff>>
          /\ pc' = [pc EXCEPT ![c] = "stage"]
          /\ UNCHANGED <<answer, copy>>
     ELSE /\ Return(c, IF failed[c] THEN "error" ELSE "ok")
          /\ copy' = [copy EXCEPT ![<<c, 0>>] = None]
          /\ UNCHANGED position
  /\ UNCHANGED <<call, made, loop, block, job, shared, read>>

-----------------------------------------------------------------------------
(* The paths of an argmax call: each worker copies the factor of every     *)
(* path it takes, deletes rows of its copy, and reads it.  The factor's    *)
(* ordering is read off the factor, to the end of the path.                *)

ClaimPath(w) ==
  LET c == Own(w)
  IN /\ w \in running[c] /\ AtRest(w)
     /\ pc[c] = "paths"
     /\ ~failed[c] /\ cursor[c] <= NPanels
     /\ cursor' = [cursor EXCEPT ![c] = @ + 1]
     /\ job' = [job EXCEPT ![w] =
          [item |-> cursor[c], reads |-> {<<"Lldl">>},
           writes |-> {<<"copy", c, w[2]>>, <<"logp", c, cursor[c]>>},
           got |-> <<Lldl>>]]
     /\ UNCHANGED <<caller, failed, running, block, copy, shared, read, answer>>

DropRows(w) ==
  LET c == Own(w)
  IN /\ pc[c] = "paths" /\ ~AtRest(w) /\ copy[w] = None
     /\ copy' = [copy EXCEPT ![w] = job[w].got[1] \cup {<<c, job[w].item>>}]
     /\ UNCHANGED <<caller, loop, block, job, shared, read, answer>>

PathDone(w) ==
  LET c == Own(w)
  IN /\ pc[c] = "paths" /\ ~AtRest(w) /\ copy[w] # None
     /\ read' = [read EXCEPT ![c] = @ \cup {copy[w] \ {<<c, job[w].item>>}}]
     /\ copy' = [copy EXCEPT ![w] = None]
     /\ job' = [job EXCEPT ![w] = Idle]
     /\ UNCHANGED <<caller, loop, block, shared, answer>>

CallerSteps(c) ==
  \/ Ensure(c) \/ Converted(c) \/ ConvertFails(c)
  \/ BeginRead(c) \/ EndRead(c) \/ Update(c) \/ UpdateFails(c)
  \/ AllChainsDone(c) \/ EmptyChain(c) \/ InvalidMode(c) \/ Fork(c) \/ Join(c)

WorkerSteps(w) ==
  \/ Claim(w) \/ Solved(w) \/ Fails(w) \/ Leave(w)
  \/ ClaimPath(w) \/ DropRows(w) \/ PathDone(w)

Next ==
  \/ \E c \in Callers : Call(c) \/ CallerSteps(c)
  \/ \E w \in Workers : WorkerSteps(w)

Spec == Init /\ [][Next]_vars

\* Threads get to run; a mutex that becomes free again and again is got in
\* the end.
FairSpec ==
  /\ Spec
  /\ \A c \in Callers : WF_vars(CallerSteps(c)) /\ SF_vars(Ensure(c))
  /\ \A w \in Workers : WF_vars(WorkerSteps(w))

-----------------------------------------------------------------------------
TypeOK ==
  /\ \A c \in Callers :
       /\ pc[c] \in {"idle", "ensure", "convert", "read", "reading", "update",
                     "stage", "panels", "fork", "paths"}
       /\ call[c] \in Calls \cup {None}
       /\ made[c] \in 0..MaxCalls
       /\ running[c] \subseteq {<<c, 0>>, <<c, 1>>}
       /\ cursor[c] \in 1..(NPanels + 1)
       /\ answer[c] \in {None, "ok", "error"}
  /\ \A w \in Workers : job[w].item \in 0..NPanels
  /\ ldl_mtx \in Callers \cup {None}

\* No two threads are in the middle of accesses to one place of which one is
\* a write: not to a factor, nor to the workspace a library's solve writes to
\* through a const factor, nor to a panel of a block.
NoRace ==
  \A v, w \in Workers :
    v # w => job[v].writes \cap (job[w].reads \cup job[w].writes) = {}

\* A factor is converted once, by whoever needs it first, and the copy made
\* then is never replaced while others read it; a conversion that fails leaves
\* the factor as it was, for the next call to convert.
ConvertedOnce == conversions = (IF Lldl = None THEN 0 ELSE 1)

\* The factors that calls share are never changed: an answer is that of the
\* matrix, with the changes its own call asked for and nobody else's.
AnswersOwnFactor ==
  /\ L = {} /\ Lldl \in {None, {}}
  /\ \A c \in Callers : read[c] \subseteq {{}}

\* A call that succeeds has done all solves of each of its chains, in order, to
\* every panel of that chain's block, whatever the thread's buffers held before.
ChainComposes ==
  \A c \in Callers :
    answer[c] = "ok" /\ call[c].op \in {"chain", "updown"} =>
      LET lens == call[c].chain_lens
          changes == IF call[c].op = "updown" THEN {<<c, 0>>} ELSE {}
      IN \A start \in Starts[call[c]], n \in 1..Len(lens), p \in Panels :
           block[c][<<"x", n>>][p] =
             [s \in 1..lens[n] |-> <<changes, call[c].mode_chain[start[n] + s]>>]

\* Every call returns, also when a conversion or a solve fails.
CallsReturn == \A c \in Callers : pc[c] # "idle" ~> pc[c] = "idle"
=============================================================================
