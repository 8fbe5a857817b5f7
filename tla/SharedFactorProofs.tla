------------------------- MODULE SharedFactorProofs -------------------------
(***************************************************************************)
(* Proofs about SharedFactor, for any number of threads, calls, panels and *)
(* chains: the LDL' copy is made once, under ldl_mtx, and never changed;   *)
(* no two threads are in each other's way; and a call that succeeds has    *)
(* done all solves of its chains, in order, to every panel.                *)
(***************************************************************************)
EXTENDS SharedFactor, SequenceTheorems, TLAPS

(***************************************************************************)
(* The inductive invariant: what holds of each caller, given where it is.  *)
(***************************************************************************)
Points == {"idle", "ensure", "convert", "read", "reading", "update",
           "stage", "panels", "fork", "paths"}

Domains ==
  /\ pc \in [Callers -> Points]
  /\ call \in [Callers -> Calls \cup {None}]
  /\ made \in [Callers -> 0..MaxCalls]
  /\ k \in [Callers -> Nat] /\ coff \in [Callers -> Nat] /\ stage \in [Callers -> Nat]
  /\ cursor \in [Callers -> 1..(NPanels + 1)]
  /\ failed \in [Callers -> BOOLEAN]
  /\ running \in [Callers -> SUBSET Workers]
  /\ DOMAIN block = Callers
  /\ \A c \in Callers :
       /\ DOMAIN block[c] = Buffers
       /\ \A buf \in Buffers : DOMAIN block[c][buf] = Panels
  /\ DOMAIN job = Workers
  /\ DOMAIN copy = Workers
  /\ DOMAIN read = Callers
  /\ answer \in [Callers -> {None, "ok", "error"}]

\* The factor is that of the matrix, and so is its copy.
Factors == /\ L = {} /\ Lldl \in {None, {}}
           /\ ConvertedOnce
           /\ ldl_mtx \in Callers \cup {None}

Team(c) == {<<c, 0>>, <<c, 1>>}

\* Who holds ldl_mtx is converting, and while that lasts there is no copy.
HoldsLock(c) ==
  /\ pc[c] = "convert" <=> ldl_mtx = c
  /\ pc[c] = "convert" => Lldl = None
  /\ pc[c] \in {"read", "reading", "update", "fork", "paths"} => Lldl # None

\* A call is where its kind of call goes.
Fits(c) ==
  pc[c] # "idle" =>
    /\ call[c] \in Calls
    /\ pc[c] \in {"ensure", "convert"} => call[c].op # "chain"
    /\ pc[c] \in {"read", "reading"} => call[c].op \in {"selinv", "updown"}
    /\ pc[c] = "update" => call[c].op = "updown"
    /\ pc[c] \in {"stage", "panels"} => call[c].op \in {"chain", "updown"}
    /\ pc[c] \in {"fork", "paths"} => call[c].op = "argmax"

\* A loop is left by its caller only when the panels are out or one failed.
InLoop(c) ==
  /\ running[c] \subseteq Team(c)
  /\ pc[c] \notin {"panels", "paths"} => running[c] = {}
  /\ pc[c] \in {"panels", "paths"} =>
       failed[c] \/ cursor[c] > NPanels \/ <<c, 0>> \in running[c]

PanelJob(w, p) ==
  LET c == Own(w)
  IN [item |-> p,
      reads |-> {Factor(c), Panel(In(c), c, p)},
      writes |-> {Workspace(w), Panel(Out(c), c, p)},
      got |-> block[c][In(c)][p]]

PathJob(w, p) ==
  LET c == Own(w)
  IN [item |-> p, reads |-> {<<"Lldl">>},
      writes |-> {<<"copy", c, w[2]>>, <<"logp", c, p>>}, got |-> <<{}>>]

\* What a worker is in the middle of.
JobOK(w) ==
  LET c == Own(w)
      p == job[w].item
  IN /\ pc[c] = "convert" /\ w[2] = 0 =>
          job[w] = [item |-> 0, reads |-> {<<"L">>}, writes |-> {<<"Lldl">>}, got |-> <<>>]
     /\ pc[c] = "reading" /\ w[2] = 0 =>
          job[w] = [item |-> 0, reads |-> {<<"Lldl">>}, writes |-> {<<"copy", c, 0>>},
                    got |-> <<{}>>]
     /\ p # 0 =>
          /\ pc[c] \in {"panels", "paths"} /\ p \in 1..(cursor[c] - 1) /\ w \in running[c]
          /\ pc[c] = "panels" => job[w] = PanelJob(w, p)
          /\ pc[c] = "paths" => job[w] = PathJob(w, p)
     /\ p = 0 /\ (w[2] = 0 => pc[c] \notin {"convert", "reading"}) => job[w] = Idle

\* No item is taken by two workers.
Apart(c) ==
  job[<<c, 0>>].item = job[<<c, 1>>].item => job[<<c, 0>>].item = 0

\* A worker's copy of the LDL' factor.
CopyOK(w) ==
  LET c == Own(w)
      p == job[w].item
  IN /\ pc[c] = "update" /\ w[2] = 0 => copy[w] = {}
     /\ pc[c] \in {"stage", "panels"} /\ w[2] = 0 /\ call[c].op = "updown" =>
          copy[w] = {<<c, 0>>}
     /\ pc[c] = "paths" /\ p # 0 => copy[w] \in {None, {<<c, p>>}}
     /\ \/ pc[c] \notin {"update", "stage", "panels", "paths"}
        \/ pc[c] \in {"stage", "panels"} /\ call[c].op # "updown"
        \/ pc[c] \in {"update", "stage", "panels"} /\ w[2] = 1
        \/ pc[c] = "paths" /\ p = 0
        => copy[w] = None

\* The solves of chain k start at coff.
Position(c) ==
  pc[c] # "idle" =>
    /\ k[c] \in 1..(Len(call[c].chain_lens) + 1)
    /\ \A start \in Starts[call[c]] : coff[c] = start[k[c]]
    /\ MoreChains(c) => stage[c] = 0 \/ stage[c] < ChainLen(c)
    /\ ~MoreChains(c) => stage[c] = 0
    /\ pc[c] = "panels" => MoreChains(c) /\ stage[c] < ChainLen(c)

Changes(c) == IF call[c].op = "updown" THEN {<<c, 0>>} ELSE {}

\* The first s solves of the chain that starts at off.
Solves(c, off, s) == [i \in 1..s |-> <<Changes(c), call[c].mode_chain[off + i]>>]

ChainsDone(c, upto) ==
  \A start \in Starts[call[c]], n \in 1..upto, p \in Panels :
    block[c][<<"x", n>>][p] = Solves(c, start[n], call[c].chain_lens[n])

\* The chains before k are done, s solves of k are, and one more of each panel
\* that was taken from the loop and is in no worker's hands.
Blocks(c) ==
  pc[c] # "idle" =>
    /\ \A n \in Chains, p \in Panels : block[c][<<"b", n>>][p] = <<>>
    /\ ChainsDone(c, k[c] - 1)
    /\ stage[c] > 0 =>
         \A p \in Panels : block[c][In(c)][p] = Solves(c, coff[c], stage[c])
    /\ pc[c] = "panels" /\ ~failed[c] =>
         \A p \in 1..(cursor[c] - 1) :
           \/ \E w \in Team(c) : job[w].item = p
           \/ block[c][Out(c)][p] = Solves(c, coff[c], stage[c] + 1)

\* An answer is an answer only until the next call, and read was its own.
Answered(c) ==
  /\ pc[c] # "idle" => answer[c] = None
  /\ answer[c] = "ok" => call[c] \in Calls
  /\ answer[c] = "ok" /\ call[c].op \in {"chain", "updown"} =>
       ChainsDone(c, Len(call[c].chain_lens))
  /\ read[c] \subseteq {{}}

CallerInv(c) ==
  /\ HoldsLock(c) /\ Fits(c) /\ InLoop(c) /\ Apart(c)
  /\ \A w \in Team(c) : JobOK(w) /\ CopyOK(w)
  /\ Position(c) /\ Blocks(c) /\ Answered(c)

IInv == Domains /\ Factors /\ \A c \in Callers : CallerInv(c)

-----------------------------------------------------------------------------
(* Workers, places and partial solves.                                     *)

\* A caller's team is its two workers.
LEMMA TeamWorkers ==
  /\ \A c \in Callers : \A w \in Team(c) :
       w \in Workers /\ Own(w) = c /\ w[1] = c /\ w[2] \in {0, 1} /\ w = <<c, w[2]>>
  /\ \A w \in Workers : Own(w) \in Callers /\ w \in Team(Own(w))
BY DEF Team, Workers, Own

\* None is nobody, no content of a factor and no answer; and nothing else is
\* needed of it.
LEMMA NoneIsNothing ==
  /\ None \notin Callers /\ None # {} /\ None # "ok" /\ None # "error"
  /\ \A c \in Callers, n \in 0..NPanels : None # {<<c, n>>}
BY SharedAssumption DEF Contents

\* What is asked of a call.
LEMMA AskedType ==
  ASSUME NEW asked \in Calls
  PROVE  /\ asked.op \in Ops /\ Len(asked.chain_lens) \in Nat
         /\ Len(asked.chain_lens) <= MaxChains
         /\ \A n \in 1..Len(asked.chain_lens) : asked.chain_lens[n] \in Nat
         /\ \A start \in Starts[asked] :
              /\ \A n \in 1..(Len(asked.chain_lens) + 1) : start[n] \in Nat
              /\ start[1] = 0
              /\ \A n \in 1..Len(asked.chain_lens) :
                   start[n + 1] = start[n] + asked.chain_lens[n]
<1>1. asked.op \in Ops /\ asked.chain_lens \in Seq(Nat)
      /\ Len(asked.chain_lens) <= MaxChains
      /\ asked.mode_chain \in Seq({-1, 0, 1})
  BY SharedAssumption
<1>2. Len(asked.chain_lens) \in Nat /\ Len(asked.mode_chain) \in Nat
      /\ \A n \in 1..Len(asked.chain_lens) : asked.chain_lens[n] \in Nat
  BY <1>1
<1> QED
  BY <1>1, <1>2 DEF Starts

\* No solves leave a panel as it was.
LEMMA NoSolves ==
  ASSUME NEW c, NEW off
  PROVE  Solves(c, off, 0) = <<>>
BY DEF Solves

\* One more solve of a panel makes a longer sequence of solves.
LEMMA OneMoreSolve ==
  ASSUME NEW c
  PROVE  \A off, s \in Nat :
           Append(Solves(c, off, s), <<Changes(c), call[c].mode_chain[off + s + 1]>>)
             = Solves(c, off, s + 1)
<1> TAKE off, s \in Nat
<1> DEFINE f == Solves(c, off, s)
           e == <<Changes(c), call[c].mode_chain[off + s + 1]>>
           V == {f[i] : i \in 1..s} \cup {e}
<1>1. f = [i \in 1..s |-> <<Changes(c), call[c].mode_chain[off + i]>>]
  BY DEF Solves
<1>2. f \in [1..s -> V]
  BY <1>1
<1>3. f \in Seq(V) /\ Len(f) = s
  <2>1. f \in Seq(V)
    BY <1>2, SeqDef
  <2>2. DOMAIN f = 1..s
    BY <1>1
  <2>3. DOMAIN f = 1..Len(f) /\ Len(f) \in Nat
    BY <2>1, LenProperties
  <2> HIDE DEF f
  <2> QED
    BY <2>1, <2>2, <2>3
<1>4. Append(f, e) \in Seq(V) /\ Len(Append(f, e)) = s + 1
  BY <1>3
<1>5. \A i \in 1..(s + 1) : Append(f, e)[i] = (IF i <= s THEN f[i] ELSE e)
  BY <1>3
<1>6. Append(f, e) = [i \in 1..(s + 1) |-> Append(f, e)[i]]
  BY <1>4
<1>7. \A i \in 1..(s + 1) :
        Append(f, e)[i] = <<Changes(c), call[c].mode_chain[off + i]>>
  BY <1>5, <1>1
<1> QED
  BY <1>6, <1>7 DEF Solves

\* What a panel of a buffer is, as a place.
LEMMA PanelPlace ==
  ASSUME NEW a, NEW i, NEW c, NEW p
  PROVE  Panel(<<a, i>>, c, p) = <<a, i, c, p>>
<1> DEFINE V == {a, i, c, p}
           s == Panel(<<a, i>>, c, p)
<1>1. <<a, i>> \in Seq(V) /\ <<c, p>> \in Seq(V)
  OBVIOUS
<1>2. s \in Seq(V) /\ Len(s) = 4
  BY <1>1 DEF Panel
<1>3. s[1] = a /\ s[2] = i /\ s[3] = c /\ s[4] = p
  BY <1>1 DEF Panel
<1>4. <<a, i, c, p>> \in Seq(V) /\ Len(<<a, i, c, p>>) = 4
  OBVIOUS
<1>5. \A n \in 1..4 : s[n] = <<a, i, c, p>>[n]
  BY <1>3
<1> QED
  BY <1>2, <1>4, <1>5, SeqEqual

\* The buffers a stage works on.
LEMMA StageBuffers ==
  ASSUME Domains, NEW c \in Callers, Fits(c), Position(c), pc[c] # "idle",
         MoreChains(c)
  PROVE  /\ In(c) \in Buffers /\ Out(c) \in Buffers /\ In(c) # Out(c)
         /\ k[c] \in Chains
         /\ \A n \in 1..(k[c] - 1) : Out(c) # <<"x", n>>
         /\ \A n : Out(c) # <<"b", n>>
<1> DEFINE lens == call[c].chain_lens
<1>1. call[c] \in Calls
  BY DEF Fits
<1>2. lens \in Seq(Nat) /\ Len(lens) <= MaxChains /\ Len(lens) \in Nat
  BY <1>1, SharedAssumption
<1>3. k[c] \in Chains /\ k[c] \in Nat /\ k[c] <= Len(lens)
  BY <1>2, SharedAssumption DEF Position, MoreChains, Chains, Domains
<1>4. stage[c] \in Nat
  BY DEF Domains
<1>5. (stage[c] - 1) % 2 \in {0, 1} /\ stage[c] % 2 \in {0, 1}
  BY <1>4
<1>6. (stage[c] - 1) % 2 # stage[c] % 2
  BY <1>4
<1>7. In(c) \in Buffers /\ Out(c) \in Buffers
  BY <1>3, <1>5 DEF In, Out, Buffers
<1>8. In(c) # Out(c)
  BY <1>6 DEF In, Out
<1>9. \A n \in 1..(k[c] - 1) : Out(c) # <<"x", n>>
  BY <1>3 DEF Out
<1>10. \A n : Out(c) # <<"b", n>>
  BY DEF Out
<1> QED
  BY <1>3, <1>7, <1>8, <1>9, <1>10

-----------------------------------------------------------------------------
(* What a step leaves alone.                                               *)

\* Caller d and its team are where they were.
Same(d) ==
  /\ pc'[d] = pc[d] /\ call'[d] = call[d]
  /\ k'[d] = k[d] /\ coff'[d] = coff[d] /\ stage'[d] = stage[d]
  /\ cursor'[d] = cursor[d] /\ failed'[d] = failed[d] /\ running'[d] = running[d]
  /\ block'[d] = block[d] /\ read'[d] = read[d] /\ answer'[d] = answer[d]
  /\ \A w \in Team(d) : job'[w] = job[w] /\ copy'[w] = copy[w]

\* While a caller's call and position stay, so does all that is read off them.
LEMMA PlaceStays ==
  ASSUME NEW c, call'[c] = call[c], k'[c] = k[c], coff'[c] = coff[c],
         stage'[c] = stage[c]
  PROVE  /\ ChainLen(c)' = ChainLen(c) /\ LastStage(c)' = LastStage(c)
         /\ Mode(c)' = Mode(c) /\ MoreChains(c)' = MoreChains(c)
         /\ In(c)' = In(c) /\ Out(c)' = Out(c)
         /\ Factor(c)' = Factor(c) /\ Changes(c)' = Changes(c)
         /\ \A off, s : Solves(c, off, s)' = Solves(c, off, s)
<1>1. ChainLen(c)' = ChainLen(c) /\ LastStage(c)' = LastStage(c) /\ Mode(c)' = Mode(c)
      /\ MoreChains(c)' = MoreChains(c)
  BY DEF ChainLen, LastStage, Mode, MoreChains
<1>2. In(c)' = In(c) /\ Out(c)' = Out(c) /\ Factor(c)' = Factor(c)
      /\ Changes(c)' = Changes(c)
  BY <1>1 DEF In, Out, Factor, Changes
<1>3. \A off, s : Solves(c, off, s)' = Solves(c, off, s)
  BY <1>2 DEF Solves
<1> QED
  BY <1>1, <1>2, <1>3

\* A helper that has nothing in hand may be left as it is by any step.
LEMMA HelperStays ==
  ASSUME NEW c \in Callers, JobOK(<<c, 1>>), pc[c] \notin {"panels", "paths"},
         job'[<<c, 1>>] = job[<<c, 1>>]
  PROVE  JobOK(<<c, 1>>)'
<1>1. Own(<<c, 1>>) = c /\ <<c, 1>>[2] = 1
  BY DEF Own
<1>2. job[<<c, 1>>].item = 0 /\ job[<<c, 1>>] = Idle
  BY <1>1 DEF JobOK
<1>3. Idle.item = 0
  BY DEF Idle
<1> QED
  BY <1>1, <1>2, <1>3 DEF JobOK

\* So may a caller, unless the step begins an access of its own.
LEMMA CallerStays ==
  ASSUME NEW c \in Callers, JobOK(<<c, 0>>), job'[<<c, 0>>] = job[<<c, 0>>],
         pc[c] \notin {"panels", "paths", "convert", "reading"},
         pc'[c] \notin {"convert", "reading"}
  PROVE  JobOK(<<c, 0>>)'
<1>1. Own(<<c, 0>>) = c /\ <<c, 0>>[2] = 0
  BY DEF Own
<1>2. job[<<c, 0>>].item = 0 /\ job[<<c, 0>>] = Idle
  BY <1>1 DEF JobOK
<1>3. Idle.item = 0
  BY DEF Idle
<1> QED
  BY <1>1, <1>2, <1>3 DEF JobOK

\* A caller that a step is not about keeps its invariant, whatever the step
\* does to the lock and to the copy, if it does not take what the caller holds.
LEMMA OthersStay ==
  ASSUME IInv, NEW d \in Callers, Same(d), L' = L,
         Lldl' = Lldl \/ (Lldl = None /\ ldl_mtx # d),
         ldl_mtx' = ldl_mtx \/ (ldl_mtx # d /\ ldl_mtx' # d)
  PROVE  CallerInv(d)'
<1> USE TeamWorkers DEF Same
<1>1. CallerInv(d)
  BY DEF IInv
<1>2. HoldsLock(d)'
  BY <1>1 DEF CallerInv, HoldsLock
<1>3. Fits(d)'
  BY <1>1 DEF CallerInv, Fits
<1>4. InLoop(d)' /\ Apart(d)'
  BY <1>1 DEF CallerInv, InLoop, Apart, Team
<1>5. /\ In(d)' = In(d) /\ Out(d)' = Out(d) /\ MoreChains(d)' = MoreChains(d)
      /\ Factor(d)' = Factor(d) /\ ChainLen(d)' = ChainLen(d)
      /\ \A off, s : Solves(d, off, s)' = Solves(d, off, s)
  BY PlaceStays
<1>6. \A w \in Team(d) : JobOK(w)' /\ CopyOK(w)'
  <2> SUFFICES ASSUME NEW w \in Team(d) PROVE JobOK(w)' /\ CopyOK(w)'
    OBVIOUS
  <2>1. JobOK(w) /\ CopyOK(w)
    BY <1>1 DEF CallerInv
  <2>2. \A p : PanelJob(w, p)' = PanelJob(w, p) /\ PathJob(w, p)' = PathJob(w, p)
    BY <1>5 DEF PanelJob, PathJob
  <2>3. JobOK(w)'
    BY <2>1, <2>2 DEF JobOK
  <2>4. CopyOK(w)'
    BY <2>1 DEF CopyOK
  <2> QED
    BY <2>3, <2>4
<1>7. Position(d)'
  BY <1>1, <1>5 DEF CallerInv, Position
<1>8. \A n : ChainsDone(d, n)' = ChainsDone(d, n)
  BY <1>5 DEF ChainsDone
<1>9. Blocks(d)'
  BY <1>1, <1>5, <1>8 DEF CallerInv, Blocks
<1>10. Answered(d)'
  BY <1>1, <1>8 DEF CallerInv, Answered
<1> QED
  BY <1>2, <1>3, <1>4, <1>6, <1>7, <1>9, <1>10 DEF CallerInv

-----------------------------------------------------------------------------
(* The steps of a caller.                                                  *)

\* A call begins, whatever the thread's buffers held.
LEMMA CallKeeps ==
  ASSUME IInv, NEW c \in Callers, Call(c)
  PROVE  IInv'
<1> USE TeamWorkers
<1>1. /\ Domains /\ Factors
      /\ HoldsLock(c) /\ Fits(c) /\ InLoop(c) /\ Apart(c) /\ Position(c)
      /\ Blocks(c) /\ Answered(c)
      /\ \A w \in Team(c) : JobOK(w) /\ CopyOK(w)
  BY DEF IInv, CallerInv
<1>a. /\ pc[c] = "idle"
      /\ \E asked \in Calls :
           /\ call' = [call EXCEPT ![c] = asked]
           /\ pc' = [pc EXCEPT ![c] = IF asked.op = "chain" THEN "stage" ELSE "ensure"]
      /\ made' \in [Callers -> 0..MaxCalls]
      /\ k' = [k EXCEPT ![c] = 1] /\ coff' = [coff EXCEPT ![c] = 0]
      /\ stage' = [stage EXCEPT ![c] = 0]
      /\ DOMAIN block' = Callers /\ \A d \in Callers \ {c} : block'[d] = block[d]
      /\ DOMAIN block'[c] = Buffers /\ \A buf \in Buffers : DOMAIN block'[c][buf] = Panels
      /\ \A n \in Chains, p \in Panels : block'[c][<<"b", n>>][p] = <<>>
      /\ read' = [read EXCEPT ![c] = {}] /\ answer' = [answer EXCEPT ![c] = None]
      /\ UNCHANGED <<loop, job, copy, shared>>
  <2>1. made[c] < MaxCalls /\ made' = [made EXCEPT ![c] = @ + 1]
    BY DEF Call
  <2>2. made' \in [Callers -> 0..MaxCalls]
    BY <1>1, <2>1, SharedAssumption DEF Domains
  <2> DEFINE new == [buf \in Buffers |->
                  CASE buf[1] = "b" -> [p \in Panels |-> <<>>]
                    [] buf[1] = "x" -> [p \in Panels |-> Stale]
                    [] buf[1] = "tmp" -> block[c][buf]]
  <2>3. block' = [block EXCEPT ![c] = new]
    BY DEF Call
  <2>4. DOMAIN block' = Callers /\ (\A d \in Callers \ {c} : block'[d] = block[d])
        /\ block'[c] = new
    BY <1>1, <2>3 DEF Domains
  <2>5. \A n \in Chains : <<"b", n>> \in Buffers /\ new[<<"b", n>>] = [p \in Panels |-> <<>>]
    BY DEF Buffers
  <2>6. \A buf \in Buffers : DOMAIN new[buf] = Panels
    <3> SUFFICES ASSUME NEW buf \in Buffers PROVE DOMAIN new[buf] = Panels
      OBVIOUS
    <3>1. CASE buf[1] = "b"
      BY <3>1
    <3>2. CASE buf[1] = "x"
      BY <3>2
    <3>3. CASE buf[1] = "tmp"
      BY <1>1, <3>3 DEF Domains
    <3> QED
      BY <3>1, <3>2, <3>3 DEF Buffers
  <2>7. DOMAIN new = Buffers
    OBVIOUS
  <2> HIDE DEF new
  <2> QED
    BY <2>2, <2>4, <2>5, <2>6, <2>7 DEF Call
<1>2. /\ k'[c] = 1 /\ coff'[c] = 0 /\ stage'[c] = 0 /\ call'[c] \in Calls
      /\ pc'[c] \in {"stage", "ensure"}
      /\ (pc'[c] = "stage") <=> (call'[c].op = "chain")
      /\ answer'[c] = None /\ read'[c] = {}
  BY <1>a, <1>1 DEF Domains
<1>3. Domains'
  <2>1. \A d \in Callers :
          /\ DOMAIN block'[d] = Buffers
          /\ \A buf \in Buffers : DOMAIN block'[d][buf] = Panels
    <3> SUFFICES ASSUME NEW d \in Callers
                 PROVE  /\ DOMAIN block'[d] = Buffers
                        /\ \A buf \in Buffers : DOMAIN block'[d][buf] = Panels
      OBVIOUS
    <3>1. CASE d = c
      BY <1>a, <3>1
    <3>2. CASE d # c
      BY <1>1, <1>a, <3>2 DEF Domains
    <3> QED
      BY <3>1, <3>2
  <2>2. /\ pc' \in [Callers -> Points] /\ call' \in [Callers -> Calls \cup {None}]
        /\ k' \in [Callers -> Nat] /\ coff' \in [Callers -> Nat]
        /\ stage' \in [Callers -> Nat] /\ DOMAIN read' = Callers
        /\ answer' \in [Callers -> {None, "ok", "error"}]
    BY <1>1, <1>a DEF Domains, Points
  <2> QED
    BY <1>1, <1>a, <2>1, <2>2 DEF loop, shared, Domains
<1>4. Factors'
  BY <1>a, <1>1, NoneIsNothing
  DEF caller, position, loop, shared, Factors, ConvertedOnce, HoldsLock
<1>5. \A d \in Callers \ {c} : CallerInv(d)'
  <2> SUFFICES ASSUME NEW d \in Callers, d # c PROVE CallerInv(d)'
    OBVIOUS
  <2>1. Same(d)
    BY <1>a, <1>1 DEF caller, position, loop, shared, Domains, Same, Team
  <2>2. /\ L' = L
        /\ Lldl' = Lldl \/ (Lldl = None /\ ldl_mtx # d)
        /\ ldl_mtx' = ldl_mtx \/ (ldl_mtx # d /\ ldl_mtx' # d)
    BY <1>a, <1>1, NoneIsNothing DEF caller, position, loop, shared, Factors, HoldsLock
  <2> QED
    BY <2>1, <2>2, OthersStay
<1>6. HoldsLock(c)'
  BY <1>a, <1>1, NoneIsNothing
  DEF caller, position, loop, shared, HoldsLock, Domains, Factors, AfterEnsure
<1>7. Fits(c)'
  BY <1>2, AskedType DEF Fits, Ops
<1>8. InLoop(c)' /\ Apart(c)'
  BY <1>a, <1>1
  DEF caller, position, loop, shared, InLoop, Apart, Domains, AfterEnsure, Team, Idle
<1>9. \A w \in Team(c) : JobOK(w)'
  <2>1. job' = job /\ \A w \in Team(c) : job[w].item = 0
    BY <1>1, <1>a DEF JobOK
  <2>2. \A w \in Team(c) : job[w] = Idle
    BY <1>1, <1>a, <2>1 DEF JobOK
  <2>3. pc'[c] \notin {"convert", "reading"}
    BY <1>1, <1>a, <1>2
  <2> QED
    BY <2>1, <2>2, <2>3 DEF JobOK
<1>10. \A w \in Team(c) : CopyOK(w)'
  BY <1>1, <1>a, <1>2 DEF CopyOK
<1>11. Position(c)'
  <2>1. Len(call'[c].chain_lens) \in Nat /\ \A start \in Starts[call'[c]] : start[1] = 0
    BY <1>2, AskedType
  <2> QED
    BY <1>2, <2>1 DEF Position
<1>12. Blocks(c)'
  BY <1>a, <1>2 DEF Blocks, ChainsDone
<1>13. Answered(c)'
  BY <1>2, NoneIsNothing DEF Answered
<1> QED
  BY <1>a, <1>3, <1>4, <1>5, <1>6, <1>7, <1>8, <1>9, <1>10, <1>11, <1>12, <1>13
  DEF IInv, CallerInv

\* The copy is there.
LEMMA EnsureFoundKeeps ==
  ASSUME IInv, NEW c \in Callers, Ensure(c), Lldl # None
  PROVE  IInv'
<1> USE TeamWorkers
<1>a. /\ pc[c] = "ensure" /\ pc' = [pc EXCEPT ![c] = AfterEnsure(c)]
      /\ UNCHANGED <<job, call, made, position, loop, block, copy, shared, read, answer>>
  BY DEF Ensure, caller, position, loop, shared
<1>1. /\ Domains /\ Factors
      /\ HoldsLock(c) /\ Fits(c) /\ InLoop(c) /\ Apart(c) /\ Position(c)
      /\ Blocks(c) /\ Answered(c)
      /\ \A w \in Team(c) : JobOK(w) /\ CopyOK(w)
  BY DEF IInv, CallerInv
<1>2. /\ In(c)' = In(c) /\ Out(c)' = Out(c) /\ MoreChains(c)' = MoreChains(c)
      /\ Factor(c)' = Factor(c) /\ ChainLen(c)' = ChainLen(c)
      /\ \A off, s : Solves(c, off, s)' = Solves(c, off, s)
  BY <1>a, PlaceStays DEF caller, position, loop, shared, Domains
<1>3. Domains'
  BY <1>a, <1>1, SharedAssumption
  DEF caller, position, loop, shared, Domains, Points, AfterEnsure
<1>4. Factors'
  BY <1>a, <1>1, NoneIsNothing
  DEF caller, position, loop, shared, Factors, ConvertedOnce, HoldsLock
<1>5. \A d \in Callers \ {c} : CallerInv(d)'
  <2> SUFFICES ASSUME NEW d \in Callers, d # c PROVE CallerInv(d)'
    OBVIOUS
  <2>1. Same(d)
    BY <1>a, <1>1 DEF caller, position, loop, shared, Domains, Same, Team
  <2>2. /\ L' = L
        /\ Lldl' = Lldl \/ (Lldl = None /\ ldl_mtx # d)
        /\ ldl_mtx' = ldl_mtx \/ (ldl_mtx # d /\ ldl_mtx' # d)
    BY <1>a, <1>1, NoneIsNothing DEF caller, position, loop, shared, Factors, HoldsLock
  <2> QED
    BY <2>1, <2>2, OthersStay
<1>6. HoldsLock(c)'
  BY <1>a, <1>1, NoneIsNothing
  DEF caller, position, loop, shared, HoldsLock, Domains, Factors, AfterEnsure
<1>7. Fits(c)'
  BY <1>a, <1>1, AskedType
  DEF caller, position, loop, shared, Fits, Domains, AfterEnsure, Ops
<1>8. InLoop(c)' /\ Apart(c)'
  BY <1>a, <1>1
  DEF caller, position, loop, shared, InLoop, Apart, Domains, AfterEnsure, Team, Idle
<1>9. \A w \in Team(c) : JobOK(w)'
  <2>1. <<c, 0>> \in Team(c) /\ <<c, 1>> \in Team(c) /\ <<c, 1>> # <<c, 0>>
    BY DEF Team
  <2>2. job'[<<c, 0>>] = job[<<c, 0>>]
    BY <1>a, <1>1, NoneIsNothing, <2>1
    DEF caller, position, loop, shared, JobOK, Domains, AfterEnsure, Idle, Factors,
          HoldsLock, Fits
  <2>3. job'[<<c, 1>>] = job[<<c, 1>>]
    BY <1>a, <1>1, NoneIsNothing, <2>1
    DEF caller, position, loop, shared, JobOK, Domains, AfterEnsure, Idle, Factors,
          HoldsLock, Fits
  <2>4. JobOK(<<c, 0>>)'
    <3>1. pc'[c] \notin {"convert", "reading"}
      BY <1>a, <1>1 DEF Domains, AfterEnsure
    <3> QED
      BY <1>a, <1>1, <2>1, <2>2, <3>1, CallerStays
  <2>5. JobOK(<<c, 1>>)'
    BY <1>a, <1>1, <2>1, <2>3, HelperStays
  <2> QED
    BY <2>4, <2>5 DEF Team
<1>10. \A w \in Team(c) : CopyOK(w)'
  BY <1>a, <1>1
  DEF caller, position, loop, shared, CopyOK, Domains, AfterEnsure, Fits, Idle
<1>11. Position(c)'
  BY <1>2, <1>a, <1>1 DEF caller, position, loop, shared, Position, Domains, AfterEnsure
<1>12. Blocks(c)'
  BY <1>2, <1>a, <1>1
  DEF caller, position, loop, shared, Blocks, ChainsDone, Domains, AfterEnsure
<1>13. Answered(c)'
  BY <1>2, <1>a, <1>1, NoneIsNothing
  DEF caller, position, loop, shared, Answered, ChainsDone, Domains, AfterEnsure
<1> QED
  BY <1>a, <1>3, <1>4, <1>5, <1>6, <1>7, <1>8, <1>9, <1>10, <1>11, <1>12, <1>13
  DEF IInv, CallerInv

\* The lock is taken.
LEMMA EnsureLocksKeeps ==
  ASSUME IInv, NEW c \in Callers, Ensure(c), Lldl = None
  PROVE  IInv'
<1> USE TeamWorkers
<1>a. /\ pc[c] = "ensure" /\ pc' = [pc EXCEPT ![c] = "convert"]
      /\ ldl_mtx = None /\ ldl_mtx' = c
      /\ job' = [job EXCEPT ![<<c, 0>>] =
                   [Idle EXCEPT !.reads = {<<"L">>}, !.writes = {<<"Lldl">>}]]
      /\ UNCHANGED <<call, made, position, loop, block, copy, L, Lldl, conversions, read,
                     answer>>
  BY DEF Ensure, caller, position, loop, shared
<1>1. /\ Domains /\ Factors
      /\ HoldsLock(c) /\ Fits(c) /\ InLoop(c) /\ Apart(c) /\ Position(c)
      /\ Blocks(c) /\ Answered(c)
      /\ \A w \in Team(c) : JobOK(w) /\ CopyOK(w)
  BY DEF IInv, CallerInv
<1>2. /\ In(c)' = In(c) /\ Out(c)' = Out(c) /\ MoreChains(c)' = MoreChains(c)
      /\ Factor(c)' = Factor(c) /\ ChainLen(c)' = ChainLen(c)
      /\ \A off, s : Solves(c, off, s)' = Solves(c, off, s)
  BY <1>a, PlaceStays DEF caller, position, loop, shared, Domains
<1>3. Domains'
  BY <1>a, <1>1, SharedAssumption
  DEF caller, position, loop, shared, Domains, Points, AfterEnsure
<1>4. Factors'
  BY <1>a, <1>1, NoneIsNothing
  DEF caller, position, loop, shared, Factors, ConvertedOnce, HoldsLock
<1>5. \A d \in Callers \ {c} : CallerInv(d)'
  <2> SUFFICES ASSUME NEW d \in Callers, d # c PROVE CallerInv(d)'
    OBVIOUS
  <2>1. Same(d)
    BY <1>a, <1>1 DEF caller, position, loop, shared, Domains, Same, Team
  <2>2. /\ L' = L
        /\ Lldl' = Lldl \/ (Lldl = None /\ ldl_mtx # d)
        /\ ldl_mtx' = ldl_mtx \/ (ldl_mtx # d /\ ldl_mtx' # d)
    BY <1>a, <1>1, NoneIsNothing DEF caller, position, loop, shared, Factors, HoldsLock
  <2> QED
    BY <2>1, <2>2, OthersStay
<1>6. HoldsLock(c)'
  BY <1>a, <1>1, NoneIsNothing
  DEF caller, position, loop, shared, HoldsLock, Domains, Factors, AfterEnsure
<1>7. Fits(c)'
  BY <1>a, <1>1, AskedType
  DEF caller, position, loop, shared, Fits, Domains, AfterEnsure, Ops
<1>8. InLoop(c)' /\ Apart(c)'
  BY <1>a, <1>1
  DEF caller, position, loop, shared, InLoop, Apart, Domains, AfterEnsure, Team, Idle
<1>9. \A w \in Team(c) : JobOK(w)'
  <2>1. <<c, 0>> \in Team(c) /\ <<c, 1>> \in Team(c) /\ <<c, 1>> # <<c, 0>>
    BY DEF Team
  <2>2. job'[<<c, 0>>] = [item |-> 0, reads |-> {<<"L">>}, writes |-> {<<"Lldl">>},
                          got |-> <<>>]
    BY <1>a, <1>1, NoneIsNothing, <2>1
    DEF caller, position, loop, shared, JobOK, Domains, AfterEnsure, Idle, Factors,
          HoldsLock, Fits
  <2>3. job'[<<c, 1>>] = job[<<c, 1>>]
    BY <1>a, <1>1, NoneIsNothing, <2>1
    DEF caller, position, loop, shared, JobOK, Domains, AfterEnsure, Idle, Factors,
          HoldsLock, Fits
  <2>4. JobOK(<<c, 0>>)'
    BY <1>a, <1>1, NoneIsNothing, <2>1, <2>2
    DEF caller, position, loop, shared, JobOK, Domains, AfterEnsure, Idle, Factors,
          HoldsLock, Fits
  <2>5. JobOK(<<c, 1>>)'
    BY <1>a, <1>1, <2>1, <2>3, HelperStays
  <2> QED
    BY <2>4, <2>5 DEF Team
<1>10. \A w \in Team(c) : CopyOK(w)'
  BY <1>a, <1>1
  DEF caller, position, loop, shared, CopyOK, Domains, AfterEnsure, Fits, Idle
<1>11. Position(c)'
  BY <1>2, <1>a, <1>1 DEF caller, position, loop, shared, Position, Domains, AfterEnsure
<1>12. Blocks(c)'
  BY <1>2, <1>a, <1>1
  DEF caller, position, loop, shared, Blocks, ChainsDone, Domains, AfterEnsure
<1>13. Answered(c)'
  BY <1>2, <1>a, <1>1, NoneIsNothing
  DEF caller, position, loop, shared, Answered, ChainsDone, Domains, AfterEnsure
<1> QED
  BY <1>a, <1>3, <1>4, <1>5, <1>6, <1>7, <1>8, <1>9, <1>10, <1>11, <1>12, <1>13
  DEF IInv, CallerInv

\* A conversion makes the copy and gives the lock back.
LEMMA ConvertedKeeps ==
  ASSUME IInv, NEW c \in Callers, Converted(c)
  PROVE  IInv'
<1> USE TeamWorkers
<1>1. /\ Domains /\ Factors
      /\ HoldsLock(c) /\ Fits(c) /\ InLoop(c) /\ Apart(c) /\ Position(c)
      /\ Blocks(c) /\ Answered(c)
      /\ \A w \in Team(c) : JobOK(w) /\ CopyOK(w)
  BY DEF IInv, CallerInv
<1>2. /\ In(c)' = In(c) /\ Out(c)' = Out(c) /\ MoreChains(c)' = MoreChains(c)
      /\ Factor(c)' = Factor(c) /\ ChainLen(c)' = ChainLen(c)
      /\ \A off, s : Solves(c, off, s)' = Solves(c, off, s)
  BY PlaceStays DEF Converted, caller, position, loop, shared, Domains
<1>3. Domains'
  BY <1>1, SharedAssumption
  DEF Converted, caller, position, loop, shared, Domains, Points, AfterEnsure
<1>4. Factors'
  BY <1>1, NoneIsNothing
  DEF Converted, caller, position, loop, shared, Factors, ConvertedOnce, HoldsLock
<1>5. \A d \in Callers \ {c} : CallerInv(d)'
  <2> SUFFICES ASSUME NEW d \in Callers, d # c PROVE CallerInv(d)'
    OBVIOUS
  <2>1. Same(d)
    BY <1>1 DEF Converted, caller, position, loop, shared, Domains, Same, Team
  <2>2. /\ L' = L
        /\ Lldl' = Lldl \/ (Lldl = None /\ ldl_mtx # d)
        /\ ldl_mtx' = ldl_mtx \/ (ldl_mtx # d /\ ldl_mtx' # d)
    BY <1>1, NoneIsNothing
    DEF Converted, caller, position, loop, shared, Factors, HoldsLock
  <2> QED
    BY <2>1, <2>2, OthersStay
<1>6. HoldsLock(c)'
  BY <1>1, NoneIsNothing
  DEF Converted, caller, position, loop, shared, HoldsLock, Domains, Factors,
        AfterEnsure
<1>7. Fits(c)'
  BY <1>1, AskedType
  DEF Converted, caller, position, loop, shared, Fits, Domains, AfterEnsure, Ops
<1>8. InLoop(c)' /\ Apart(c)'
  BY <1>1
  DEF Converted, caller, position, loop, shared, InLoop, Apart, Domains, AfterEnsure,
        Team, Idle
<1>9. \A w \in Team(c) : JobOK(w)'
  <2>1. <<c, 0>> \in Team(c) /\ <<c, 1>> \in Team(c) /\ <<c, 1>> # <<c, 0>>
    BY DEF Team
  <2>2. job'[<<c, 0>>] = Idle
    BY <1>1, NoneIsNothing, <2>1
    DEF Converted, caller, position, loop, shared, JobOK, Domains, AfterEnsure, Idle,
          Factors, HoldsLock, Fits
  <2>3. job'[<<c, 1>>] = job[<<c, 1>>]
    BY <1>1, NoneIsNothing, <2>1
    DEF Converted, caller, position, loop, shared, JobOK, Domains, AfterEnsure, Idle,
          Factors, HoldsLock, Fits
  <2>4. JobOK(<<c, 0>>)'
    BY <1>1, NoneIsNothing, <2>1, <2>2
    DEF Converted, caller, position, loop, shared, JobOK, Domains, AfterEnsure, Idle,
          Factors, HoldsLock, Fits
  <2>5. JobOK(<<c, 1>>)'
    BY <1>1, <2>1, <2>3, HelperStays DEF Converted
  <2> QED
    BY <2>4, <2>5 DEF Team
<1>10. \A w \in Team(c) : CopyOK(w)'
  BY <1>1
  DEF Converted, caller, position, loop, shared, CopyOK, Domains, AfterEnsure, Fits,
        Idle
<1>11. Position(c)'
  BY <1>2, <1>1
  DEF Converted, caller, position, loop, shared, Position, Domains, AfterEnsure
<1>12. Blocks(c)'
  BY <1>2, <1>1
  DEF Converted, caller, position, loop, shared, Blocks, ChainsDone, Domains,
        AfterEnsure
<1>13. Answered(c)'
  BY <1>2, <1>1, NoneIsNothing
  DEF Converted, caller, position, loop, shared, Answered, ChainsDone, Domains,
        AfterEnsure
<1> QED
  BY <1>3, <1>4, <1>5, <1>6, <1>7, <1>8, <1>9, <1>10, <1>11, <1>12, <1>13
  DEF IInv, CallerInv

\* A conversion that fails only gives the lock back.
LEMMA ConvertFailsKeeps ==
  ASSUME IInv, NEW c \in Callers, ConvertFails(c)
  PROVE  IInv'
<1> USE TeamWorkers
<1>1. /\ Domains /\ Factors
      /\ HoldsLock(c) /\ Fits(c) /\ InLoop(c) /\ Apart(c) /\ Position(c)
      /\ Blocks(c) /\ Answered(c)
      /\ \A w \in Team(c) : JobOK(w) /\ CopyOK(w)
  BY DEF IInv, CallerInv
<1>2. /\ In(c)' = In(c) /\ Out(c)' = Out(c) /\ MoreChains(c)' = MoreChains(c)
      /\ Factor(c)' = Factor(c) /\ ChainLen(c)' = ChainLen(c)
      /\ \A off, s : Solves(c, off, s)' = Solves(c, off, s)
  BY PlaceStays DEF ConvertFails, caller, position, loop, shared, Return, Domains
<1>3. Domains'
  BY <1>1, SharedAssumption
  DEF ConvertFails, caller, position, loop, shared, Return, Domains, Points,
        AfterEnsure
<1>4. Factors'
  BY <1>1, NoneIsNothing
  DEF ConvertFails, caller, position, loop, shared, Return, Factors, ConvertedOnce,
        HoldsLock
<1>5. \A d \in Callers \ {c} : CallerInv(d)'
  <2> SUFFICES ASSUME NEW d \in Callers, d # c PROVE CallerInv(d)'
    OBVIOUS
  <2>1. Same(d)
    BY <1>1
    DEF ConvertFails, caller, position, loop, shared, Return, Domains, Same, Team
  <2>2. /\ L' = L
        /\ Lldl' = Lldl \/ (Lldl = None /\ ldl_mtx # d)
        /\ ldl_mtx' = ldl_mtx \/ (ldl_mtx # d /\ ldl_mtx' # d)
    BY <1>1, NoneIsNothing
    DEF ConvertFails, caller, position, loop, shared, Return, Factors, HoldsLock
  <2> QED
    BY <2>1, <2>2, OthersStay
<1>6. HoldsLock(c)'
  BY <1>1, NoneIsNothing
  DEF ConvertFails, caller, position, loop, shared, Return, HoldsLock, Domains,
        Factors, AfterEnsure
<1>7. Fits(c)'
  BY <1>1, AskedType
  DEF ConvertFails, caller, position, loop, shared, Return, Fits, Domains,
        AfterEnsure, Ops
<1>8. InLoop(c)' /\ Apart(c)'
  BY <1>1
  DEF ConvertFails, caller, position, loop, shared, Return, InLoop, Apart, Domains,
        AfterEnsure, Team, Idle
<1>9. \A w \in Team(c) : JobOK(w)'
  <2>1. <<c, 0>> \in Team(c) /\ <<c, 1>> \in Team(c) /\ <<c, 1>> # <<c, 0>>
    BY DEF Team
  <2>2. job'[<<c, 0>>] = Idle
    BY <1>1, NoneIsNothing, <2>1
    DEF ConvertFails, Return, caller, position, loop, shared, JobOK, Domains,
          AfterEnsure, Idle, Factors, HoldsLock, Fits
  <2>3. job'[<<c, 1>>] = job[<<c, 1>>]
    BY <1>1, NoneIsNothing, <2>1
    DEF ConvertFails, Return, caller, position, loop, shared, JobOK, Domains,
          AfterEnsure, Idle, Factors, HoldsLock, Fits
  <2>4. JobOK(<<c, 0>>)'
    BY <1>1, NoneIsNothing, <2>1, <2>2
    DEF ConvertFails, Return, caller, position, loop, shared, JobOK, Domains,
          AfterEnsure, Idle, Factors, HoldsLock, Fits
  <2>5. JobOK(<<c, 1>>)'
    BY <1>1, <2>1, <2>3, HelperStays DEF ConvertFails
  <2> QED
    BY <2>4, <2>5 DEF Team
<1>10. \A w \in Team(c) : CopyOK(w)'
  BY <1>1
  DEF ConvertFails, caller, position, loop, shared, Return, CopyOK, Domains,
        AfterEnsure, Fits, Idle
<1>11. Position(c)'
  BY <1>2, <1>1
  DEF ConvertFails, caller, position, loop, shared, Return, Position, Domains,
        AfterEnsure
<1>12. Blocks(c)'
  BY <1>2, <1>1
  DEF ConvertFails, caller, position, loop, shared, Return, Blocks, ChainsDone,
        Domains, AfterEnsure
<1>13. Answered(c)'
  BY <1>2, <1>1, NoneIsNothing
  DEF ConvertFails, caller, position, loop, shared, Return, Answered, ChainsDone,
        Domains, AfterEnsure
<1> QED
  BY <1>3, <1>4, <1>5, <1>6, <1>7, <1>8, <1>9, <1>10, <1>11, <1>12, <1>13
  DEF IInv, CallerInv

\* The copy is there to be read.
LEMMA BeginReadKeeps ==
  ASSUME IInv, NEW c \in Callers, BeginRead(c)
  PROVE  IInv'
<1> USE TeamWorkers
<1>1. /\ Domains /\ Factors
      /\ HoldsLock(c) /\ Fits(c) /\ InLoop(c) /\ Apart(c) /\ Position(c)
      /\ Blocks(c) /\ Answered(c)
      /\ \A w \in Team(c) : JobOK(w) /\ CopyOK(w)
  BY DEF IInv, CallerInv
<1>2. /\ In(c)' = In(c) /\ Out(c)' = Out(c) /\ MoreChains(c)' = MoreChains(c)
      /\ Factor(c)' = Factor(c) /\ ChainLen(c)' = ChainLen(c)
      /\ \A off, s : Solves(c, off, s)' = Solves(c, off, s)
  BY PlaceStays DEF BeginRead, caller, position, loop, shared, Domains
<1>3. Domains'
  BY <1>1, SharedAssumption
  DEF BeginRead, caller, position, loop, shared, Domains, Points, AfterEnsure
<1>4. Factors'
  BY <1>1, NoneIsNothing
  DEF BeginRead, caller, position, loop, shared, Factors, ConvertedOnce, HoldsLock
<1>5. \A d \in Callers \ {c} : CallerInv(d)'
  <2> SUFFICES ASSUME NEW d \in Callers, d # c PROVE CallerInv(d)'
    OBVIOUS
  <2>1. Same(d)
    BY <1>1 DEF BeginRead, caller, position, loop, shared, Domains, Same, Team
  <2>2. /\ L' = L
        /\ Lldl' = Lldl \/ (Lldl = None /\ ldl_mtx # d)
        /\ ldl_mtx' = ldl_mtx \/ (ldl_mtx # d /\ ldl_mtx' # d)
    BY <1>1, NoneIsNothing
    DEF BeginRead, caller, position, loop, shared, Factors, HoldsLock
  <2> QED
    BY <2>1, <2>2, OthersStay
<1>6. HoldsLock(c)'
  BY <1>1, NoneIsNothing
  DEF BeginRead, caller, position, loop, shared, HoldsLock, Domains, Factors,
        AfterEnsure
<1>7. Fits(c)'
  BY <1>1, AskedType
  DEF BeginRead, caller, position, loop, shared, Fits, Domains, AfterEnsure, Ops
<1>8. InLoop(c)' /\ Apart(c)'
  BY <1>1
  DEF BeginRead, caller, position, loop, shared, InLoop, Apart, Domains, AfterEnsure,
        Team, Idle
<1>9. \A w \in Team(c) : JobOK(w)'
  <2>1. <<c, 0>> \in Team(c) /\ <<c, 1>> \in Team(c) /\ <<c, 1>> # <<c, 0>>
    BY DEF Team
  <2>2. job'[<<c, 0>>] = [item |-> 0, reads |-> {<<"Lldl">>}, writes |-> {<<"copy", c, 0>>},
                          got |-> <<{}>>]
    BY <1>1, NoneIsNothing, <2>1
    DEF BeginRead, caller, position, loop, shared, JobOK, Domains, AfterEnsure, Idle,
          Factors, HoldsLock, Fits
  <2>3. job'[<<c, 1>>] = job[<<c, 1>>]
    BY <1>1, NoneIsNothing, <2>1
    DEF BeginRead, caller, position, loop, shared, JobOK, Domains, AfterEnsure, Idle,
          Factors, HoldsLock, Fits
  <2>4. JobOK(<<c, 0>>)'
    BY <1>1, NoneIsNothing, <2>1, <2>2
    DEF BeginRead, caller, position, loop, shared, JobOK, Domains, AfterEnsure, Idle,
          Factors, HoldsLock, Fits
  <2>5. JobOK(<<c, 1>>)'
    BY <1>1, <2>1, <2>3, HelperStays DEF BeginRead
  <2> QED
    BY <2>4, <2>5 DEF Team
<1>10. \A w \in Team(c) : CopyOK(w)'
  BY <1>1
  DEF BeginRead, caller, position, loop, shared, CopyOK, Domains, AfterEnsure, Fits,
        Idle
<1>11. Position(c)'
  BY <1>2, <1>1
  DEF BeginRead, caller, position, loop, shared, Position, Domains, AfterEnsure
<1>12. Blocks(c)'
  BY <1>2, <1>1
  DEF BeginRead, caller, position, loop, shared, Blocks, ChainsDone, Domains,
        AfterEnsure
<1>13. Answered(c)'
  BY <1>2, <1>1, NoneIsNothing
  DEF BeginRead, caller, position, loop, shared, Answered, ChainsDone, Domains,
        AfterEnsure
<1> QED
  BY <1>3, <1>4, <1>5, <1>6, <1>7, <1>8, <1>9, <1>10, <1>11, <1>12, <1>13
  DEF IInv, CallerInv

\* What was read for a selected inverse is the matrix's factor.
LEMMA EndReadAnswersKeeps ==
  ASSUME IInv, NEW c \in Callers, EndRead(c), call[c].op = "selinv"
  PROVE  IInv'
<1> USE TeamWorkers
<1>a. /\ pc[c] = "reading" /\ job' = [job EXCEPT ![<<c, 0>>] = Idle]
      /\ read' = [read EXCEPT ![c] = @ \cup {job[<<c, 0>>].got[1]}]
      /\ pc' = [pc EXCEPT ![c] = "idle"] /\ answer' = [answer EXCEPT ![c] = "ok"]
      /\ UNCHANGED <<call, made, position, loop, block, copy, shared>>
  BY DEF EndRead, caller, position, loop, shared, Return
<1>1. /\ Domains /\ Factors
      /\ HoldsLock(c) /\ Fits(c) /\ InLoop(c) /\ Apart(c) /\ Position(c)
      /\ Blocks(c) /\ Answered(c)
      /\ \A w \in Team(c) : JobOK(w) /\ CopyOK(w)
  BY DEF IInv, CallerInv
<1>2. /\ In(c)' = In(c) /\ Out(c)' = Out(c) /\ MoreChains(c)' = MoreChains(c)
      /\ Factor(c)' = Factor(c) /\ ChainLen(c)' = ChainLen(c)
      /\ \A off, s : Solves(c, off, s)' = Solves(c, off, s)
  BY <1>a, PlaceStays DEF caller, position, loop, shared, Domains
<1>3. Domains'
  BY <1>a, <1>1, SharedAssumption
  DEF caller, position, loop, shared, Domains, Points, AfterEnsure
<1>4. Factors'
  BY <1>a, <1>1, NoneIsNothing
  DEF caller, position, loop, shared, Factors, ConvertedOnce, HoldsLock
<1>5. \A d \in Callers \ {c} : CallerInv(d)'
  <2> SUFFICES ASSUME NEW d \in Callers, d # c PROVE CallerInv(d)'
    OBVIOUS
  <2>1. Same(d)
    BY <1>a, <1>1 DEF caller, position, loop, shared, Domains, Same, Team
  <2>2. /\ L' = L
        /\ Lldl' = Lldl \/ (Lldl = None /\ ldl_mtx # d)
        /\ ldl_mtx' = ldl_mtx \/ (ldl_mtx # d /\ ldl_mtx' # d)
    BY <1>a, <1>1, NoneIsNothing DEF caller, position, loop, shared, Factors, HoldsLock
  <2> QED
    BY <2>1, <2>2, OthersStay
<1>6. HoldsLock(c)'
  BY <1>a, <1>1, NoneIsNothing
  DEF caller, position, loop, shared, HoldsLock, Domains, Factors, AfterEnsure
<1>7. Fits(c)'
  BY <1>a, <1>1, AskedType
  DEF caller, position, loop, shared, Fits, Domains, AfterEnsure, Ops
<1>8. InLoop(c)' /\ Apart(c)'
  BY <1>a, <1>1
  DEF caller, position, loop, shared, InLoop, Apart, Domains, AfterEnsure, Team, Idle
<1>9. \A w \in Team(c) : JobOK(w)'
  <2>1. <<c, 0>> \in Team(c) /\ <<c, 1>> \in Team(c) /\ <<c, 1>> # <<c, 0>>
    BY DEF Team
  <2>2. job'[<<c, 0>>] = Idle
    BY <1>a, <1>1, NoneIsNothing, <2>1
    DEF caller, position, loop, shared, JobOK, Domains, AfterEnsure, Idle, Factors,
          HoldsLock, Fits
  <2>3. job'[<<c, 1>>] = job[<<c, 1>>]
    BY <1>a, <1>1, NoneIsNothing, <2>1
    DEF caller, position, loop, shared, JobOK, Domains, AfterEnsure, Idle, Factors,
          HoldsLock, Fits
  <2>4. JobOK(<<c, 0>>)'
    BY <1>a, <1>1, NoneIsNothing, <2>1, <2>2
    DEF caller, position, loop, shared, JobOK, Domains, AfterEnsure, Idle, Factors,
          HoldsLock, Fits
  <2>5. JobOK(<<c, 1>>)'
    BY <1>a, <1>1, <2>1, <2>3, HelperStays
  <2> QED
    BY <2>4, <2>5 DEF Team
<1>10. \A w \in Team(c) : CopyOK(w)'
  BY <1>a, <1>1
  DEF caller, position, loop, shared, CopyOK, Domains, AfterEnsure, Fits, Idle
<1>11. Position(c)'
  BY <1>2, <1>a, <1>1 DEF caller, position, loop, shared, Position, Domains, AfterEnsure
<1>12. Blocks(c)'
  BY <1>2, <1>a, <1>1
  DEF caller, position, loop, shared, Blocks, ChainsDone, Domains, AfterEnsure
<1>13. Answered(c)'
  <2>0. job[<<c, 0>>].got[1] = {}
    BY <1>1, <1>a DEF JobOK, Team
  <2> QED
    BY <2>0, <1>a, <1>1, <1>2
    DEF caller, position, loop, shared, Answered, ChainsDone, Domains, Fits
<1> QED
  BY <1>a, <1>3, <1>4, <1>5, <1>6, <1>7, <1>8, <1>9, <1>10, <1>11, <1>12, <1>13
  DEF IInv, CallerInv

\* What was read for an update is copied.
LEMMA EndReadCopiesKeeps ==
  ASSUME IInv, NEW c \in Callers, EndRead(c), call[c].op # "selinv"
  PROVE  IInv'
<1> USE TeamWorkers
<1>a. /\ pc[c] = "reading" /\ job' = [job EXCEPT ![<<c, 0>>] = Idle]
      /\ call[c].op = "updown" /\ pc' = [pc EXCEPT ![c] = "update"]
      /\ copy' = [copy EXCEPT ![<<c, 0>>] = job[<<c, 0>>].got[1]]
      /\ UNCHANGED <<call, made, position, loop, block, shared, read, answer>>
  BY DEF EndRead, caller, position, loop, shared, Return
<1>1. /\ Domains /\ Factors
      /\ HoldsLock(c) /\ Fits(c) /\ InLoop(c) /\ Apart(c) /\ Position(c)
      /\ Blocks(c) /\ Answered(c)
      /\ \A w \in Team(c) : JobOK(w) /\ CopyOK(w)
  BY DEF IInv, CallerInv
<1>2. /\ In(c)' = In(c) /\ Out(c)' = Out(c) /\ MoreChains(c)' = MoreChains(c)
      /\ Factor(c)' = Factor(c) /\ ChainLen(c)' = ChainLen(c)
      /\ \A off, s : Solves(c, off, s)' = Solves(c, off, s)
  BY <1>a, PlaceStays DEF caller, position, loop, shared, Domains
<1>3. Domains'
  BY <1>a, <1>1, SharedAssumption
  DEF caller, position, loop, shared, Domains, Points, AfterEnsure
<1>4. Factors'
  BY <1>a, <1>1, NoneIsNothing
  DEF caller, position, loop, shared, Factors, ConvertedOnce, HoldsLock
<1>5. \A d \in Callers \ {c} : CallerInv(d)'
  <2> SUFFICES ASSUME NEW d \in Callers, d # c PROVE CallerInv(d)'
    OBVIOUS
  <2>1. Same(d)
    BY <1>a, <1>1 DEF caller, position, loop, shared, Domains, Same, Team
  <2>2. /\ L' = L
        /\ Lldl' = Lldl \/ (Lldl = None /\ ldl_mtx # d)
        /\ ldl_mtx' = ldl_mtx \/ (ldl_mtx # d /\ ldl_mtx' # d)
    BY <1>a, <1>1, NoneIsNothing DEF caller, position, loop, shared, Factors, HoldsLock
  <2> QED
    BY <2>1, <2>2, OthersStay
<1>6. HoldsLock(c)'
  BY <1>a, <1>1, NoneIsNothing
  DEF caller, position, loop, shared, HoldsLock, Domains, Factors, AfterEnsure
<1>7. Fits(c)'
  BY <1>a, <1>1, AskedType
  DEF caller, position, loop, shared, Fits, Domains, AfterEnsure, Ops
<1>8. InLoop(c)' /\ Apart(c)'
  BY <1>a, <1>1
  DEF caller, position, loop, shared, InLoop, Apart, Domains, AfterEnsure, Team, Idle
<1>9. \A w \in Team(c) : JobOK(w)'
  <2>1. <<c, 0>> \in Team(c) /\ <<c, 1>> \in Team(c) /\ <<c, 1>> # <<c, 0>>
    BY DEF Team
  <2>2. job'[<<c, 0>>] = Idle
    BY <1>a, <1>1, NoneIsNothing, <2>1
    DEF caller, position, loop, shared, JobOK, Domains, AfterEnsure, Idle, Factors,
          HoldsLock, Fits
  <2>3. job'[<<c, 1>>] = job[<<c, 1>>]
    BY <1>a, <1>1, NoneIsNothing, <2>1
    DEF caller, position, loop, shared, JobOK, Domains, AfterEnsure, Idle, Factors,
          HoldsLock, Fits
  <2>4. JobOK(<<c, 0>>)'
    BY <1>a, <1>1, NoneIsNothing, <2>1, <2>2
    DEF caller, position, loop, shared, JobOK, Domains, AfterEnsure, Idle, Factors,
          HoldsLock, Fits
  <2>5. JobOK(<<c, 1>>)'
    BY <1>a, <1>1, <2>1, <2>3, HelperStays
  <2> QED
    BY <2>4, <2>5 DEF Team
<1>10. \A w \in Team(c) : CopyOK(w)'
  <2>0. job[<<c, 0>>].got[1] = {}
    BY <1>1, <1>a DEF JobOK, Team
  <2>1. <<c, 0>> \in Team(c) /\ <<c, 1>> \in Team(c) /\ <<c, 1>> # <<c, 0>>
    BY DEF Team
  <2>2. copy'[<<c, 0>>] = {}
    BY <1>a, <2>0, <1>1, NoneIsNothing, <2>1
    DEF caller, position, loop, shared, CopyOK, Domains, AfterEnsure, Idle, Factors,
          HoldsLock, Fits
  <2>3. copy'[<<c, 1>>] = copy[<<c, 1>>]
    BY <1>a, <2>0, <1>1, NoneIsNothing, <2>1
    DEF caller, position, loop, shared, CopyOK, Domains, AfterEnsure, Idle, Factors,
          HoldsLock, Fits
  <2>4. CopyOK(<<c, 0>>)'
    BY <1>a, <2>0, <1>1, NoneIsNothing, <2>1, <2>2
    DEF caller, position, loop, shared, CopyOK, Domains, AfterEnsure, Idle, Factors,
          HoldsLock, Fits
  <2>5. CopyOK(<<c, 1>>)'
    BY <1>a, <2>0, <1>1, NoneIsNothing, <2>1, <2>3
    DEF caller, position, loop, shared, CopyOK, Domains, AfterEnsure, Idle, Factors,
          HoldsLock, Fits
  <2> QED
    BY <2>4, <2>5 DEF Team
<1>11. Position(c)'
  BY <1>2, <1>a, <1>1 DEF caller, position, loop, shared, Position, Domains, AfterEnsure
<1>12. Blocks(c)'
  BY <1>2, <1>a, <1>1
  DEF caller, position, loop, shared, Blocks, ChainsDone, Domains, AfterEnsure
<1>13. Answered(c)'
  BY <1>2, <1>a, <1>1, NoneIsNothing
  DEF caller, position, loop, shared, Answered, ChainsDone, Domains, AfterEnsure
<1> QED
  BY <1>a, <1>3, <1>4, <1>5, <1>6, <1>7, <1>8, <1>9, <1>10, <1>11, <1>12, <1>13
  DEF IInv, CallerInv

\* A call changes its own copy.
LEMMA UpdateKeeps ==
  ASSUME IInv, NEW c \in Callers, Update(c)
  PROVE  IInv'
<1> USE TeamWorkers
<1>1. /\ Domains /\ Factors
      /\ HoldsLock(c) /\ Fits(c) /\ InLoop(c) /\ Apart(c) /\ Position(c)
      /\ Blocks(c) /\ Answered(c)
      /\ \A w \in Team(c) : JobOK(w) /\ CopyOK(w)
  BY DEF IInv, CallerInv
<1>2. /\ In(c)' = In(c) /\ Out(c)' = Out(c) /\ MoreChains(c)' = MoreChains(c)
      /\ Factor(c)' = Factor(c) /\ ChainLen(c)' = ChainLen(c)
      /\ \A off, s : Solves(c, off, s)' = Solves(c, off, s)
  BY PlaceStays DEF Update, caller, position, loop, shared, Domains
<1>3. Domains'
  BY <1>1, SharedAssumption
  DEF Update, caller, position, loop, shared, Domains, Points, AfterEnsure
<1>4. Factors'
  BY <1>1, NoneIsNothing
  DEF Update, caller, position, loop, shared, Factors, ConvertedOnce, HoldsLock
<1>5. \A d \in Callers \ {c} : CallerInv(d)'
  <2> SUFFICES ASSUME NEW d \in Callers, d # c PROVE CallerInv(d)'
    OBVIOUS
  <2>1. Same(d)
    BY <1>1 DEF Update, caller, position, loop, shared, Domains, Same, Team
  <2>2. /\ L' = L
        /\ Lldl' = Lldl \/ (Lldl = None /\ ldl_mtx # d)
        /\ ldl_mtx' = ldl_mtx \/ (ldl_mtx # d /\ ldl_mtx' # d)
    BY <1>1, NoneIsNothing
    DEF Update, caller, position, loop, shared, Factors, HoldsLock
  <2> QED
    BY <2>1, <2>2, OthersStay
<1>6. HoldsLock(c)'
  BY <1>1, NoneIsNothing
  DEF Update, caller, position, loop, shared, HoldsLock, Domains, Factors, AfterEnsure
<1>7. Fits(c)'
  BY <1>1, AskedType
  DEF Update, caller, position, loop, shared, Fits, Domains, AfterEnsure, Ops
<1>8. InLoop(c)' /\ Apart(c)'
  BY <1>1
  DEF Update, caller, position, loop, shared, InLoop, Apart, Domains, AfterEnsure,
        Team, Idle
<1>9. \A w \in Team(c) : JobOK(w)'
  <2>1. \A w \in Team(c) : job[w].item = 0
    BY <1>1 DEF Update, JobOK
  <2>2. \A w \in Team(c) : job[w] = Idle
    BY <1>1, <2>1 DEF Update, JobOK
  <2>3. job' = job /\ pc'[c] \in {"idle", "stage"}
    BY <1>1 DEF Update, caller, shared, Domains
  <2> QED
    BY <2>1, <2>2, <2>3 DEF JobOK, Idle
<1>10. \A w \in Team(c) : CopyOK(w)'
  <2>1. <<c, 0>> \in Team(c) /\ <<c, 1>> \in Team(c) /\ <<c, 1>> # <<c, 0>>
    BY DEF Team
  <2>2. copy'[<<c, 0>>] = {<<c, 0>>}
    BY <1>1, NoneIsNothing, <2>1
    DEF Update, caller, position, loop, shared, CopyOK, Domains, AfterEnsure, Idle,
          Factors, HoldsLock, Fits
  <2>3. copy'[<<c, 1>>] = copy[<<c, 1>>]
    BY <1>1, NoneIsNothing, <2>1
    DEF Update, caller, position, loop, shared, CopyOK, Domains, AfterEnsure, Idle,
          Factors, HoldsLock, Fits
  <2>4. CopyOK(<<c, 0>>)'
    BY <1>1, NoneIsNothing, <2>1, <2>2
    DEF Update, caller, position, loop, shared, CopyOK, Domains, AfterEnsure, Idle,
          Factors, HoldsLock, Fits
  <2>5. CopyOK(<<c, 1>>)'
    BY <1>1, NoneIsNothing, <2>1, <2>3
    DEF Update, caller, position, loop, shared, CopyOK, Domains, AfterEnsure, Idle,
          Factors, HoldsLock, Fits
  <2> QED
    BY <2>4, <2>5 DEF Team
<1>11. Position(c)'
  BY <1>2, <1>1
  DEF Update, caller, position, loop, shared, Position, Domains, AfterEnsure
<1>12. Blocks(c)'
  BY <1>2, <1>1
  DEF Update, caller, position, loop, shared, Blocks, ChainsDone, Domains, AfterEnsure
<1>13. Answered(c)'
  BY <1>2, <1>1, NoneIsNothing
  DEF Update, caller, position, loop, shared, Answered, ChainsDone, Domains,
        AfterEnsure
<1> QED
  BY <1>3, <1>4, <1>5, <1>6, <1>7, <1>8, <1>9, <1>10, <1>11, <1>12, <1>13
  DEF IInv, CallerInv

\* A call whose change fails drops its copy.
LEMMA UpdateFailsKeeps ==
  ASSUME IInv, NEW c \in Callers, UpdateFails(c)
  PROVE  IInv'
<1> USE TeamWorkers
<1>1. /\ Domains /\ Factors
      /\ HoldsLock(c) /\ Fits(c) /\ InLoop(c) /\ Apart(c) /\ Position(c)
      /\ Blocks(c) /\ Answered(c)
      /\ \A w \in Team(c) : JobOK(w) /\ CopyOK(w)
  BY DEF IInv, CallerInv
<1>2. /\ In(c)' = In(c) /\ Out(c)' = Out(c) /\ MoreChains(c)' = MoreChains(c)
      /\ Factor(c)' = Factor(c) /\ ChainLen(c)' = ChainLen(c)
      /\ \A off, s : Solves(c, off, s)' = Solves(c, off, s)
  BY PlaceStays DEF UpdateFails, caller, position, loop, shared, Return, Domains
<1>3. Domains'
  BY <1>1, SharedAssumption
  DEF UpdateFails, caller, position, loop, shared, Return, Domains, Points,
        AfterEnsure
<1>4. Factors'
  BY <1>1, NoneIsNothing
  DEF UpdateFails, caller, position, loop, shared, Return, Factors, ConvertedOnce,
        HoldsLock
<1>5. \A d \in Callers \ {c} : CallerInv(d)'
  <2> SUFFICES ASSUME NEW d \in Callers, d # c PROVE CallerInv(d)'
    OBVIOUS
  <2>1. Same(d)
    BY <1>1 DEF UpdateFails, caller, position, loop, shared, Return, Domains, Same, Team
  <2>2. /\ L' = L
        /\ Lldl' = Lldl \/ (Lldl = None /\ ldl_mtx # d)
        /\ ldl_mtx' = ldl_mtx \/ (ldl_mtx # d /\ ldl_mtx' # d)
    BY <1>1, NoneIsNothing
    DEF UpdateFails, caller, position, loop, shared, Return, Factors, HoldsLock
  <2> QED
    BY <2>1, <2>2, OthersStay
<1>6. HoldsLock(c)'
  BY <1>1, NoneIsNothing
  DEF UpdateFails, caller, position, loop, shared, Return, HoldsLock, Domains,
        Factors, AfterEnsure
<1>7. Fits(c)'
  BY <1>1, AskedType
  DEF UpdateFails, caller, position, loop, shared, Return, Fits, Domains, AfterEnsure,
        Ops
<1>8. InLoop(c)' /\ Apart(c)'
  BY <1>1
  DEF UpdateFails, caller, position, loop, shared, Return, InLoop, Apart, Domains,
        AfterEnsure, Team, Idle
<1>9. \A w \in Team(c) : JobOK(w)'
  <2>1. \A w \in Team(c) : job[w].item = 0
    BY <1>1 DEF UpdateFails, JobOK
  <2>2. \A w \in Team(c) : job[w] = Idle
    BY <1>1, <2>1 DEF UpdateFails, JobOK
  <2>3. job' = job /\ pc'[c] \in {"idle", "stage"}
    BY <1>1 DEF UpdateFails, caller, shared, Return, Domains
  <2> QED
    BY <2>1, <2>2, <2>3 DEF JobOK, Idle
<1>10. \A w \in Team(c) : CopyOK(w)'
  BY <1>1
  DEF UpdateFails, caller, position, loop, shared, Return, CopyOK, Domains,
        AfterEnsure, Fits, Idle
<1>11. Position(c)'
  BY <1>2, <1>1
  DEF UpdateFails, caller, position, loop, shared, Return, Position, Domains,
        AfterEnsure
<1>12. Blocks(c)'
  BY <1>2, <1>1
  DEF UpdateFails, caller, position, loop, shared, Return, Blocks, ChainsDone,
        Domains, AfterEnsure
<1>13. Answered(c)'
  BY <1>2, <1>1, NoneIsNothing
  DEF UpdateFails, caller, position, loop, shared, Return, Answered, ChainsDone,
        Domains, AfterEnsure
<1> QED
  BY <1>3, <1>4, <1>5, <1>6, <1>7, <1>8, <1>9, <1>10, <1>11, <1>12, <1>13
  DEF IInv, CallerInv

\* The last chain is done: all are.
LEMMA AllChainsDoneKeeps ==
  ASSUME IInv, NEW c \in Callers, AllChainsDone(c)
  PROVE  IInv'
<1> USE TeamWorkers
<1>1. /\ Domains /\ Factors
      /\ HoldsLock(c) /\ Fits(c) /\ InLoop(c) /\ Apart(c) /\ Position(c)
      /\ Blocks(c) /\ Answered(c)
      /\ \A w \in Team(c) : JobOK(w) /\ CopyOK(w)
  BY DEF IInv, CallerInv
<1>2. /\ In(c)' = In(c) /\ Out(c)' = Out(c) /\ MoreChains(c)' = MoreChains(c)
      /\ Factor(c)' = Factor(c) /\ ChainLen(c)' = ChainLen(c)
      /\ \A off, s : Solves(c, off, s)' = Solves(c, off, s)
  BY PlaceStays DEF AllChainsDone, caller, position, loop, shared, Return, Domains
<1>3. Domains'
  BY <1>1, SharedAssumption
  DEF AllChainsDone, caller, position, loop, shared, Return, Domains, Points,
        AfterEnsure
<1>4. Factors'
  BY <1>1, NoneIsNothing
  DEF AllChainsDone, caller, position, loop, shared, Return, Factors, ConvertedOnce,
        HoldsLock
<1>5. \A d \in Callers \ {c} : CallerInv(d)'
  <2> SUFFICES ASSUME NEW d \in Callers, d # c PROVE CallerInv(d)'
    OBVIOUS
  <2>1. Same(d)
    BY <1>1
    DEF AllChainsDone, caller, position, loop, shared, Return, Domains, Same, Team
  <2>2. /\ L' = L
        /\ Lldl' = Lldl \/ (Lldl = None /\ ldl_mtx # d)
        /\ ldl_mtx' = ldl_mtx \/ (ldl_mtx # d /\ ldl_mtx' # d)
    BY <1>1, NoneIsNothing
    DEF AllChainsDone, caller, position, loop, shared, Return, Factors, HoldsLock
  <2> QED
    BY <2>1, <2>2, OthersStay
<1>6. HoldsLock(c)'
  BY <1>1, NoneIsNothing
  DEF AllChainsDone, caller, position, loop, shared, Return, HoldsLock, Domains,
        Factors, AfterEnsure
<1>7. Fits(c)'
  BY <1>1, AskedType
  DEF AllChainsDone, caller, position, loop, shared, Return, Fits, Domains,
        AfterEnsure, Ops
<1>8. InLoop(c)' /\ Apart(c)'
  BY <1>1
  DEF AllChainsDone, caller, position, loop, shared, Return, InLoop, Apart, Domains,
        AfterEnsure, Team, Idle
<1>9. \A w \in Team(c) : JobOK(w)'
  <2>1. \A w \in Team(c) : job[w].item = 0
    BY <1>1 DEF AllChainsDone, JobOK
  <2>2. \A w \in Team(c) : job[w] = Idle
    BY <1>1, <2>1 DEF AllChainsDone, JobOK
  <2>3. job' = job /\ pc'[c] \in {"idle", "stage"}
    BY <1>1 DEF AllChainsDone, caller, shared, Return, Domains
  <2> QED
    BY <2>1, <2>2, <2>3 DEF JobOK, Idle
<1>10. \A w \in Team(c) : CopyOK(w)'
  BY <1>1
  DEF AllChainsDone, caller, position, loop, shared, Return, CopyOK, Domains,
        AfterEnsure, Fits, Idle
<1>11. Position(c)'
  BY <1>2, <1>1
  DEF AllChainsDone, caller, position, loop, shared, Return, Position, Domains,
        AfterEnsure
<1>12. Blocks(c)'
  BY <1>2, <1>1
  DEF AllChainsDone, caller, position, loop, shared, Return, Blocks, ChainsDone,
        Domains, AfterEnsure
<1>13. Answered(c)'
  <2>1. call[c] \in Calls /\ Len(call[c].chain_lens) \in Nat
    BY <1>1, AskedType DEF AllChainsDone, Fits
  <2>2. k[c] - 1 = Len(call[c].chain_lens)
    BY <1>1, <2>1 DEF AllChainsDone, Position, MoreChains, Domains
  <2>3. ChainsDone(c, Len(call[c].chain_lens))
    BY <1>1, <2>2 DEF AllChainsDone, Blocks
  <2> QED
    BY <1>1, <1>2, <2>1, <2>3
    DEF AllChainsDone, Return, position, Answered, ChainsDone, Domains
<1> QED
  BY <1>3, <1>4, <1>5, <1>6, <1>7, <1>8, <1>9, <1>10, <1>11, <1>12, <1>13
  DEF IInv, CallerInv

\* A chain of no solves copies its right-hand side.
LEMMA EmptyChainKeeps ==
  ASSUME IInv, NEW c \in Callers, EmptyChain(c)
  PROVE  IInv'
<1> USE TeamWorkers
<1>1. /\ Domains /\ Factors
      /\ HoldsLock(c) /\ Fits(c) /\ InLoop(c) /\ Apart(c) /\ Position(c)
      /\ Blocks(c) /\ Answered(c)
      /\ \A w \in Team(c) : JobOK(w) /\ CopyOK(w)
  BY DEF IInv, CallerInv
<1>2. /\ Factor(c)' = Factor(c)
      /\ \A off, s : Solves(c, off, s)' = Solves(c, off, s)
      /\ k[c] \in Chains /\ k[c] \in Nat /\ stage[c] = 0 /\ coff[c] \in Nat
      /\ call[c] \in Calls /\ k[c] \in 1..Len(call[c].chain_lens)
      /\ call[c].chain_lens[k[c]] = 0 /\ Len(call[c].chain_lens) \in Nat
      /\ <<"b", k[c]>> \in Buffers /\ <<"x", k[c]>> \in Buffers
  <2>1. call[c] \in Calls
    BY <1>1 DEF EmptyChain, Fits
  <2>2. Len(call[c].chain_lens) \in Nat
    BY <2>1, AskedType
  <2>3. k[c] \in Chains
    BY <1>1, StageBuffers DEF EmptyChain
  <2>4. Factor(c)' = Factor(c) /\ Changes(c)' = Changes(c)
    BY DEF EmptyChain, Factor, Changes
  <2>5. \A off, s : Solves(c, off, s)' = Solves(c, off, s)
    BY <2>4 DEF EmptyChain, Solves
  <2>6. k[c] \in Nat /\ stage[c] \in Nat /\ coff[c] \in Nat
    BY <1>1 DEF Domains
  <2>7. stage[c] = 0 /\ k[c] \in 1..Len(call[c].chain_lens)
        /\ call[c].chain_lens[k[c]] = 0
    BY <1>1, <2>2, <2>6 DEF EmptyChain, Position, MoreChains, ChainLen
  <2> QED
    BY <2>1, <2>2, <2>3, <2>4, <2>5, <2>6, <2>7 DEF Buffers
<1>3. Domains'
  <2>1. \A d \in Callers : DOMAIN block'[d] = Buffers
    BY <1>1 DEF EmptyChain, Domains
  <2>2. \A d \in Callers, buf \in Buffers :
          block'[d][buf] = IF d = c /\ buf = <<"x", k[c]>> THEN block[c][<<"b", k[c]>>]
                           ELSE block[d][buf]
    BY <1>1 DEF EmptyChain, Domains
  <2>3. \A d \in Callers, buf \in Buffers : DOMAIN block'[d][buf] = Panels
    <3> SUFFICES ASSUME NEW d \in Callers, NEW buf \in Buffers
                 PROVE  DOMAIN block'[d][buf] = Panels
      OBVIOUS
    <3>1. DOMAIN block[d][buf] = Panels /\ DOMAIN block[c][<<"b", k[c]>>] = Panels
      BY <1>1, <1>2 DEF Domains
    <3>2. CASE d = c /\ buf = <<"x", k[c]>>
      BY <2>2, <3>1, <3>2
    <3>3. CASE ~(d = c /\ buf = <<"x", k[c]>>)
      BY <2>2, <3>1, <3>3
    <3> QED
      BY <3>2, <3>3
  <2>4. DOMAIN block' = Callers /\ k' \in [Callers -> Nat]
    BY <1>1, <1>2 DEF EmptyChain, Domains
  <2> QED
    BY <1>1, <2>1, <2>3, <2>4 DEF EmptyChain, loop, shared, Domains
<1>4. Factors'
  BY <1>1, NoneIsNothing
  DEF EmptyChain, caller, position, loop, shared, Factors, ConvertedOnce, HoldsLock
<1>5. \A d \in Callers \ {c} : CallerInv(d)'
  <2> SUFFICES ASSUME NEW d \in Callers, d # c PROVE CallerInv(d)'
    OBVIOUS
  <2>1. Same(d)
    BY <1>1 DEF EmptyChain, caller, position, loop, shared, Domains, Same, Team
  <2>2. /\ L' = L
        /\ Lldl' = Lldl \/ (Lldl = None /\ ldl_mtx # d)
        /\ ldl_mtx' = ldl_mtx \/ (ldl_mtx # d /\ ldl_mtx' # d)
    BY <1>1, NoneIsNothing
    DEF EmptyChain, caller, position, loop, shared, Factors, HoldsLock
  <2> QED
    BY <2>1, <2>2, OthersStay
<1>6. HoldsLock(c)'
  BY <1>1, NoneIsNothing
  DEF EmptyChain, caller, position, loop, shared, HoldsLock, Domains, Factors,
        AfterEnsure
<1>7. Fits(c)'
  BY <1>1, AskedType
  DEF EmptyChain, caller, position, loop, shared, Fits, Domains, AfterEnsure, Ops
<1>8. InLoop(c)' /\ Apart(c)'
  BY <1>1
  DEF EmptyChain, caller, position, loop, shared, InLoop, Apart, Domains, AfterEnsure,
        Team, Idle
<1>9. \A w \in Team(c) : JobOK(w)'
  <2>1. pc[c] = "stage" /\ pc'[c] = "stage" /\ job' = job
    BY DEF EmptyChain
  <2> QED
    BY <1>1, <2>1 DEF JobOK
<1>10. \A w \in Team(c) : CopyOK(w)'
  BY <1>1
  DEF EmptyChain, caller, position, loop, shared, CopyOK, Domains, AfterEnsure, Fits,
        Idle
<1>11. Position(c)'
  <2>1. pc'[c] = "stage" /\ call'[c] = call[c] /\ k'[c] = k[c] + 1
        /\ coff'[c] = coff[c] /\ stage'[c] = 0
    BY <1>1, <1>2 DEF EmptyChain, Domains
  <2>2. \A start \in Starts[call[c]] : coff[c] = start[k[c] + 1]
    <3> SUFFICES ASSUME NEW start \in Starts[call[c]] PROVE coff[c] = start[k[c] + 1]
      OBVIOUS
    <3>1. coff[c] = start[k[c]]
      BY <1>1 DEF EmptyChain, Position
    <3>2. start[k[c] + 1] = start[k[c]] + call[c].chain_lens[k[c]]
      BY <1>2, AskedType
    <3> QED
      BY <3>1, <3>2, <1>2
  <2> QED
    BY <1>2, <2>1, <2>2 DEF Position
<1>12. Blocks(c)'
  <2>1. \A buf \in Buffers :
          block'[c][buf] = IF buf = <<"x", k[c]>> THEN block[c][<<"b", k[c]>>]
                           ELSE block[c][buf]
    BY <1>1 DEF EmptyChain, Domains
  <2>2. \A n \in Chains, p \in Panels : block'[c][<<"b", n>>][p] = <<>>
    <3>1. \A n \in Chains : <<"b", n>> \in Buffers /\ <<"b", n>> # <<"x", k[c]>>
      BY DEF Buffers
    <3>2. \A n \in Chains, p \in Panels : block[c][<<"b", n>>][p] = <<>>
      BY <1>1 DEF EmptyChain, Blocks
    <3> SUFFICES ASSUME NEW n \in Chains, NEW p \in Panels
                 PROVE  block'[c][<<"b", n>>][p] = <<>>
      OBVIOUS
    <3>3. block'[c][<<"b", n>>] = block[c][<<"b", n>>]
      BY <2>1, <3>1
    <3> QED
      BY <3>2, <3>3
  <2>3. \A n \in 1..(k[c] - 1) : n \in Chains /\ <<"x", n>> \in Buffers
    BY <1>2, SharedAssumption DEF Chains, Buffers
  <2>4. ASSUME NEW start \in Starts[call[c]], NEW n \in 1..k[c], NEW p \in Panels
        PROVE  block'[c][<<"x", n>>][p] = Solves(c, start[n], call[c].chain_lens[n])
    <3>1. CASE n = k[c]
      <4>1. block'[c][<<"x", n>>][p] = <<>>
        BY <1>1, <1>2, <2>1, <3>1 DEF EmptyChain, Blocks
      <4> QED
        BY <4>1, <1>2, <3>1, NoSolves
    <3>2. CASE n # k[c]
      <4>1. n \in 1..(k[c] - 1)
        BY <1>2, <3>2
      <4> QED
        BY <1>1, <2>1, <2>3, <4>1, <3>2 DEF EmptyChain, Blocks, ChainsDone
    <3> QED
      BY <3>1, <3>2
  <2>5. ChainsDone(c, k[c] - 1)'
    <3>1. k'[c] - 1 = k[c] /\ call'[c] = call[c]
      BY <1>1, <1>2 DEF EmptyChain, Domains
    <3>2. /\ Starts[call[c]]' = Starts[call[c]]
          /\ \A n : (call[c].chain_lens[n])' = call[c].chain_lens[n]
      BY <3>1
    <3> SUFFICES ASSUME NEW start \in Starts[call[c]], NEW n \in 1..k[c],
                        NEW p \in Panels
                 PROVE  block'[c][<<"x", n>>][p]
                          = Solves(c, start[n], call[c].chain_lens[n])'
      BY <3>1, <3>2 DEF ChainsDone
    <3> QED
      BY <1>2, <2>4, <3>2
  <2> QED
    <3>1. stage'[c] = 0 /\ pc'[c] = "stage"
      BY <1>2 DEF EmptyChain
    <3> QED
      BY <2>2, <2>5, <3>1 DEF Blocks
<1>13. Answered(c)'
  <2>1. pc[c] = "stage" /\ pc'[c] = "stage" /\ answer' = answer /\ read' = read
    BY DEF EmptyChain
  <2> QED
    BY <1>1, <2>1, NoneIsNothing DEF Answered
<1> QED
  BY <1>3, <1>4, <1>5, <1>6, <1>7, <1>8, <1>9, <1>10, <1>11, <1>12, <1>13
  DEF IInv, CallerInv

\* A mode that is none ends the call.
LEMMA InvalidModeKeeps ==
  ASSUME IInv, NEW c \in Callers, InvalidMode(c)
  PROVE  IInv'
<1> USE TeamWorkers
<1>1. /\ Domains /\ Factors
      /\ HoldsLock(c) /\ Fits(c) /\ InLoop(c) /\ Apart(c) /\ Position(c)
      /\ Blocks(c) /\ Answered(c)
      /\ \A w \in Team(c) : JobOK(w) /\ CopyOK(w)
  BY DEF IInv, CallerInv
<1>2. /\ In(c)' = In(c) /\ Out(c)' = Out(c) /\ MoreChains(c)' = MoreChains(c)
      /\ Factor(c)' = Factor(c) /\ ChainLen(c)' = ChainLen(c)
      /\ \A off, s : Solves(c, off, s)' = Solves(c, off, s)
  BY PlaceStays DEF InvalidMode, caller, position, loop, shared, Return, Domains
<1>3. Domains'
  BY <1>1, SharedAssumption
  DEF InvalidMode, caller, position, loop, shared, Return, Domains, Points,
        AfterEnsure
<1>4. Factors'
  BY <1>1, NoneIsNothing
  DEF InvalidMode, caller, position, loop, shared, Return, Factors, ConvertedOnce,
        HoldsLock
<1>5. \A d \in Callers \ {c} : CallerInv(d)'
  <2> SUFFICES ASSUME NEW d \in Callers, d # c PROVE CallerInv(d)'
    OBVIOUS
  <2>1. Same(d)
    BY <1>1 DEF InvalidMode, caller, position, loop, shared, Return, Domains, Same, Team
  <2>2. /\ L' = L
        /\ Lldl' = Lldl \/ (Lldl = None /\ ldl_mtx # d)
        /\ ldl_mtx' = ldl_mtx \/ (ldl_mtx # d /\ ldl_mtx' # d)
    BY <1>1, NoneIsNothing
    DEF InvalidMode, caller, position, loop, shared, Return, Factors, HoldsLock
  <2> QED
    BY <2>1, <2>2, OthersStay
<1>6. HoldsLock(c)'
  BY <1>1, NoneIsNothing
  DEF InvalidMode, caller, position, loop, shared, Return, HoldsLock, Domains,
        Factors, AfterEnsure
<1>7. Fits(c)'
  BY <1>1, AskedType
  DEF InvalidMode, caller, position, loop, shared, Return, Fits, Domains, AfterEnsure,
        Ops
<1>8. InLoop(c)' /\ Apart(c)'
  BY <1>1
  DEF InvalidMode, caller, position, loop, shared, Return, InLoop, Apart, Domains,
        AfterEnsure, Team, Idle
<1>9. \A w \in Team(c) : JobOK(w)'
  <2>1. <<c, 0>> \in Team(c) /\ <<c, 1>> \in Team(c) /\ <<c, 1>> # <<c, 0>>
    BY DEF Team
  <2>2. job'[<<c, 0>>] = job[<<c, 0>>]
    BY <1>1, NoneIsNothing, <2>1
    DEF InvalidMode, Return, caller, position, loop, shared, JobOK, Domains,
          AfterEnsure, Idle, Factors, HoldsLock, Fits
  <2>3. job'[<<c, 1>>] = job[<<c, 1>>]
    BY <1>1, NoneIsNothing, <2>1
    DEF InvalidMode, Return, caller, position, loop, shared, JobOK, Domains,
          AfterEnsure, Idle, Factors, HoldsLock, Fits
  <2>4. JobOK(<<c, 0>>)'
    BY <1>1, NoneIsNothing, <2>1, <2>2
    DEF InvalidMode, Return, caller, position, loop, shared, JobOK, Domains,
          AfterEnsure, Idle, Factors, HoldsLock, Fits
  <2>5. JobOK(<<c, 1>>)'
    BY <1>1, <2>1, <2>3, HelperStays DEF InvalidMode
  <2> QED
    BY <2>4, <2>5 DEF Team
<1>10. \A w \in Team(c) : CopyOK(w)'
  <2>1. call[c].op # "updown"
    <3> SUFFICES ASSUME call[c].op = "updown" PROVE FALSE
      OBVIOUS
    <3>1. call[c] \in Calls
      BY <1>1 DEF InvalidMode, Fits
    <3>2. PICK start \in Starts[call[c]] : TRUE
      BY <3>1, SharedAssumption
    <3>3. call[c].chain_lens = <<1>> /\ call[c].mode_chain[1] # -1
      BY <3>1, SharedAssumption
    <3>4. k[c] = 1 /\ stage[c] = 0
      BY <1>1, <3>3 DEF InvalidMode, Position, MoreChains, ChainLen, Domains
    <3>5. coff[c] = 0
      BY <1>1, <3>1, <3>2, <3>4, AskedType DEF InvalidMode, Position
    <3> QED
      BY <3>3, <3>4, <3>5 DEF InvalidMode, Mode
  <2> QED
    BY <1>1, <2>1 DEF InvalidMode, Return, CopyOK, Domains
<1>11. Position(c)'
  BY <1>2, <1>1
  DEF InvalidMode, caller, position, loop, shared, Return, Position, Domains,
        AfterEnsure
<1>12. Blocks(c)'
  BY <1>2, <1>1
  DEF InvalidMode, caller, position, loop, shared, Return, Blocks, ChainsDone,
        Domains, AfterEnsure
<1>13. Answered(c)'
  BY <1>2, <1>1, NoneIsNothing
  DEF InvalidMode, caller, position, loop, shared, Return, Answered, ChainsDone,
        Domains, AfterEnsure
<1> QED
  BY <1>3, <1>4, <1>5, <1>6, <1>7, <1>8, <1>9, <1>10, <1>11, <1>12, <1>13
  DEF IInv, CallerInv

\* A loop begins.
LEMMA ForkKeeps ==
  ASSUME IInv, NEW c \in Callers, Fork(c)
  PROVE  IInv'
<1> USE TeamWorkers
<1>1. /\ Domains /\ Factors
      /\ HoldsLock(c) /\ Fits(c) /\ InLoop(c) /\ Apart(c) /\ Position(c)
      /\ Blocks(c) /\ Answered(c)
      /\ \A w \in Team(c) : JobOK(w) /\ CopyOK(w)
  BY DEF IInv, CallerInv
<1>a. /\ call[c] \in Calls
      /\ pc[c] = "fork" \/ (pc[c] = "stage" /\ MoreChains(c) /\ ChainLen(c) > 0)
      /\ pc' = [pc EXCEPT ![c] = IF @ = "fork" THEN "paths" ELSE "panels"]
      /\ cursor' = [cursor EXCEPT ![c] = 1] /\ failed' = [failed EXCEPT ![c] = FALSE]
      /\ \E members \in SUBSET Team(c) :
           <<c, 0>> \in members /\ running' = [running EXCEPT ![c] = members]
      /\ UNCHANGED <<call, made, position, block, job, copy, shared, read, answer>>
  BY <1>1 DEF Fork, caller, position, loop, shared, Fits, Team
<1>2. /\ In(c)' = In(c) /\ Out(c)' = Out(c) /\ MoreChains(c)' = MoreChains(c)
      /\ Factor(c)' = Factor(c) /\ ChainLen(c)' = ChainLen(c)
      /\ \A off, s : Solves(c, off, s)' = Solves(c, off, s)
  BY <1>a, PlaceStays DEF caller, position, loop, shared, Domains
<1>3. Domains'
  <2>1. running' \in [Callers -> SUBSET Workers]
    BY <1>a, <1>1 DEF Domains, Team, Workers
  <2>2. pc' \in [Callers -> Points] /\ cursor' \in [Callers -> 1..(NPanels + 1)]
        /\ failed' \in [Callers -> BOOLEAN]
    BY <1>a, <1>1, SharedAssumption DEF Domains, Points
  <2> QED
    BY <1>a, <1>1, <2>1, <2>2 DEF position, shared, Domains
<1>4. Factors'
  BY <1>a, <1>1, NoneIsNothing
  DEF caller, position, loop, shared, Factors, ConvertedOnce, HoldsLock
<1>5. \A d \in Callers \ {c} : CallerInv(d)'
  <2> SUFFICES ASSUME NEW d \in Callers, d # c PROVE CallerInv(d)'
    OBVIOUS
  <2>1. Same(d)
    BY <1>a, <1>1 DEF caller, position, loop, shared, Domains, Same, Team
  <2>2. /\ L' = L
        /\ Lldl' = Lldl \/ (Lldl = None /\ ldl_mtx # d)
        /\ ldl_mtx' = ldl_mtx \/ (ldl_mtx # d /\ ldl_mtx' # d)
    BY <1>a, <1>1, NoneIsNothing DEF caller, position, loop, shared, Factors, HoldsLock
  <2> QED
    BY <2>1, <2>2, OthersStay
<1>6. HoldsLock(c)'
  BY <1>a, <1>1, NoneIsNothing
  DEF caller, position, loop, shared, HoldsLock, Domains, Factors, AfterEnsure
<1>7. Fits(c)'
  BY <1>a, <1>1, AskedType
  DEF caller, position, loop, shared, Fits, Domains, AfterEnsure, Ops
<1>8. InLoop(c)' /\ Apart(c)'
  BY <1>a, <1>1
  DEF caller, position, loop, shared, InLoop, Apart, Domains, AfterEnsure, Team, Idle
<1>9. \A w \in Team(c) : JobOK(w)'
  <2>1. <<c, 0>> \in Team(c) /\ <<c, 1>> \in Team(c) /\ <<c, 1>> # <<c, 0>>
    BY DEF Team
  <2>2. job'[<<c, 0>>] = job[<<c, 0>>]
    BY <1>a, <1>1, NoneIsNothing, <2>1
    DEF caller, position, loop, shared, JobOK, Domains, AfterEnsure, Idle, Factors,
          HoldsLock, Fits
  <2>3. job'[<<c, 1>>] = job[<<c, 1>>]
    BY <1>a, <1>1, NoneIsNothing, <2>1
    DEF caller, position, loop, shared, JobOK, Domains, AfterEnsure, Idle, Factors,
          HoldsLock, Fits
  <2>4. JobOK(<<c, 0>>)'
    <3>1. pc'[c] \notin {"convert", "reading"}
      BY <1>a, <1>1 DEF Domains
    <3> QED
      BY <1>a, <1>1, <2>1, <2>2, <3>1, CallerStays
  <2>5. JobOK(<<c, 1>>)'
    BY <1>a, <1>1, <2>1, <2>3, HelperStays
  <2> QED
    BY <2>4, <2>5 DEF Team
<1>10. \A w \in Team(c) : CopyOK(w)'
  BY <1>a, <1>1
  DEF caller, position, loop, shared, CopyOK, Domains, AfterEnsure, Fits, Idle
<1>11. Position(c)'
  BY <1>2, <1>a, <1>1 DEF caller, position, loop, shared, Position, Domains, AfterEnsure
<1>12. Blocks(c)'
  BY <1>2, <1>a, <1>1
  DEF caller, position, loop, shared, Blocks, ChainsDone, Domains, AfterEnsure
<1>13. Answered(c)'
  BY <1>2, <1>a, <1>1, NoneIsNothing
  DEF caller, position, loop, shared, Answered, ChainsDone, Domains, AfterEnsure
<1> QED
  BY <1>a, <1>3, <1>4, <1>5, <1>6, <1>7, <1>8, <1>9, <1>10, <1>11, <1>12, <1>13
  DEF IInv, CallerInv

\* A loop that failed, or that had paths to go through, ends the call.
LEMMA JoinEndsKeeps ==
  ASSUME IInv, NEW c \in Callers, Join(c), failed[c] \/ pc[c] # "panels"
  PROVE  IInv'
<1> USE TeamWorkers
<1>a. /\ pc[c] \in {"panels", "paths"} /\ running[c] = {}
      /\ answer' = [answer EXCEPT ![c] = IF failed[c] THEN "error" ELSE "ok"]
      /\ pc' = [pc EXCEPT ![c] = "idle"]
      /\ copy' = [copy EXCEPT ![<<c, 0>>] = None]
      /\ UNCHANGED <<call, made, position, loop, block, job, shared, read>>
  BY DEF Join, caller, position, loop, shared, Return
<1>1. /\ Domains /\ Factors
      /\ HoldsLock(c) /\ Fits(c) /\ InLoop(c) /\ Apart(c) /\ Position(c)
      /\ Blocks(c) /\ Answered(c)
      /\ \A w \in Team(c) : JobOK(w) /\ CopyOK(w)
  BY DEF IInv, CallerInv
<1>2. /\ In(c)' = In(c) /\ Out(c)' = Out(c) /\ MoreChains(c)' = MoreChains(c)
      /\ Factor(c)' = Factor(c) /\ ChainLen(c)' = ChainLen(c)
      /\ \A off, s : Solves(c, off, s)' = Solves(c, off, s)
  BY <1>a, PlaceStays DEF caller, position, loop, shared, Domains
<1>3. Domains'
  BY <1>a, <1>1, SharedAssumption
  DEF caller, position, loop, shared, Domains, Points, AfterEnsure
<1>4. Factors'
  BY <1>a, <1>1, NoneIsNothing
  DEF caller, position, loop, shared, Factors, ConvertedOnce, HoldsLock
<1>5. \A d \in Callers \ {c} : CallerInv(d)'
  <2> SUFFICES ASSUME NEW d \in Callers, d # c PROVE CallerInv(d)'
    OBVIOUS
  <2>1. Same(d)
    BY <1>a, <1>1 DEF caller, position, loop, shared, Domains, Same, Team
  <2>2. /\ L' = L
        /\ Lldl' = Lldl \/ (Lldl = None /\ ldl_mtx # d)
        /\ ldl_mtx' = ldl_mtx \/ (ldl_mtx # d /\ ldl_mtx' # d)
    BY <1>a, <1>1, NoneIsNothing DEF caller, position, loop, shared, Factors, HoldsLock
  <2> QED
    BY <2>1, <2>2, OthersStay
<1>6. HoldsLock(c)'
  BY <1>a, <1>1, NoneIsNothing
  DEF caller, position, loop, shared, HoldsLock, Domains, Factors, AfterEnsure
<1>7. Fits(c)'
  BY <1>a, <1>1, AskedType
  DEF caller, position, loop, shared, Fits, Domains, AfterEnsure, Ops
<1>8. InLoop(c)' /\ Apart(c)'
  BY <1>a, <1>1
  DEF caller, position, loop, shared, InLoop, Apart, Domains, AfterEnsure, Team, Idle
<1>9. \A w \in Team(c) : JobOK(w)'
  <2>1. \A w \in Team(c) : job[w].item = 0
    BY <1>1, <1>a DEF JobOK
  <2>2. job' = job /\ pc'[c] = "idle"
    BY <1>a, <1>1 DEF Domains
  <2> QED
    BY <1>a, <1>1, <2>1, <2>2 DEF JobOK
<1>10. \A w \in Team(c) : CopyOK(w)'
  <2>1. \A w \in Team(c) : job[w].item = 0
    BY <1>1, <1>a DEF JobOK
  <2>0. <<c, 0>> \in Team(c) /\ <<c, 1>> \in Team(c) /\ <<c, 1>> # <<c, 0>>
    BY DEF Team
  <2>2. copy'[<<c, 0>>] = None
    BY <1>a, <2>1, <2>0, <1>1, NoneIsNothing, <2>1
    DEF caller, position, loop, shared, CopyOK, Domains, AfterEnsure, Idle, Factors,
          HoldsLock, Fits
  <2>3. copy'[<<c, 1>>] = copy[<<c, 1>>]
    BY <1>a, <2>1, <2>0, <1>1, NoneIsNothing, <2>1
    DEF caller, position, loop, shared, CopyOK, Domains, AfterEnsure, Idle, Factors,
          HoldsLock, Fits
  <2>4. CopyOK(<<c, 0>>)'
    BY <1>a, <2>1, <2>0, <1>1, NoneIsNothing, <2>1, <2>0, <2>2
    DEF caller, position, loop, shared, CopyOK, Domains, AfterEnsure, Idle, Factors,
          HoldsLock, Fits
  <2>5. CopyOK(<<c, 1>>)'
    BY <1>a, <2>1, <2>0, <1>1, NoneIsNothing, <2>1, <2>0, <2>3
    DEF caller, position, loop, shared, CopyOK, Domains, AfterEnsure, Idle, Factors,
          HoldsLock, Fits
  <2> QED
    BY <2>4, <2>5 DEF Team
<1>11. Position(c)'
  BY <1>2, <1>a, <1>1 DEF caller, position, loop, shared, Position, Domains, AfterEnsure
<1>12. Blocks(c)'
  BY <1>2, <1>a, <1>1
  DEF caller, position, loop, shared, Blocks, ChainsDone, Domains, AfterEnsure
<1>13. Answered(c)'
  <2>1. call[c].op = "argmax" \/ failed[c]
    BY <1>1, <1>a DEF Fits
  <2> QED
    BY <1>1, <1>a, <1>2, <2>1, NoneIsNothing DEF Answered, ChainsDone, Domains, Fits
<1> QED
  BY <1>a, <1>3, <1>4, <1>5, <1>6, <1>7, <1>8, <1>9, <1>10, <1>11, <1>12, <1>13
  DEF IInv, CallerInv

\* A stage is done.
LEMMA JoinNextStageKeeps ==
  ASSUME IInv, NEW c \in Callers, Join(c), ~failed[c], pc[c] = "panels", ~LastStage(c)
  PROVE  IInv'
<1> USE TeamWorkers
<1>1. /\ Domains /\ Factors
      /\ HoldsLock(c) /\ Fits(c) /\ InLoop(c) /\ Apart(c) /\ Position(c)
      /\ Blocks(c) /\ Answered(c)
      /\ \A w \in Team(c) : JobOK(w) /\ CopyOK(w)
  BY DEF IInv, CallerInv
<1>a. /\ pc[c] = "panels" /\ running[c] = {} /\ pc' = [pc EXCEPT ![c] = "stage"]
      /\ stage' = [stage EXCEPT ![c] = @ + 1]
      /\ UNCHANGED <<call, made, k, coff, loop, block, job, copy, shared, read, answer>>
  BY DEF Join, caller, position, loop, shared, Return
<1>2. /\ Factor(c)' = Factor(c)
      /\ \A off, s : Solves(c, off, s)' = Solves(c, off, s)
      /\ k[c] \in Chains /\ k[c] \in Nat /\ stage[c] \in Nat /\ coff[c] \in Nat
      /\ call[c] \in Calls /\ k[c] \in 1..Len(call[c].chain_lens)
      /\ Len(call[c].chain_lens) \in Nat /\ ChainLen(c) \in Nat
      /\ MoreChains(c) /\ stage[c] < ChainLen(c)
      /\ \A p \in Panels : block[c][Out(c)][p] = Solves(c, coff[c], stage[c] + 1)
  <2>1. call[c] \in Calls /\ MoreChains(c) /\ stage[c] < ChainLen(c)
    BY <1>1, <1>a DEF Fits, Position
  <2>2. Len(call[c].chain_lens) \in Nat
    BY <2>1, AskedType
  <2>3. k[c] \in Chains
    BY <1>1, <1>a, <2>1, StageBuffers
  <2>4. Factor(c)' = Factor(c) /\ Changes(c)' = Changes(c)
    BY <1>a DEF Factor, Changes
  <2>5. \A off, s : Solves(c, off, s)' = Solves(c, off, s)
    BY <1>a, <2>4 DEF Solves
  <2>6. k[c] \in Nat /\ stage[c] \in Nat /\ coff[c] \in Nat
    BY <1>1 DEF Domains
  <2>7. k[c] \in 1..Len(call[c].chain_lens)
    BY <1>1, <1>a, <2>1, <2>2, <2>6 DEF Position, MoreChains
  <2>8. ChainLen(c) \in Nat
    BY <2>1, <2>7, AskedType DEF ChainLen
  <2>9. \A w \in Team(c) : job[w].item = 0
    BY <1>1, <1>a DEF JobOK
  <2>10. cursor[c] > NPanels
    BY <1>1, <1>a DEF InLoop
  <2>11. \A p \in Panels : block[c][Out(c)][p] = Solves(c, coff[c], stage[c] + 1)
    <3> SUFFICES ASSUME NEW p \in Panels
                 PROVE  block[c][Out(c)][p] = Solves(c, coff[c], stage[c] + 1)
      OBVIOUS
    <3>1. p \in 1..(cursor[c] - 1) /\ p # 0
      BY <1>1, <2>10, SharedAssumption DEF Panels, Domains
    <3> QED
      BY <1>1, <1>a, <2>9, <3>1 DEF Blocks
  <2> QED
    BY <2>1, <2>2, <2>3, <2>4, <2>5, <2>6, <2>7, <2>8, <2>11
<1>3. Domains'
  BY <1>a, <1>1, SharedAssumption
  DEF caller, position, loop, shared, Domains, Points, AfterEnsure
<1>4. Factors'
  BY <1>a, <1>1, NoneIsNothing
  DEF caller, position, loop, shared, Factors, ConvertedOnce, HoldsLock
<1>5. \A d \in Callers \ {c} : CallerInv(d)'
  <2> SUFFICES ASSUME NEW d \in Callers, d # c PROVE CallerInv(d)'
    OBVIOUS
  <2>1. Same(d)
    BY <1>a, <1>1 DEF caller, position, loop, shared, Domains, Same, Team
  <2>2. /\ L' = L
        /\ Lldl' = Lldl \/ (Lldl = None /\ ldl_mtx # d)
        /\ ldl_mtx' = ldl_mtx \/ (ldl_mtx # d /\ ldl_mtx' # d)
    BY <1>a, <1>1, NoneIsNothing DEF caller, position, loop, shared, Factors, HoldsLock
  <2> QED
    BY <2>1, <2>2, OthersStay
<1>6. HoldsLock(c)'
  BY <1>a, <1>1, NoneIsNothing
  DEF caller, position, loop, shared, HoldsLock, Domains, Factors, AfterEnsure
<1>7. Fits(c)'
  BY <1>a, <1>1, AskedType
  DEF caller, position, loop, shared, Fits, Domains, AfterEnsure, Ops
<1>8. InLoop(c)' /\ Apart(c)'
  BY <1>a, <1>1
  DEF caller, position, loop, shared, InLoop, Apart, Domains, AfterEnsure, Team, Idle
<1>9. \A w \in Team(c) : JobOK(w)'
  <2>1. \A w \in Team(c) : job[w].item = 0
    BY <1>1, <1>a DEF JobOK
  <2>2. job' = job /\ pc'[c] = "stage"
    BY <1>a, <1>1 DEF Domains
  <2> QED
    BY <1>a, <1>1, <2>1, <2>2 DEF JobOK
<1>10. \A w \in Team(c) : CopyOK(w)'
  BY <1>a, <1>1
  DEF caller, position, loop, shared, CopyOK, Domains, AfterEnsure, Fits, Idle
<1>11. Position(c)'
  <2>1. pc'[c] = "stage" /\ call'[c] = call[c] /\ k'[c] = k[c] /\ coff'[c] = coff[c]
        /\ stage'[c] = stage[c] + 1
    BY <1>1, <1>a DEF Domains
  <2>2. stage[c] + 1 < ChainLen(c)
    BY <1>2 DEF LastStage
  <2> QED
    BY <1>1, <1>a, <1>2, <2>1, <2>2 DEF Position, MoreChains, ChainLen
<1>12. Blocks(c)'
  <2>1. pc'[c] = "stage" /\ call'[c] = call[c] /\ k'[c] = k[c] /\ coff'[c] = coff[c]
        /\ stage'[c] = stage[c] + 1 /\ block' = block
    BY <1>1, <1>a DEF Domains
  <2>2. In(c)' = Out(c)
    BY <1>2, <2>1 DEF In, Out, LastStage
  <2>3. ChainsDone(c, k[c] - 1)' = ChainsDone(c, k[c] - 1)
    BY <1>2, <2>1 DEF ChainsDone
  <2> QED
    BY <1>1, <1>a, <1>2, <2>1, <2>2, <2>3 DEF Blocks
<1>13. Answered(c)'
  BY <1>2, <1>a, <1>1, NoneIsNothing
  DEF caller, position, loop, shared, Answered, ChainsDone, Domains, AfterEnsure
<1> QED
  BY <1>a, <1>3, <1>4, <1>5, <1>6, <1>7, <1>8, <1>9, <1>10, <1>11, <1>12, <1>13
  DEF IInv, CallerInv

\* A chain is done.
LEMMA JoinNextChainKeeps ==
  ASSUME IInv, NEW c \in Callers, Join(c), ~failed[c], pc[c] = "panels", LastStage(c)
  PROVE  IInv'
<1> USE TeamWorkers
<1>1. /\ Domains /\ Factors
      /\ HoldsLock(c) /\ Fits(c) /\ InLoop(c) /\ Apart(c) /\ Position(c)
      /\ Blocks(c) /\ Answered(c)
      /\ \A w \in Team(c) : JobOK(w) /\ CopyOK(w)
  BY DEF IInv, CallerInv
<1>a. /\ pc[c] = "panels" /\ running[c] = {} /\ pc' = [pc EXCEPT ![c] = "stage"]
      /\ k' = [k EXCEPT ![c] = @ + 1] /\ coff' = [coff EXCEPT ![c] = @ + ChainLen(c)]
      /\ stage' = [stage EXCEPT ![c] = 0]
      /\ UNCHANGED <<call, made, loop, block, job, copy, shared, read, answer>>
  BY DEF Join, caller, position, loop, shared, Return, NextChain
<1>2. /\ Factor(c)' = Factor(c)
      /\ \A off, s : Solves(c, off, s)' = Solves(c, off, s)
      /\ k[c] \in Chains /\ k[c] \in Nat /\ stage[c] \in Nat /\ coff[c] \in Nat
      /\ call[c] \in Calls /\ k[c] \in 1..Len(call[c].chain_lens)
      /\ Len(call[c].chain_lens) \in Nat /\ ChainLen(c) \in Nat
      /\ MoreChains(c) /\ stage[c] < ChainLen(c)
      /\ \A p \in Panels : block[c][Out(c)][p] = Solves(c, coff[c], stage[c] + 1)
  <2>1. call[c] \in Calls /\ MoreChains(c) /\ stage[c] < ChainLen(c)
    BY <1>1, <1>a DEF Fits, Position
  <2>2. Len(call[c].chain_lens) \in Nat
    BY <2>1, AskedType
  <2>3. k[c] \in Chains
    BY <1>1, <1>a, <2>1, StageBuffers
  <2>4. Factor(c)' = Factor(c) /\ Changes(c)' = Changes(c)
    BY <1>a DEF Factor, Changes
  <2>5. \A off, s : Solves(c, off, s)' = Solves(c, off, s)
    BY <1>a, <2>4 DEF Solves
  <2>6. k[c] \in Nat /\ stage[c] \in Nat /\ coff[c] \in Nat
    BY <1>1 DEF Domains
  <2>7. k[c] \in 1..Len(call[c].chain_lens)
    BY <1>1, <1>a, <2>1, <2>2, <2>6 DEF Position, MoreChains
  <2>8. ChainLen(c) \in Nat
    BY <2>1, <2>7, AskedType DEF ChainLen
  <2>9. \A w \in Team(c) : job[w].item = 0
    BY <1>1, <1>a DEF JobOK
  <2>10. cursor[c] > NPanels
    BY <1>1, <1>a DEF InLoop
  <2>11. \A p \in Panels : block[c][Out(c)][p] = Solves(c, coff[c], stage[c] + 1)
    <3> SUFFICES ASSUME NEW p \in Panels
                 PROVE  block[c][Out(c)][p] = Solves(c, coff[c], stage[c] + 1)
      OBVIOUS
    <3>1. p \in 1..(cursor[c] - 1) /\ p # 0
      BY <1>1, <2>10, SharedAssumption DEF Panels, Domains
    <3> QED
      BY <1>1, <1>a, <2>9, <3>1 DEF Blocks
  <2> QED
    BY <2>1, <2>2, <2>3, <2>4, <2>5, <2>6, <2>7, <2>8, <2>11
<1>3. Domains'
  BY <1>a, <1>1, <1>2 DEF loop, shared, Domains, Points
<1>4. Factors'
  BY <1>a, <1>1, NoneIsNothing
  DEF caller, position, loop, shared, Factors, ConvertedOnce, HoldsLock
<1>5. \A d \in Callers \ {c} : CallerInv(d)'
  <2> SUFFICES ASSUME NEW d \in Callers, d # c PROVE CallerInv(d)'
    OBVIOUS
  <2>1. Same(d)
    BY <1>a, <1>1 DEF caller, position, loop, shared, Domains, Same, Team
  <2>2. /\ L' = L
        /\ Lldl' = Lldl \/ (Lldl = None /\ ldl_mtx # d)
        /\ ldl_mtx' = ldl_mtx \/ (ldl_mtx # d /\ ldl_mtx' # d)
    BY <1>a, <1>1, NoneIsNothing DEF caller, position, loop, shared, Factors, HoldsLock
  <2> QED
    BY <2>1, <2>2, OthersStay
<1>6. HoldsLock(c)'
  BY <1>a, <1>1, NoneIsNothing
  DEF caller, position, loop, shared, HoldsLock, Domains, Factors, AfterEnsure
<1>7. Fits(c)'
  BY <1>a, <1>1, AskedType
  DEF caller, position, loop, shared, Fits, Domains, AfterEnsure, Ops
<1>8. InLoop(c)' /\ Apart(c)'
  BY <1>a, <1>1
  DEF caller, position, loop, shared, InLoop, Apart, Domains, AfterEnsure, Team, Idle
<1>9. \A w \in Team(c) : JobOK(w)'
  <2>1. \A w \in Team(c) : job[w].item = 0
    BY <1>1, <1>a DEF JobOK
  <2>2. job' = job /\ pc'[c] = "stage"
    BY <1>a, <1>1 DEF Domains
  <2> QED
    BY <1>a, <1>1, <2>1, <2>2 DEF JobOK
<1>10. \A w \in Team(c) : CopyOK(w)'
  BY <1>a, <1>1
  DEF caller, position, loop, shared, CopyOK, Domains, AfterEnsure, Fits, Idle
<1>11. Position(c)'
  <2>1. pc'[c] = "stage" /\ call'[c] = call[c] /\ k'[c] = k[c] + 1
        /\ coff'[c] = coff[c] + ChainLen(c) /\ stage'[c] = 0
    BY <1>1, <1>a, <1>2 DEF Domains
  <2>2. \A start \in Starts[call[c]] : coff[c] + ChainLen(c) = start[k[c] + 1]
    <3> SUFFICES ASSUME NEW start \in Starts[call[c]]
                 PROVE  coff[c] + ChainLen(c) = start[k[c] + 1]
      OBVIOUS
    <3>1. coff[c] = start[k[c]]
      BY <1>1, <1>a DEF Position
    <3>2. start[k[c] + 1] = start[k[c]] + call[c].chain_lens[k[c]]
      BY <1>2, AskedType
    <3> QED
      BY <3>1, <3>2 DEF ChainLen
  <2> QED
    BY <1>2, <2>1, <2>2 DEF Position
<1>12. Blocks(c)'
  <2>1. pc'[c] = "stage" /\ call'[c] = call[c] /\ k'[c] = k[c] + 1 /\ stage'[c] = 0
        /\ block' = block
    BY <1>1, <1>a, <1>2 DEF Domains
  <2>2. ASSUME NEW start \in Starts[call[c]], NEW n \in 1..k[c], NEW p \in Panels
        PROVE  block[c][<<"x", n>>][p] = Solves(c, start[n], call[c].chain_lens[n])
    <3>1. CASE n = k[c]
      <4>1. Out(c) = <<"x", n>> /\ stage[c] + 1 = ChainLen(c)
        BY <1>2, <3>1 DEF Out, LastStage
      <4>2. coff[c] = start[n]
        BY <1>1, <1>a, <3>1 DEF Position
      <4> QED
        BY <1>2, <3>1, <4>1, <4>2 DEF ChainLen
    <3>2. CASE n # k[c]
      <4>1. n \in 1..(k[c] - 1)
        BY <1>2, <3>2
      <4> QED
        BY <1>1, <1>a, <4>1 DEF Blocks, ChainsDone
    <3> QED
      BY <3>1, <3>2
  <2>3. ChainsDone(c, k[c] - 1)'
    <3>1. k'[c] - 1 = k[c]
      BY <1>2, <2>1
    <3>2. ASSUME NEW start \in Starts[call'[c]], NEW n \in 1..k[c], NEW p \in Panels
          PROVE  block'[c][<<"x", n>>][p] = Solves(c, start[n], call[c].chain_lens[n])'
      <4>1. block'[c][<<"x", n>>][p] = Solves(c, start[n], call[c].chain_lens[n])
        BY <2>1, <2>2
      <4>2. (call[c].chain_lens[n])' = call[c].chain_lens[n]
        BY <2>1
      <4> QED
        BY <1>2, <4>1, <4>2
    <3> QED
      BY <3>1, <3>2 DEF ChainsDone
  <2> QED
    BY <1>1, <1>a, <2>1, <2>3 DEF Blocks
<1>13. Answered(c)'
  BY <1>2, <1>a, <1>1, NoneIsNothing
  DEF caller, position, loop, shared, Answered, ChainsDone, Domains, AfterEnsure
<1> QED
  BY <1>a, <1>3, <1>4, <1>5, <1>6, <1>7, <1>8, <1>9, <1>10, <1>11, <1>12, <1>13
  DEF IInv, CallerInv

-----------------------------------------------------------------------------
(* The steps of a worker.                                                  *)

\* A panel is taken.
LEMMA ClaimKeeps ==
  ASSUME IInv, NEW u \in Workers, Claim(u)
  PROVE  IInv'
<1> DEFINE c == Own(u)
<1> USE TeamWorkers
<1>0. c \in Callers /\ u \in Team(c)
  OBVIOUS
<1>1. /\ Domains /\ Factors
      /\ HoldsLock(c) /\ Fits(c) /\ InLoop(c) /\ Apart(c) /\ Position(c)
      /\ Blocks(c) /\ Answered(c)
      /\ \A w \in Team(c) : JobOK(w) /\ CopyOK(w)
  BY <1>0 DEF IInv, CallerInv
<1>a. /\ u \in running[c] /\ job[u].item = 0 /\ pc[c] = "panels" /\ ~failed[c]
      /\ NPanels \in Nat /\ cursor[c] \in 1..NPanels
      /\ cursor' = [cursor EXCEPT ![c] = @ + 1]
      /\ job' = [job EXCEPT ![u] = PanelJob(u, cursor[c])]
      /\ UNCHANGED <<caller, failed, running, block, copy, shared, read, answer>>
  BY <1>0, <1>1, SharedAssumption
  DEF Claim, caller, position, loop, shared, AtRest, PanelJob, Panels, Domains
<1>2. /\ In(c)' = In(c) /\ Out(c)' = Out(c) /\ MoreChains(c)' = MoreChains(c)
      /\ Factor(c)' = Factor(c) /\ ChainLen(c)' = ChainLen(c)
      /\ \A off, s : Solves(c, off, s)' = Solves(c, off, s)
  BY <1>a, <1>0, PlaceStays DEF caller, position, loop, shared, Domains
<1>3. Domains'
  <2>1. cursor' \in [Callers -> 1..(NPanels + 1)]
    BY <1>a, <1>0, <1>1 DEF Domains
  <2>2. DOMAIN job' = Workers
    BY <1>a, <1>1 DEF Domains
  <2> QED
    BY <1>a, <1>1, <2>1, <2>2 DEF caller, position, shared, Domains
<1>4. Factors'
  BY <1>a, <1>0, <1>1, NoneIsNothing
  DEF caller, position, loop, shared, Factors, ConvertedOnce, HoldsLock
<1>5. \A d \in Callers \ {c} : CallerInv(d)'
  <2> SUFFICES ASSUME NEW d \in Callers, d # c PROVE CallerInv(d)'
    OBVIOUS
  <2>1. Same(d)
    BY <1>a, <1>0, <1>1 DEF caller, position, loop, shared, Domains, Same, Team
  <2>2. /\ L' = L
        /\ Lldl' = Lldl \/ (Lldl = None /\ ldl_mtx # d)
        /\ ldl_mtx' = ldl_mtx \/ (ldl_mtx # d /\ ldl_mtx' # d)
    BY <1>a, <1>0, <1>1, NoneIsNothing
    DEF caller, position, loop, shared, Factors, HoldsLock
  <2> QED
    BY <2>1, <2>2, OthersStay
<1>6. HoldsLock(c)'
  BY <1>a, <1>0, <1>1, NoneIsNothing
  DEF caller, position, loop, shared, HoldsLock, Domains, Factors, AfterEnsure
<1>7. Fits(c)'
  BY <1>a, <1>0, <1>1, AskedType
  DEF caller, position, loop, shared, Fits, Domains, AfterEnsure, Ops
<1>8. InLoop(c)' /\ Apart(c)'
  <2>1. job'[u].item = cursor[c] /\ \A w \in Team(c) : w # u => job'[w] = job[w]
    BY <1>0, <1>1, <1>a DEF Domains, PanelJob
  <2>2. \A w \in Team(c) : job[w].item # cursor[c]
    <3> SUFFICES ASSUME NEW w \in Team(c) PROVE job[w].item # cursor[c]
      OBVIOUS
    <3>1. job[w].item = 0 \/ job[w].item \in 1..(cursor[c] - 1)
      BY <1>0, <1>1 DEF JobOK
    <3> QED
      BY <1>a, <3>1
  <2>3. InLoop(c)'
    BY <1>0, <1>1, <1>a DEF InLoop, Domains, caller, Team
  <2>4. Apart(c)'
    BY <1>0, <1>1, <1>a, <2>1, <2>2 DEF Apart, Team
  <2> QED
    BY <2>3, <2>4
<1>9. \A w \in Team(c) : JobOK(w)'
  <2> SUFFICES ASSUME NEW w \in Team(c) PROVE JobOK(w)'
    OBVIOUS
  <2>1. \A p : PanelJob(w, p)' = PanelJob(w, p)
    BY <1>a, <1>0, <1>2 DEF PanelJob, caller, position
  <2>2. CASE w = u
    <3>1. job'[u] = PanelJob(u, cursor[c])
      BY <1>a, <1>0, <1>1, NoneIsNothing
      DEF JobOK, Domains, Idle, caller, position, loop, shared, PathJob
    <3>2. cursor'[c] = cursor[c] + 1 /\ job'[u].item = cursor[c]
      BY <1>0, <1>1, <1>a, <3>1 DEF Domains, PanelJob
    <3>3. pc'[c] = "panels" /\ u \in running'[c]
      BY <1>a DEF caller
    <3>4. job'[u].item \in 1..(cursor'[c] - 1) /\ job'[u].item # 0
      BY <1>a, <3>2
    <3> QED
      BY <1>0, <2>1, <2>2, <3>1, <3>2, <3>3, <3>4 DEF JobOK
  <2>3. CASE w # u
    <3>1. job'[w] = job[w] /\ copy'[w] = copy[w]
      BY <1>a, <1>0, <1>1, <2>3 DEF Domains, caller, loop, shared
    <3>2. \A p : PathJob(w, p)' = PathJob(w, p)
      BY <3>1 DEF PathJob
    <3>3. JobOK(w)
      BY <1>1
    <3> QED
      BY <1>a, <1>0, <1>1, <2>1, <2>3, <3>1, <3>2, <3>3
      DEF JobOK, Domains, Idle, caller, position, loop, shared
  <2> QED
    BY <2>2, <2>3
<1>10. \A w \in Team(c) : CopyOK(w)'
  BY <1>a, <1>0, <1>1
  DEF caller, position, loop, shared, CopyOK, Domains, AfterEnsure, Fits, Idle
<1>11. Position(c)'
  BY <1>2, <1>a, <1>0, <1>1
  DEF caller, position, loop, shared, Position, Domains, AfterEnsure
<1>12. Blocks(c)'
  <2>1. \A p \in 1..(cursor'[c] - 1) :
          p \in 1..(cursor[c] - 1) \/ (p = cursor[c] /\ job'[u].item = p)
    <3>1. cursor'[c] = cursor[c] + 1 /\ job'[u].item = cursor[c]
      BY <1>0, <1>1, <1>a DEF Domains, PanelJob
    <3> QED
      BY <1>a, <3>1
  <2>2. \A w \in Team(c), p \in 1..(cursor[c] - 1) : job[w].item = p => job'[w].item = p
    BY <1>0, <1>1, <1>a DEF Domains
  <2>3. ChainsDone(c, k[c] - 1)' = ChainsDone(c, k[c] - 1)
    BY <1>2, <1>a DEF ChainsDone, caller, position
  <2> QED
    <3>1. pc' = pc /\ stage' = stage /\ k' = k /\ coff' = coff /\ call' = call
          /\ block' = block /\ failed' = failed
      BY <1>a DEF caller, position
    <3>2. \A p \in 1..(cursor'[c] - 1) :
            \/ \E w \in Team(c) : job'[w].item = p
            \/ block[c][Out(c)][p] = Solves(c, coff[c], stage[c] + 1)
      BY <1>0, <1>1, <1>a, <2>1, <2>2 DEF Blocks
    <3> QED
      BY <1>0, <1>1, <1>2, <2>3, <3>1, <3>2 DEF Blocks
<1>13. Answered(c)'
  BY <1>2, <1>a, <1>0, <1>1, NoneIsNothing
  DEF caller, position, loop, shared, Answered, ChainsDone, Domains, AfterEnsure
<1> QED
  BY <1>a, <1>0, <1>3, <1>4, <1>5, <1>6, <1>7, <1>8, <1>9, <1>10, <1>11, <1>12, <1>13
  DEF IInv, CallerInv

\* A worker fails.
LEMMA FailsKeeps ==
  ASSUME IInv, NEW u \in Workers, Fails(u)
  PROVE  IInv'
<1> DEFINE c == Own(u)
<1> USE TeamWorkers
<1>0. c \in Callers /\ u \in Team(c)
  OBVIOUS
<1>1. /\ Domains /\ Factors
      /\ HoldsLock(c) /\ Fits(c) /\ InLoop(c) /\ Apart(c) /\ Position(c)
      /\ Blocks(c) /\ Answered(c)
      /\ \A w \in Team(c) : JobOK(w) /\ CopyOK(w)
  BY <1>0 DEF IInv, CallerInv
<1>2. /\ In(c)' = In(c) /\ Out(c)' = Out(c) /\ MoreChains(c)' = MoreChains(c)
      /\ Factor(c)' = Factor(c) /\ ChainLen(c)' = ChainLen(c)
      /\ \A off, s : Solves(c, off, s)' = Solves(c, off, s)
  BY <1>0, PlaceStays DEF Fails, caller, position, loop, shared, AtRest, Domains
<1>3. Domains'
  BY <1>0, <1>1, SharedAssumption
  DEF Fails, caller, position, loop, shared, AtRest, Domains, Points, AfterEnsure
<1>4. Factors'
  BY <1>0, <1>1, NoneIsNothing
  DEF Fails, caller, position, loop, shared, AtRest, Factors, ConvertedOnce, HoldsLock
<1>5. \A d \in Callers \ {c} : CallerInv(d)'
  <2> SUFFICES ASSUME NEW d \in Callers, d # c PROVE CallerInv(d)'
    OBVIOUS
  <2>1. Same(d)
    BY <1>0, <1>1 DEF Fails, caller, position, loop, shared, AtRest, Domains, Same, Team
  <2>2. /\ L' = L
        /\ Lldl' = Lldl \/ (Lldl = None /\ ldl_mtx # d)
        /\ ldl_mtx' = ldl_mtx \/ (ldl_mtx # d /\ ldl_mtx' # d)
    BY <1>0, <1>1, NoneIsNothing
    DEF Fails, caller, position, loop, shared, AtRest, Factors, HoldsLock
  <2> QED
    BY <2>1, <2>2, OthersStay
<1>6. HoldsLock(c)'
  BY <1>0, <1>1, NoneIsNothing
  DEF Fails, caller, position, loop, shared, AtRest, HoldsLock, Domains, Factors,
        AfterEnsure
<1>7. Fits(c)'
  BY <1>0, <1>1, AskedType
  DEF Fails, caller, position, loop, shared, AtRest, Fits, Domains, AfterEnsure, Ops
<1>8. InLoop(c)' /\ Apart(c)'
  BY <1>0, <1>1
  DEF Fails, caller, position, loop, shared, AtRest, InLoop, Apart, Domains,
        AfterEnsure, Team, Idle
<1>9. \A w \in Team(c) : JobOK(w)'
  <2> SUFFICES ASSUME NEW w \in Team(c) PROVE JobOK(w)'
    OBVIOUS
  <2>1. \A p : PanelJob(w, p)' = PanelJob(w, p)
    BY <1>0, <1>2 DEF PanelJob, caller, position, Fails, AtRest
  <2>2. CASE w = u
    <3>1. job'[u] = Idle
      BY <1>0, <1>1, NoneIsNothing
      DEF JobOK, Domains, Idle, caller, position, loop, shared, Fails, AtRest, PathJob
    <3> QED
      BY <1>0, <1>1, <2>1, <2>2, <3>1, NoneIsNothing
      DEF JobOK, Domains, Idle, caller, position, loop, shared, PanelJob, PathJob,
            InLoop, Fails, AtRest
  <2>3. CASE w # u
    <3>1. job'[w] = job[w] /\ copy'[w] = copy[w]
      BY <1>0, <1>1, <2>3 DEF Domains, caller, loop, shared, Fails, AtRest
    <3>2. \A p : PathJob(w, p)' = PathJob(w, p)
      BY <3>1 DEF PathJob
    <3>3. JobOK(w)
      BY <1>1
    <3> QED
      BY <1>0, <1>1, <2>1, <2>3, <3>1, <3>2, <3>3
      DEF JobOK, Domains, Idle, caller, position, loop, shared, Fails, AtRest
  <2> QED
    BY <2>2, <2>3
<1>10. \A w \in Team(c) : CopyOK(w)'
  BY <1>0, <1>1
  DEF Fails, caller, position, loop, shared, AtRest, CopyOK, Domains, AfterEnsure,
        Fits, Idle
<1>11. Position(c)'
  BY <1>2, <1>0, <1>1
  DEF Fails, caller, position, loop, shared, AtRest, Position, Domains, AfterEnsure
<1>12. Blocks(c)'
  BY <1>2, <1>0, <1>1
  DEF Fails, caller, position, loop, shared, AtRest, Blocks, ChainsDone, Domains,
        AfterEnsure
<1>13. Answered(c)'
  BY <1>2, <1>0, <1>1, NoneIsNothing
  DEF Fails, caller, position, loop, shared, AtRest, Answered, ChainsDone, Domains,
        AfterEnsure
<1> QED
  BY <1>0, <1>3, <1>4, <1>5, <1>6, <1>7, <1>8, <1>9, <1>10, <1>11, <1>12, <1>13
  DEF IInv, CallerInv

\* A worker leaves the loop.
LEMMA LeaveKeeps ==
  ASSUME IInv, NEW u \in Workers, Leave(u)
  PROVE  IInv'
<1> DEFINE c == Own(u)
<1> USE TeamWorkers
<1>0. c \in Callers /\ u \in Team(c)
  OBVIOUS
<1>1. /\ Domains /\ Factors
      /\ HoldsLock(c) /\ Fits(c) /\ InLoop(c) /\ Apart(c) /\ Position(c)
      /\ Blocks(c) /\ Answered(c)
      /\ \A w \in Team(c) : JobOK(w) /\ CopyOK(w)
  BY <1>0 DEF IInv, CallerInv
<1>2. /\ In(c)' = In(c) /\ Out(c)' = Out(c) /\ MoreChains(c)' = MoreChains(c)
      /\ Factor(c)' = Factor(c) /\ ChainLen(c)' = ChainLen(c)
      /\ \A off, s : Solves(c, off, s)' = Solves(c, off, s)
  BY <1>0, PlaceStays DEF Leave, caller, position, loop, shared, AtRest, Domains
<1>3. Domains'
  BY <1>0, <1>1, SharedAssumption
  DEF Leave, caller, position, loop, shared, AtRest, Domains, Points, AfterEnsure
<1>4. Factors'
  BY <1>0, <1>1, NoneIsNothing
  DEF Leave, caller, position, loop, shared, AtRest, Factors, ConvertedOnce, HoldsLock
<1>5. \A d \in Callers \ {c} : CallerInv(d)'
  <2> SUFFICES ASSUME NEW d \in Callers, d # c PROVE CallerInv(d)'
    OBVIOUS
  <2>1. Same(d)
    BY <1>0, <1>1 DEF Leave, caller, position, loop, shared, AtRest, Domains, Same, Team
  <2>2. /\ L' = L
        /\ Lldl' = Lldl \/ (Lldl = None /\ ldl_mtx # d)
        /\ ldl_mtx' = ldl_mtx \/ (ldl_mtx # d /\ ldl_mtx' # d)
    BY <1>0, <1>1, NoneIsNothing
    DEF Leave, caller, position, loop, shared, AtRest, Factors, HoldsLock
  <2> QED
    BY <2>1, <2>2, OthersStay
<1>6. HoldsLock(c)'
  BY <1>0, <1>1, NoneIsNothing
  DEF Leave, caller, position, loop, shared, AtRest, HoldsLock, Domains, Factors,
        AfterEnsure
<1>7. Fits(c)'
  BY <1>0, <1>1, AskedType
  DEF Leave, caller, position, loop, shared, AtRest, Fits, Domains, AfterEnsure, Ops
<1>8. InLoop(c)' /\ Apart(c)'
  BY <1>0, <1>1
  DEF Leave, caller, position, loop, shared, AtRest, InLoop, Apart, Domains,
        AfterEnsure, Team, Idle
<1>9. \A w \in Team(c) : JobOK(w)'
  <2> SUFFICES ASSUME NEW w \in Team(c) PROVE JobOK(w)'
    OBVIOUS
  <2>1. \A p : PanelJob(w, p)' = PanelJob(w, p)
    BY <1>0, <1>2 DEF PanelJob, caller, position, Leave, AtRest
  <2>2. CASE w = u
    <3>1. job'[u] = job[u]
      BY <1>0, <1>1, NoneIsNothing
      DEF JobOK, Domains, Idle, caller, position, loop, shared, Leave, AtRest, PathJob
    <3> QED
      BY <1>0, <1>1, <2>1, <2>2, <3>1, NoneIsNothing
      DEF JobOK, Domains, Idle, caller, position, loop, shared, PanelJob, PathJob,
            InLoop, Leave, AtRest
  <2>3. CASE w # u
    <3>1. job'[w] = job[w] /\ copy'[w] = copy[w]
      BY <1>0, <1>1, <2>3 DEF Domains, caller, loop, shared, Leave, AtRest
    <3>2. \A p : PathJob(w, p)' = PathJob(w, p)
      BY <3>1 DEF PathJob
    <3>3. JobOK(w)
      BY <1>1
    <3> QED
      BY <1>0, <1>1, <2>1, <2>3, <3>1, <3>2, <3>3
      DEF JobOK, Domains, Idle, caller, position, loop, shared, Leave, AtRest
  <2> QED
    BY <2>2, <2>3
<1>10. \A w \in Team(c) : CopyOK(w)'
  BY <1>0, <1>1
  DEF Leave, caller, position, loop, shared, AtRest, CopyOK, Domains, AfterEnsure,
        Fits, Idle
<1>11. Position(c)'
  BY <1>2, <1>0, <1>1
  DEF Leave, caller, position, loop, shared, AtRest, Position, Domains, AfterEnsure
<1>12. Blocks(c)'
  <2>1. /\ pc' = pc /\ call' = call /\ k' = k /\ coff' = coff /\ stage' = stage
        /\ cursor' = cursor /\ failed' = failed /\ block' = block /\ job' = job
    BY DEF Leave, caller, position
  <2>2. ChainsDone(c, k[c] - 1)' <=> ChainsDone(c, k[c] - 1)
    BY <1>2, <2>1 DEF ChainsDone
  <2> QED
    BY <1>1, <1>2, <2>1, <2>2 DEF Blocks
<1>13. Answered(c)'
  BY <1>2, <1>0, <1>1, NoneIsNothing
  DEF Leave, caller, position, loop, shared, AtRest, Answered, ChainsDone, Domains,
        AfterEnsure
<1> QED
  BY <1>0, <1>3, <1>4, <1>5, <1>6, <1>7, <1>8, <1>9, <1>10, <1>11, <1>12, <1>13
  DEF IInv, CallerInv

\* A path is taken.
LEMMA ClaimPathKeeps ==
  ASSUME IInv, NEW u \in Workers, ClaimPath(u)
  PROVE  IInv'
<1> DEFINE c == Own(u)
<1> USE TeamWorkers
<1>0. c \in Callers /\ u \in Team(c)
  OBVIOUS
<1>1. /\ Domains /\ Factors
      /\ HoldsLock(c) /\ Fits(c) /\ InLoop(c) /\ Apart(c) /\ Position(c)
      /\ Blocks(c) /\ Answered(c)
      /\ \A w \in Team(c) : JobOK(w) /\ CopyOK(w)
  BY <1>0 DEF IInv, CallerInv
<1>a. /\ u \in running[c] /\ job[u].item = 0 /\ pc[c] = "paths" /\ ~failed[c]
      /\ NPanels \in Nat /\ cursor[c] \in 1..NPanels
      /\ cursor' = [cursor EXCEPT ![c] = @ + 1]
      /\ job' = [job EXCEPT ![u] = PathJob(u, cursor[c])]
      /\ UNCHANGED <<caller, failed, running, block, copy, shared, read, answer>>
  <2>1. /\ u \in running[c] /\ job[u].item = 0 /\ pc[c] = "paths" /\ ~failed[c]
        /\ cursor[c] <= NPanels /\ cursor' = [cursor EXCEPT ![c] = @ + 1]
        /\ job' = [job EXCEPT ![u] =
             [item |-> cursor[c], reads |-> {<<"Lldl">>},
              writes |-> {<<"copy", c, u[2]>>, <<"logp", c, cursor[c]>>},
              got |-> <<Lldl>>]]
        /\ UNCHANGED <<caller, failed, running, block, copy, shared, read, answer>>
    BY DEF ClaimPath, AtRest
  <2>2. Lldl = {}
    BY <1>1, <2>1 DEF Factors, HoldsLock
  <2>3. NPanels \in Nat /\ cursor[c] \in 1..NPanels
    BY <1>0, <1>1, <2>1, SharedAssumption DEF Domains
  <2> QED
    BY <2>1, <2>2, <2>3 DEF PathJob
<1>2. /\ In(c)' = In(c) /\ Out(c)' = Out(c) /\ MoreChains(c)' = MoreChains(c)
      /\ Factor(c)' = Factor(c) /\ ChainLen(c)' = ChainLen(c)
      /\ \A off, s : Solves(c, off, s)' = Solves(c, off, s)
  BY <1>a, <1>0, PlaceStays DEF caller, position, loop, shared, Domains
<1>3. Domains'
  BY <1>a, <1>0, <1>1, SharedAssumption
  DEF caller, position, loop, shared, Domains, Points, AfterEnsure
<1>4. Factors'
  BY <1>a, <1>0, <1>1, NoneIsNothing
  DEF caller, position, loop, shared, Factors, ConvertedOnce, HoldsLock
<1>5. \A d \in Callers \ {c} : CallerInv(d)'
  <2> SUFFICES ASSUME NEW d \in Callers, d # c PROVE CallerInv(d)'
    OBVIOUS
  <2>1. Same(d)
    BY <1>a, <1>0, <1>1 DEF caller, position, loop, shared, Domains, Same, Team
  <2>2. /\ L' = L
        /\ Lldl' = Lldl \/ (Lldl = None /\ ldl_mtx # d)
        /\ ldl_mtx' = ldl_mtx \/ (ldl_mtx # d /\ ldl_mtx' # d)
    BY <1>a, <1>0, <1>1, NoneIsNothing
    DEF caller, position, loop, shared, Factors, HoldsLock
  <2> QED
    BY <2>1, <2>2, OthersStay
<1>6. HoldsLock(c)'
  BY <1>a, <1>0, <1>1, NoneIsNothing
  DEF caller, position, loop, shared, HoldsLock, Domains, Factors, AfterEnsure
<1>7. Fits(c)'
  BY <1>a, <1>0, <1>1, AskedType
  DEF caller, position, loop, shared, Fits, Domains, AfterEnsure, Ops
<1>8. InLoop(c)' /\ Apart(c)'
  <2>1. job'[u].item = cursor[c] /\ \A w \in Team(c) : w # u => job'[w] = job[w]
    BY <1>0, <1>1, <1>a DEF Domains, PathJob
  <2>2. \A w \in Team(c) : job[w].item # cursor[c]
    <3> SUFFICES ASSUME NEW w \in Team(c) PROVE job[w].item # cursor[c]
      OBVIOUS
    <3>1. job[w].item = 0 \/ job[w].item \in 1..(cursor[c] - 1)
      BY <1>0, <1>1 DEF JobOK
    <3> QED
      BY <1>a, <3>1
  <2>3. InLoop(c)'
    BY <1>0, <1>1, <1>a DEF InLoop, Domains, caller, Team
  <2>4. Apart(c)'
    BY <1>0, <1>1, <1>a, <2>1, <2>2 DEF Apart, Team
  <2> QED
    BY <2>3, <2>4
<1>9. \A w \in Team(c) : JobOK(w)'
  <2> SUFFICES ASSUME NEW w \in Team(c) PROVE JobOK(w)'
    OBVIOUS
  <2>1. \A p : PanelJob(w, p)' = PanelJob(w, p)
    BY <1>a, <1>0, <1>2 DEF PanelJob, caller, position
  <2>2. CASE w = u
    <3>1. job'[u] = PathJob(u, cursor[c])
      BY <1>a, <1>0, <1>1, NoneIsNothing
      DEF JobOK, Domains, Idle, caller, position, loop, shared, PathJob
    <3> QED
      BY <1>a, <1>0, <1>1, <2>1, <2>2, <3>1, NoneIsNothing
      DEF JobOK, Domains, Idle, caller, position, loop, shared, PanelJob, PathJob,
            InLoop
  <2>3. CASE w # u
    <3>1. job'[w] = job[w] /\ copy'[w] = copy[w]
      BY <1>a, <1>0, <1>1, <2>3 DEF Domains, caller, loop, shared
    <3>2. \A p : PathJob(w, p)' = PathJob(w, p)
      BY <3>1 DEF PathJob
    <3>3. JobOK(w)
      BY <1>1
    <3> QED
      BY <1>a, <1>0, <1>1, <2>1, <2>3, <3>1, <3>2, <3>3
      DEF JobOK, Domains, Idle, caller, position, loop, shared
  <2> QED
    BY <2>2, <2>3
<1>10. \A w \in Team(c) : CopyOK(w)'
  <2>1. \A w \in Team(c) : copy[w] = None \/ w # u
    BY <1>0, <1>1, <1>a DEF CopyOK
  <2>2. \A w \in Team(c) : w # u => job'[w] = job[w]
    BY <1>0, <1>1, <1>a DEF Domains
  <2> QED
    BY <1>0, <1>1, <1>a, <2>1, <2>2 DEF CopyOK, caller
<1>11. Position(c)'
  BY <1>2, <1>a, <1>0, <1>1
  DEF caller, position, loop, shared, Position, Domains, AfterEnsure
<1>12. Blocks(c)'
  BY <1>2, <1>a, <1>0, <1>1
  DEF caller, position, loop, shared, Blocks, ChainsDone, Domains, AfterEnsure
<1>13. Answered(c)'
  BY <1>2, <1>a, <1>0, <1>1, NoneIsNothing
  DEF caller, position, loop, shared, Answered, ChainsDone, Domains, AfterEnsure
<1> QED
  BY <1>a, <1>0, <1>3, <1>4, <1>5, <1>6, <1>7, <1>8, <1>9, <1>10, <1>11, <1>12, <1>13
  DEF IInv, CallerInv

\* A path's copy is changed.
LEMMA DropRowsKeeps ==
  ASSUME IInv, NEW u \in Workers, DropRows(u)
  PROVE  IInv'
<1> DEFINE c == Own(u)
<1> USE TeamWorkers
<1>0. c \in Callers /\ u \in Team(c)
  OBVIOUS
<1>1. /\ Domains /\ Factors
      /\ HoldsLock(c) /\ Fits(c) /\ InLoop(c) /\ Apart(c) /\ Position(c)
      /\ Blocks(c) /\ Answered(c)
      /\ \A w \in Team(c) : JobOK(w) /\ CopyOK(w)
  BY <1>0 DEF IInv, CallerInv
<1>a. /\ pc[c] = "paths" /\ job[u].item # 0 /\ job[u].item \in 0..NPanels
      /\ job[u] = PathJob(u, job[u].item)
      /\ copy' = [copy EXCEPT ![u] = {<<c, job[u].item>>}]
      /\ job' = job
      /\ UNCHANGED <<caller, loop, block, shared, read, answer>>
  <2>1. /\ pc[c] = "paths" /\ job[u].item # 0 /\ copy[u] = None
        /\ copy' = [copy EXCEPT ![u] = job[u].got[1] \cup {<<c, job[u].item>>}]
        /\ job' = job
        /\ UNCHANGED <<caller, loop, block, shared, read, answer>>
    BY DEF DropRows, AtRest
  <2>2. job[u] = PathJob(u, job[u].item) /\ job[u].item \in 1..(cursor[c] - 1)
    BY <1>0, <1>1, <2>1 DEF JobOK
  <2>3. job[u].got[1] = {}
    BY <2>2 DEF PathJob
  <2>4. job[u].item \in 0..NPanels
    BY <1>0, <1>1, <2>2, SharedAssumption DEF Domains
  <2> QED
    BY <2>1, <2>2, <2>3, <2>4
<1>2. /\ In(c)' = In(c) /\ Out(c)' = Out(c) /\ MoreChains(c)' = MoreChains(c)
      /\ Factor(c)' = Factor(c) /\ ChainLen(c)' = ChainLen(c)
      /\ \A off, s : Solves(c, off, s)' = Solves(c, off, s)
  BY <1>a, <1>0, PlaceStays DEF caller, position, loop, shared, Domains
<1>3. Domains'
  BY <1>a, <1>0, <1>1, SharedAssumption
  DEF caller, position, loop, shared, Domains, Points, AfterEnsure
<1>4. Factors'
  BY <1>a, <1>0, <1>1, NoneIsNothing
  DEF caller, position, loop, shared, Factors, ConvertedOnce, HoldsLock
<1>5. \A d \in Callers \ {c} : CallerInv(d)'
  <2> SUFFICES ASSUME NEW d \in Callers, d # c PROVE CallerInv(d)'
    OBVIOUS
  <2>1. Same(d)
    BY <1>a, <1>0, <1>1 DEF caller, position, loop, shared, Domains, Same, Team
  <2>2. /\ L' = L
        /\ Lldl' = Lldl \/ (Lldl = None /\ ldl_mtx # d)
        /\ ldl_mtx' = ldl_mtx \/ (ldl_mtx # d /\ ldl_mtx' # d)
    BY <1>a, <1>0, <1>1, NoneIsNothing
    DEF caller, position, loop, shared, Factors, HoldsLock
  <2> QED
    BY <2>1, <2>2, OthersStay
<1>6. HoldsLock(c)'
  BY <1>a, <1>0, <1>1, NoneIsNothing
  DEF caller, position, loop, shared, HoldsLock, Domains, Factors, AfterEnsure
<1>7. Fits(c)'
  BY <1>a, <1>0, <1>1, AskedType
  DEF caller, position, loop, shared, Fits, Domains, AfterEnsure, Ops
<1>8. InLoop(c)' /\ Apart(c)'
  <2>1. \A w \in Team(c) : job'[w].item = job[w].item
    BY <1>0, <1>1, <1>a DEF Domains, PathJob
  <2> QED
    BY <1>0, <1>1, <1>a, <2>1 DEF InLoop, Apart, Team, caller, loop
<1>9. \A w \in Team(c) : JobOK(w)'
  <2> SUFFICES ASSUME NEW w \in Team(c) PROVE JobOK(w)'
    OBVIOUS
  <2>1. \A p : PanelJob(w, p)' = PanelJob(w, p)
    BY <1>a, <1>0, <1>2 DEF PanelJob, caller, position
  <2>2. CASE w = u
    <3>1. job'[u] = PathJob(u, job[u].item)'
      BY <1>a DEF PathJob
    <3> QED
      BY <1>a, <1>0, <1>1, <2>1, <2>2, <3>1, NoneIsNothing
      DEF JobOK, Domains, Idle, caller, position, loop, shared, PanelJob, PathJob,
            InLoop
  <2>3. CASE w # u
    <3>1. job'[w] = job[w] /\ copy'[w] = copy[w]
      BY <1>a, <1>0, <1>1, <2>3 DEF Domains, caller, loop, shared
    <3>2. \A p : PathJob(w, p)' = PathJob(w, p)
      BY <3>1 DEF PathJob
    <3>3. JobOK(w)
      BY <1>1
    <3> QED
      BY <1>a, <1>0, <1>1, <2>1, <2>3, <3>1, <3>2, <3>3
      DEF JobOK, Domains, Idle, caller, position, loop, shared
  <2> QED
    BY <2>2, <2>3
<1>10. \A w \in Team(c) : CopyOK(w)'
  <2>1. \A w \in Team(c) : job'[w].item = job[w].item
    BY <1>0, <1>1, <1>a DEF Domains, PathJob
  <2>2. \A w \in Team(c) : copy'[w] = IF w = u THEN {<<c, job[u].item>>} ELSE copy[w]
    BY <1>0, <1>1, <1>a DEF Domains
  <2> QED
    BY <1>0, <1>1, <1>a, <2>1, <2>2 DEF CopyOK, caller
<1>11. Position(c)'
  BY <1>2, <1>a, <1>0, <1>1
  DEF caller, position, loop, shared, Position, Domains, AfterEnsure
<1>12. Blocks(c)'
  BY <1>2, <1>a, <1>0, <1>1
  DEF caller, position, loop, shared, Blocks, ChainsDone, Domains, AfterEnsure
<1>13. Answered(c)'
  BY <1>2, <1>a, <1>0, <1>1, NoneIsNothing
  DEF caller, position, loop, shared, Answered, ChainsDone, Domains, AfterEnsure
<1> QED
  BY <1>a, <1>0, <1>3, <1>4, <1>5, <1>6, <1>7, <1>8, <1>9, <1>10, <1>11, <1>12, <1>13
  DEF IInv, CallerInv

\* A path is done with its copy.
LEMMA PathDoneKeeps ==
  ASSUME IInv, NEW u \in Workers, PathDone(u)
  PROVE  IInv'
<1> DEFINE c == Own(u)
<1> USE TeamWorkers
<1>0. c \in Callers /\ u \in Team(c)
  OBVIOUS
<1>1. /\ Domains /\ Factors
      /\ HoldsLock(c) /\ Fits(c) /\ InLoop(c) /\ Apart(c) /\ Position(c)
      /\ Blocks(c) /\ Answered(c)
      /\ \A w \in Team(c) : JobOK(w) /\ CopyOK(w)
  BY <1>0 DEF IInv, CallerInv
<1>a. /\ pc[c] = "paths" /\ job[u].item # 0 /\ copy[u] = {<<c, job[u].item>>}
      /\ read' = [read EXCEPT ![c] = @ \cup {{}}]
      /\ copy' = [copy EXCEPT ![u] = None] /\ job' = [job EXCEPT ![u] = Idle]
      /\ UNCHANGED <<caller, loop, block, shared, answer>>
  BY <1>0, <1>1, SharedAssumption
  DEF PathDone, caller, position, loop, shared, AtRest, CopyOK
<1>2. /\ In(c)' = In(c) /\ Out(c)' = Out(c) /\ MoreChains(c)' = MoreChains(c)
      /\ Factor(c)' = Factor(c) /\ ChainLen(c)' = ChainLen(c)
      /\ \A off, s : Solves(c, off, s)' = Solves(c, off, s)
  BY <1>a, <1>0, PlaceStays DEF caller, position, loop, shared, Domains
<1>3. Domains'
  BY <1>a, <1>0, <1>1, SharedAssumption
  DEF caller, position, loop, shared, Domains, Points, AfterEnsure
<1>4. Factors'
  BY <1>a, <1>0, <1>1, NoneIsNothing
  DEF caller, position, loop, shared, Factors, ConvertedOnce, HoldsLock
<1>5. \A d \in Callers \ {c} : CallerInv(d)'
  <2> SUFFICES ASSUME NEW d \in Callers, d # c PROVE CallerInv(d)'
    OBVIOUS
  <2>1. Same(d)
    BY <1>a, <1>0, <1>1 DEF caller, position, loop, shared, Domains, Same, Team
  <2>2. /\ L' = L
        /\ Lldl' = Lldl \/ (Lldl = None /\ ldl_mtx # d)
        /\ ldl_mtx' = ldl_mtx \/ (ldl_mtx # d /\ ldl_mtx' # d)
    BY <1>a, <1>0, <1>1, NoneIsNothing
    DEF caller, position, loop, shared, Factors, HoldsLock
  <2> QED
    BY <2>1, <2>2, OthersStay
<1>6. HoldsLock(c)'
  BY <1>a, <1>0, <1>1, NoneIsNothing
  DEF caller, position, loop, shared, HoldsLock, Domains, Factors, AfterEnsure
<1>7. Fits(c)'
  BY <1>a, <1>0, <1>1, AskedType
  DEF caller, position, loop, shared, Fits, Domains, AfterEnsure, Ops
<1>8. InLoop(c)' /\ Apart(c)'
  BY <1>a, <1>0, <1>1
  DEF caller, position, loop, shared, InLoop, Apart, Domains, AfterEnsure, Team, Idle
<1>9. \A w \in Team(c) : JobOK(w)'
  <2> SUFFICES ASSUME NEW w \in Team(c) PROVE JobOK(w)'
    OBVIOUS
  <2>1. \A p : PanelJob(w, p)' = PanelJob(w, p)
    BY <1>a, <1>0, <1>2 DEF PanelJob, caller, position
  <2>2. CASE w = u
    <3>1. job'[u] = Idle
      BY <1>a, <1>0, <1>1, NoneIsNothing
      DEF JobOK, Domains, Idle, caller, position, loop, shared, PathJob
    <3> QED
      BY <1>a, <1>0, <1>1, <2>1, <2>2, <3>1, NoneIsNothing
      DEF JobOK, Domains, Idle, caller, position, loop, shared, PanelJob, PathJob,
            InLoop
  <2>3. CASE w # u
    <3>1. job'[w] = job[w] /\ copy'[w] = copy[w]
      BY <1>a, <1>0, <1>1, <2>3 DEF Domains, caller, loop, shared
    <3>2. \A p : PathJob(w, p)' = PathJob(w, p)
      BY <3>1 DEF PathJob
    <3>3. JobOK(w)
      BY <1>1
    <3> QED
      BY <1>a, <1>0, <1>1, <2>1, <2>3, <3>1, <3>2, <3>3
      DEF JobOK, Domains, Idle, caller, position, loop, shared
  <2> QED
    BY <2>2, <2>3
<1>10. \A w \in Team(c) : CopyOK(w)'
  BY <1>a, <1>0, <1>1
  DEF caller, position, loop, shared, CopyOK, Domains, AfterEnsure, Fits, Idle
<1>11. Position(c)'
  BY <1>2, <1>a, <1>0, <1>1
  DEF caller, position, loop, shared, Position, Domains, AfterEnsure
<1>12. Blocks(c)'
  BY <1>2, <1>a, <1>0, <1>1
  DEF caller, position, loop, shared, Blocks, ChainsDone, Domains, AfterEnsure
<1>13. Answered(c)'
  BY <1>2, <1>a, <1>0, <1>1, NoneIsNothing
  DEF caller, position, loop, shared, Answered, ChainsDone, Domains, AfterEnsure
<1> QED
  BY <1>a, <1>0, <1>3, <1>4, <1>5, <1>6, <1>7, <1>8, <1>9, <1>10, <1>11, <1>12, <1>13
  DEF IInv, CallerInv

\* A solve writes what it was taken for.
LEMMA SolvedKeeps ==
  ASSUME IInv, NEW u \in Workers, Solved(u)
  PROVE  IInv'
<1> DEFINE c == Own(u)
<1> USE TeamWorkers
<1>0. c \in Callers /\ u \in Team(c)
  OBVIOUS
<1>1. /\ Domains /\ Factors
      /\ HoldsLock(c) /\ Fits(c) /\ InLoop(c) /\ Apart(c) /\ Position(c)
      /\ Blocks(c) /\ Answered(c)
      /\ \A w \in Team(c) : JobOK(w) /\ CopyOK(w)
  BY <1>0 DEF IInv, CallerInv
<1>a. /\ pc[c] = "panels" /\ job[u].item # 0 /\ In(c) # Out(c) /\ In(c) \in Buffers
      /\ Out(c) \in Buffers /\ \A n : Out(c) # <<"b", n>>
      /\ \A n \in 1..(k[c] - 1) : Out(c) # <<"x", n>> /\ <<"x", n>> \in Buffers
      /\ job[u].item \in Panels /\ job[u].item \in 1..(cursor[c] - 1)
      /\ job' = [job EXCEPT ![u] = Idle]
      /\ block' = [block EXCEPT ![c][Out(c)][job[u].item] =
                     Solves(c, coff[c], stage[c] + 1)]
      /\ UNCHANGED <<caller, loop, copy, shared, read, answer>>
  <2>1. /\ pc[c] = "panels" /\ job[u].item # 0
        /\ job' = [job EXCEPT ![u] = Idle]
        /\ block' = [block EXCEPT ![c][Out(c)][job[u].item] =
                       Append(job[u].got, <<Content(c), Mode(c)>>)]
        /\ UNCHANGED <<caller, loop, copy, shared, read, answer>>
    BY DEF Solved, AtRest
  <2>2. MoreChains(c) /\ call[c].op \in {"chain", "updown"} /\ call[c] \in Calls
    BY <1>1, <2>1 DEF Position, Fits
  <2>3. /\ In(c) # Out(c) /\ In(c) \in Buffers /\ Out(c) \in Buffers
        /\ \A n : Out(c) # <<"b", n>>
        /\ \A n \in 1..(k[c] - 1) : Out(c) # <<"x", n>>
        /\ k[c] \in Chains
    BY <1>0, <1>1, <2>1, <2>2, StageBuffers
  <2>4. \A n \in 1..(k[c] - 1) : <<"x", n>> \in Buffers
    BY <2>3, SharedAssumption DEF Chains, Buffers
  <2>5. job[u] = PanelJob(u, job[u].item) /\ job[u].item \in 1..(cursor[c] - 1)
    BY <1>0, <1>1, <2>1 DEF JobOK
  <2>6. job[u].item \in Panels
    BY <1>0, <1>1, <2>5, SharedAssumption DEF Domains, Panels
  <2>7. coff[c] \in Nat /\ stage[c] \in Nat
    BY <1>0, <1>1 DEF Domains
  <2>8. job[u].got = Solves(c, coff[c], stage[c])
    <3>1. job[u].got = block[c][In(c)][job[u].item]
      BY <2>5 DEF PanelJob
    <3>2. CASE stage[c] = 0
      <4>1. In(c) = <<"b", k[c]>>
        BY <3>2 DEF In
      <4>2. block[c][<<"b", k[c]>>][job[u].item] = <<>>
        BY <1>1, <2>1, <2>3, <2>6 DEF Blocks
      <4> QED
        BY <3>1, <3>2, <4>1, <4>2, NoSolves
    <3>3. CASE stage[c] # 0
      BY <1>1, <2>1, <2>6, <2>7, <3>1, <3>3 DEF Blocks
    <3> QED
      BY <3>2, <3>3
  <2>9. Content(c) = Changes(c)
    BY <1>0, <1>1, <2>1, <2>2 DEF Content, Changes, CopyOK, Factors, Team
  <2>10. Mode(c) = call[c].mode_chain[coff[c] + stage[c] + 1]
    BY DEF Mode
  <2>11. Append(job[u].got, <<Content(c), Mode(c)>>) = Solves(c, coff[c], stage[c] + 1)
    <3>1. PICK off, s \in Nat : off = coff[c] /\ s = stage[c]
      BY <2>7
    <3>2. Append(Solves(c, off, s), <<Changes(c), call[c].mode_chain[off + s + 1]>>)
            = Solves(c, off, s + 1)
      BY OneMoreSolve
    <3>3. job[u].got = Solves(c, off, s)
          /\ <<Content(c), Mode(c)>> = <<Changes(c), call[c].mode_chain[off + s + 1]>>
      BY <2>8, <2>9, <2>10, <3>1
    <3> QED
      BY <3>1, <3>2, <3>3
  <2> QED
    BY <2>1, <2>3, <2>4, <2>5, <2>6, <2>11
<1>2. /\ In(c)' = In(c) /\ Out(c)' = Out(c) /\ MoreChains(c)' = MoreChains(c)
      /\ Factor(c)' = Factor(c) /\ ChainLen(c)' = ChainLen(c)
      /\ \A off, s : Solves(c, off, s)' = Solves(c, off, s)
  BY <1>a, <1>0, PlaceStays DEF caller, position, loop, shared, Domains
<1>3. Domains'
  <2>1. \A d \in Callers : DOMAIN block'[d] = Buffers
    BY <1>0, <1>1, <1>a DEF Domains
  <2>2. \A d \in Callers, buf \in Buffers : DOMAIN block'[d][buf] = Panels
    BY <1>0, <1>1, <1>a DEF Domains
  <2>3. DOMAIN block' = Callers /\ DOMAIN job' = Workers
    BY <1>0, <1>1, <1>a DEF Domains
  <2> QED
    BY <1>1, <1>a, <2>1, <2>2, <2>3 DEF Domains, caller, position, loop
<1>4. Factors'
  BY <1>a, <1>0, <1>1, NoneIsNothing
  DEF caller, position, loop, shared, Factors, ConvertedOnce, HoldsLock
<1>5. \A d \in Callers \ {c} : CallerInv(d)'
  <2> SUFFICES ASSUME NEW d \in Callers, d # c PROVE CallerInv(d)'
    OBVIOUS
  <2>1. Same(d)
    BY <1>a, <1>0, <1>1 DEF caller, position, loop, shared, Domains, Same, Team
  <2>2. /\ L' = L
        /\ Lldl' = Lldl \/ (Lldl = None /\ ldl_mtx # d)
        /\ ldl_mtx' = ldl_mtx \/ (ldl_mtx # d /\ ldl_mtx' # d)
    BY <1>a, <1>0, <1>1, NoneIsNothing
    DEF caller, position, loop, shared, Factors, HoldsLock
  <2> QED
    BY <2>1, <2>2, OthersStay
<1>6. HoldsLock(c)'
  BY <1>a, <1>0, <1>1, NoneIsNothing
  DEF caller, position, loop, shared, HoldsLock, Domains, Factors, AfterEnsure
<1>7. Fits(c)'
  BY <1>a, <1>0, <1>1, AskedType
  DEF caller, position, loop, shared, Fits, Domains, AfterEnsure, Ops
<1>8. InLoop(c)' /\ Apart(c)'
  BY <1>a, <1>0, <1>1
  DEF caller, position, loop, shared, InLoop, Apart, Domains, AfterEnsure, Team, Idle
<1>9. \A w \in Team(c) : JobOK(w)'
  <2> SUFFICES ASSUME NEW w \in Team(c) PROVE JobOK(w)'
    OBVIOUS
  <2>1. CASE w = u
    <3>1. job'[u] = Idle
      BY <1>0, <1>1, <1>a DEF Domains
    <3> QED
      BY <1>0, <1>a, <2>1, <3>1 DEF JobOK, Idle, caller
  <2>2. CASE w # u
    <3>1. job'[w] = job[w] /\ JobOK(w)
      BY <1>0, <1>1, <1>a, <2>2 DEF Domains
    <3>2. block'[c][In(c)] = block[c][In(c)]
      BY <1>0, <1>1, <1>a DEF Domains
    <3>3. PanelJob(w, job[w].item)' = PanelJob(w, job[w].item)
      BY <1>0, <1>2, <1>a, <3>1, <3>2 DEF PanelJob, caller, position
    <3>4. pc' = pc /\ cursor' = cursor /\ running' = running
      BY <1>a DEF caller, loop
    <3> QED
      BY <1>0, <1>a, <3>1, <3>3, <3>4 DEF JobOK
  <2> QED
    BY <2>1, <2>2
<1>10. \A w \in Team(c) : CopyOK(w)'
  BY <1>a, <1>0, <1>1
  DEF caller, position, loop, shared, CopyOK, Domains, AfterEnsure, Fits, Idle
<1>11. Position(c)'
  BY <1>2, <1>a, <1>0, <1>1
  DEF caller, position, loop, shared, Position, Domains, AfterEnsure
<1>12. Blocks(c)'
  <2>1. pc' = pc /\ stage' = stage /\ k' = k /\ coff' = coff /\ call' = call
        /\ failed' = failed /\ cursor' = cursor
    BY <1>a DEF caller, position, loop
  <2>2. \A buf \in Buffers : buf # Out(c) => block'[c][buf] = block[c][buf]
    BY <1>0, <1>1, <1>a DEF Domains
  <2>3. \A p \in Panels :
          block'[c][Out(c)][p] = IF p = job[u].item THEN Solves(c, coff[c], stage[c] + 1)
                                 ELSE block[c][Out(c)][p]
    BY <1>0, <1>1, <1>a DEF Domains
  <2>4. \A n \in Chains, p \in Panels : block'[c][<<"b", n>>][p] = <<>>
    <3> SUFFICES ASSUME NEW n \in Chains, NEW p \in Panels
                 PROVE  block'[c][<<"b", n>>][p] = <<>>
      OBVIOUS
    <3>1. <<"b", n>> \in Buffers
      BY DEF Buffers
    <3>2. block[c][<<"b", n>>][p] = <<>>
      BY <1>1, <1>a DEF Blocks
    <3> QED
      BY <1>a, <2>2, <3>1, <3>2
  <2>5. ChainsDone(c, k[c] - 1)'
    <3>1. ChainsDone(c, k[c] - 1)
      BY <1>1, <1>a DEF Blocks
    <3>2. \A n \in 1..(k[c] - 1) : block'[c][<<"x", n>>] = block[c][<<"x", n>>]
      BY <1>a, <2>2
    <3>3. /\ Starts[call[c]]' = Starts[call[c]]
          /\ \A n : (call[c].chain_lens[n])' = call[c].chain_lens[n]
          /\ (k[c] - 1)' = k[c] - 1
      BY <2>1
    <3> SUFFICES ASSUME NEW start \in Starts[call[c]], NEW n \in 1..(k[c] - 1),
                        NEW p \in Panels
                 PROVE  block'[c][<<"x", n>>][p]
                          = Solves(c, start[n], call[c].chain_lens[n])'
      BY <3>3 DEF ChainsDone
    <3> QED
      BY <1>2, <3>1, <3>2, <3>3 DEF ChainsDone
  <2>6. stage[c] > 0 => \A p \in Panels : block'[c][In(c)][p] = Solves(c, coff[c], stage[c])
    <3>1. block'[c][In(c)] = block[c][In(c)]
      BY <1>a, <2>2
    <3> QED
      BY <1>1, <1>a, <3>1 DEF Blocks
  <2>7. ASSUME ~failed[c], NEW p \in 1..(cursor[c] - 1)
        PROVE  \/ \E w \in Team(c) : job'[w].item = p
               \/ block'[c][Out(c)][p] = Solves(c, coff[c], stage[c] + 1)
    <3>1. p \in Panels
      BY <1>0, <1>1, SharedAssumption DEF Domains, Panels
    <3>2. CASE p = job[u].item
      BY <2>3, <3>1, <3>2
    <3>3. CASE p # job[u].item
      <4>1. \/ \E w \in Team(c) : job[w].item = p
            \/ block[c][Out(c)][p] = Solves(c, coff[c], stage[c] + 1)
        BY <1>1, <1>a, <2>7 DEF Blocks
      <4>2. \A w \in Team(c) : w # u => job'[w] = job[w]
        BY <1>0, <1>1, <1>a DEF Domains
      <4> QED
        BY <2>3, <3>1, <3>3, <4>1, <4>2
    <3> QED
      BY <3>2, <3>3
  <2> QED
    BY <1>2, <2>1, <2>4, <2>5, <2>6, <2>7 DEF Blocks
<1>13. Answered(c)'
  <2>1. answer[c] = None /\ call'[c] = call[c] /\ answer' = answer /\ read' = read /\ pc' = pc
    BY <1>1, <1>a DEF Answered, caller
  <2> QED
    BY <1>1, <2>1, NoneIsNothing DEF Answered
<1> QED
  BY <1>a, <1>0, <1>3, <1>4, <1>5, <1>6, <1>7, <1>8, <1>9, <1>10, <1>11, <1>12, <1>13
  DEF IInv, CallerInv

-----------------------------------------------------------------------------
(* The invariant, and what follows from it.                                *)

LEMMA InitIInv ==
  ASSUME Init
  PROVE  IInv
<1> USE TeamWorkers DEF Init
<1>1. Domains
  <2>1. \A c \in Callers : \A buf \in Buffers : DOMAIN block[c][buf] = Panels
    OBVIOUS
  <2> QED
    BY <2>1, SharedAssumption DEF Domains, Points
<1>2. Factors
  BY DEF Factors, ConvertedOnce
<1>3. ASSUME NEW c \in Callers PROVE CallerInv(c)
  <2>1. pc[c] = "idle" /\ running[c] = {} /\ answer[c] = None /\ read[c] = {}
        /\ call[c] = None
    BY <1>3
  <2>2. \A w \in Team(c) : job[w] = Idle /\ copy[w] = None /\ job[w].item = 0
    BY <1>3 DEF Idle
  <2>3. HoldsLock(c)
    BY <1>3, <2>1, NoneIsNothing DEF HoldsLock
  <2>4. InLoop(c) /\ Apart(c)
    BY <1>3, <2>1, <2>2 DEF InLoop, Apart, Team
  <2>5. \A w \in Team(c) : JobOK(w) /\ CopyOK(w)
    BY <1>3, <2>1, <2>2 DEF JobOK, CopyOK
  <2> QED
    BY <2>1, <2>3, <2>4, <2>5, NoneIsNothing
    DEF CallerInv, Fits, Position, Blocks, Answered
<1> QED
  BY <1>1, <1>2, <1>3 DEF IInv

\* Every step keeps the invariant.
LEMMA NextIInv ==
  ASSUME IInv, [Next]_vars
  PROVE  IInv'
<1>1. ASSUME NEW c \in Callers, Call(c) PROVE IInv'
  BY <1>1, CallKeeps
<1>2. ASSUME NEW c \in Callers, CallerSteps(c) PROVE IInv'
  <2>1. CASE Ensure(c)
    BY <2>1, EnsureFoundKeeps, EnsureLocksKeeps
  <2>2. CASE Converted(c) \/ ConvertFails(c)
    BY <2>2, ConvertedKeeps, ConvertFailsKeeps
  <2>3. CASE BeginRead(c) \/ EndRead(c)
    BY <2>3, BeginReadKeeps, EndReadAnswersKeeps, EndReadCopiesKeeps
  <2>4. CASE Update(c) \/ UpdateFails(c)
    BY <2>4, UpdateKeeps, UpdateFailsKeeps
  <2>5. CASE AllChainsDone(c) \/ EmptyChain(c) \/ InvalidMode(c)
    BY <2>5, AllChainsDoneKeeps, EmptyChainKeeps, InvalidModeKeeps
  <2>6. CASE Fork(c)
    BY <2>6, ForkKeeps
  <2>7. CASE Join(c)
    BY <2>7, JoinEndsKeeps, JoinNextStageKeeps, JoinNextChainKeeps
  <2> QED
    BY <1>2, <2>1, <2>2, <2>3, <2>4, <2>5, <2>6, <2>7 DEF CallerSteps
<1>3. ASSUME NEW w \in Workers, WorkerSteps(w) PROVE IInv'
  BY <1>3, ClaimKeeps, SolvedKeeps, FailsKeeps, LeaveKeeps, ClaimPathKeeps,
     DropRowsKeeps, PathDoneKeeps DEF WorkerSteps
<1>4. CASE UNCHANGED vars
  <2> USE <1>4 DEF vars, caller, position, loop, shared
  <2>1. \A d \in Callers : Same(d)
    BY DEF Same
  <2>2. \A d \in Callers : CallerInv(d)'
    BY <2>1, OthersStay
  <2>3. Domains' /\ Factors'
    BY DEF IInv, Domains, Factors, ConvertedOnce
  <2> QED
    BY <2>2, <2>3 DEF IInv
<1> QED
  BY <1>1, <1>2, <1>3, <1>4 DEF Next

\* The invariant holds in every state the calls can reach.
LEMMA Invariance == Spec => []IInv
<1>1. Init => IInv
  BY InitIInv
<1>2. IInv /\ [Next]_vars => IInv'
  BY NextIInv
<1> QED
  BY <1>1, <1>2, PTL DEF Spec

\* Every variable keeps to its type.
THEOREM TypeCorrect == Spec => []TypeOK
<1>1. ASSUME IInv PROVE TypeOK
  <2>1. ASSUME NEW c \in Callers PROVE running[c] \subseteq {<<c, 0>>, <<c, 1>>}
    BY <1>1, <2>1 DEF IInv, CallerInv, InLoop, Team
  <2>2. ASSUME NEW w \in Workers PROVE job[w].item \in 0..NPanels
    <3>1. JobOK(w) /\ Own(w) \in Callers /\ cursor[Own(w)] \in 1..(NPanels + 1)
      BY <1>1, TeamWorkers DEF IInv, CallerInv, Domains
    <3>2. job[w].item = 0 \/ job[w].item \in 1..(cursor[Own(w)] - 1)
      BY <3>1 DEF JobOK
    <3> QED
      BY <3>1, <3>2, SharedAssumption
  <2> QED
    BY <1>1, <2>1, <2>2 DEF TypeOK, IInv, Domains, Factors, Points
<1> QED
  BY <1>1, Invariance, PTL

\* The LDL' copy of a factor is made once: whoever finds none holds ldl_mtx,
\* so nobody else makes one, and a copy that is there is not made again.
THEOREM OneConversion == Spec => []ConvertedOnce
<1>1. IInv => ConvertedOnce
  BY DEF IInv, Factors
<1> QED
  BY <1>1, Invariance, PTL

\* The factor and its copy are those of the matrix at all times, and all that
\* calls read is that: changes are made to copies of the copy.
THEOREM SharedFactorUnchanged == Spec => []AnswersOwnFactor
<1>1. IInv => AnswersOwnFactor
  BY DEF IInv, Factors, CallerInv, Answered, AnswersOwnFactor
<1> QED
  BY <1>1, Invariance, PTL

\* A call that succeeds has done all solves of all its chains to all panels,
\* whatever the buffers held before and whichever worker took which panel.
THEOREM ChainsComposed == Spec => []ChainComposes
<1>1. ASSUME IInv PROVE ChainComposes
  <2> SUFFICES ASSUME NEW c \in Callers, answer[c] = "ok",
                      call[c].op \in {"chain", "updown"},
                      NEW start \in Starts[call[c]],
                      NEW n \in 1..Len(call[c].chain_lens), NEW p \in Panels
               PROVE  block[c][<<"x", n>>][p]
                        = [s \in 1..call[c].chain_lens[n] |->
                             <<IF call[c].op = "updown" THEN {<<c, 0>>} ELSE {},
                               call[c].mode_chain[start[n] + s]>>]
    BY DEF ChainComposes
  <2>1. ChainsDone(c, Len(call[c].chain_lens))
    BY <1>1 DEF IInv, CallerInv, Answered
  <2>2. block[c][<<"x", n>>][p] = Solves(c, start[n], call[c].chain_lens[n])
    BY <2>1 DEF ChainsDone
  <2> QED
    BY <2>2 DEF Solves, Changes
<1> QED
  BY <1>1, Invariance, PTL

-----------------------------------------------------------------------------
(* Nobody is in another's way.                                             *)

\* Places of different shapes are different places.
LEMMA PlacesDiffer ==
  ASSUME NEW c, NEW i, NEW d, NEW j, NEW p, NEW q, NEW a, NEW b, NEW n, NEW m
  PROVE  /\ <<"L">> # <<"Lldl">>
         /\ <<"Lldl">> # <<"copy", c, i>> /\ <<"L">> # <<"copy", c, i>>
         /\ <<"Lldl">> # <<"work", c, i>> /\ <<"L">> # <<"work", c, i>>
         /\ <<"Lldl">> # <<"logp", c, p>> /\ <<"L">> # <<"logp", c, p>>
         /\ <<"Lldl">> # <<a, n, c, p>> /\ <<"L">> # <<a, n, c, p>>
         /\ <<"copy", c, i>> # <<"work", d, j>> /\ <<"copy", c, i>> # <<"logp", d, q>>
         /\ <<"work", c, i>> # <<"logp", d, q>>
         /\ <<"copy", c, i>> # <<b, m, d, q>> /\ <<"work", c, i>> # <<b, m, d, q>>
         /\ <<"logp", c, p>> # <<b, m, d, q>>
         /\ (c # d \/ i # j) => <<"copy", c, i>> # <<"copy", d, j>>
         /\ (c # d \/ i # j) => <<"work", c, i>> # <<"work", d, j>>
         /\ (c # d \/ p # q) => <<"logp", c, p>> # <<"logp", d, q>>
         /\ (c # d \/ p # q) => <<a, n, c, p>> # <<b, m, d, q>>
OBVIOUS

\* What a worker in the middle of an access writes.
LEMMA WritesOf ==
  ASSUME IInv, NEW w \in Workers, NEW x \in job[w].writes
  PROVE  LET c == Own(w)
             p == job[w].item
         IN \/ x = <<"Lldl">> /\ pc[c] = "convert" /\ w[2] = 0
            \/ x = <<"copy", c, w[2]>> /\ pc[c] \in {"reading", "paths"}
            \/ x = <<"work", c, w[2]>> /\ p # 0
            \/ x = <<"logp", c, p>> /\ p # 0
            \/ p # 0 /\ \E a, n : x = <<a, n, c, p>>
<1> DEFINE c == Own(w)
           p == job[w].item
<1> USE TeamWorkers
<1>1. c \in Callers /\ w \in Team(c) /\ JobOK(w) /\ Fits(c) /\ Position(c)
  BY DEF IInv, CallerInv
<1>2. CASE p # 0 /\ pc[c] = "panels"
  <2>1. job[w] = PanelJob(w, p)
    BY <1>1, <1>2 DEF JobOK
  <2>2. x = Workspace(w) \/ x = Panel(Out(c), c, p)
    BY <2>1 DEF PanelJob
  <2>3. PICK a, n : Out(c) = <<a, n>>
    BY DEF Out
  <2>4. Panel(Out(c), c, p) = <<a, n, c, p>>
    BY <2>3, PanelPlace
  <2> QED
    BY <1>1, <1>2, <2>2, <2>4 DEF Workspace
<1>3. CASE p # 0 /\ pc[c] = "paths"
  <2>1. job[w] = PathJob(w, p)
    BY <1>1, <1>3 DEF JobOK
  <2> QED
    BY <1>3, <2>1 DEF PathJob
<1>4. CASE p = 0
  BY <1>1, <1>4 DEF JobOK, Idle
<1>5. p # 0 => pc[c] \in {"panels", "paths"}
  BY <1>1 DEF JobOK
<1> QED
  BY <1>2, <1>3, <1>4, <1>5

\* What a worker in the middle of an access reads.
LEMMA ReadsOf ==
  ASSUME IInv, NEW w \in Workers, NEW x \in job[w].reads
  PROVE  LET c == Own(w)
             p == job[w].item
         IN \/ x = <<"L">>
            \/ x = <<"Lldl">> /\ pc[c] \in {"reading", "paths"}
            \/ x = <<"copy", c, 0>> /\ pc[c] = "panels"
            \/ p # 0 /\ \E a, n : x = <<a, n, c, p>>
<1> DEFINE c == Own(w)
           p == job[w].item
<1> USE TeamWorkers
<1>1. c \in Callers /\ w \in Team(c) /\ JobOK(w)
  BY DEF IInv, CallerInv
<1>2. CASE p # 0 /\ pc[c] = "panels"
  <2>1. job[w] = PanelJob(w, p)
    BY <1>1, <1>2 DEF JobOK
  <2>2. x = Factor(c) \/ x = Panel(In(c), c, p)
    BY <2>1 DEF PanelJob
  <2>3. PICK a, n : In(c) = <<a, n>>
    BY DEF In
  <2>4. Panel(In(c), c, p) = <<a, n, c, p>>
    BY <2>3, PanelPlace
  <2> QED
    BY <1>1, <1>2, <2>2, <2>4 DEF Factor
<1>3. CASE p # 0 /\ pc[c] = "paths"
  <2>1. job[w] = PathJob(w, p)
    BY <1>1, <1>3 DEF JobOK
  <2> QED
    BY <1>3, <2>1 DEF PathJob
<1>4. CASE p = 0
  BY <1>1, <1>4 DEF JobOK, Idle
<1>5. p # 0 => pc[c] \in {"panels", "paths"}
  BY <1>1 DEF JobOK
<1> QED
  BY <1>2, <1>3, <1>4, <1>5

\* Two workers of one caller hold different items; two callers are never both
\* converting, and none reads the copy while another makes it.
LEMMA HandsApart ==
  ASSUME IInv, NEW v \in Workers, NEW w \in Workers, v # w
  PROVE  /\ Own(v) # Own(w) \/ v[2] # w[2]
         /\ Own(v) = Own(w) /\ job[v].item # 0 => job[v].item # job[w].item
         /\ Own(v) # Own(w) /\ pc[Own(v)] = "convert" =>
              pc[Own(w)] \notin {"convert", "reading", "paths"}
<1> USE TeamWorkers
<1>1. Own(v) \in Callers /\ Own(w) \in Callers /\ v \in Team(Own(v)) /\ w \in Team(Own(w))
  OBVIOUS
<1>2. Own(v) # Own(w) \/ v[2] # w[2]
  BY <1>1
<1>3. ASSUME Own(v) = Own(w), job[v].item # 0 PROVE job[v].item # job[w].item
  <2>1. Apart(Own(v))
    BY <1>1 DEF IInv, CallerInv
  <2> QED
    BY <1>1, <1>2, <1>3, <2>1 DEF Apart, Team
<1>4. HoldsLock(Own(v)) /\ HoldsLock(Own(w))
  BY <1>1 DEF IInv, CallerInv
<1> QED
  BY <1>1, <1>2, <1>3, <1>4 DEF HoldsLock

\* No two threads are in the middle of accesses to one place, one of them a
\* write: the copy is written by who holds ldl_mtx before anybody reads it, each
\* solve has a workspace of its own, and each panel one worker.
THEOREM NoDataRace == Spec => []NoRace
<1>1. ASSUME IInv PROVE NoRace
  <2> SUFFICES ASSUME NEW v \in Workers, NEW w \in Workers, v # w,
                      NEW x \in job[v].writes,
                      x \in job[w].reads \cup job[w].writes
               PROVE  FALSE
    BY DEF NoRace
  <2> DEFINE c == Own(v)
             d == Own(w)
             p == job[v].item
             q == job[w].item
  <2>1. \/ x = <<"Lldl">> /\ pc[c] = "convert" /\ v[2] = 0
        \/ x = <<"copy", c, v[2]>> /\ pc[c] \in {"reading", "paths"}
        \/ x = <<"work", c, v[2]>> /\ p # 0
        \/ x = <<"logp", c, p>> /\ p # 0
        \/ p # 0 /\ \E a, n : x = <<a, n, c, p>>
    BY <1>1, WritesOf
  <2>2. /\ c # d \/ v[2] # w[2]
        /\ c = d /\ p # 0 => p # q
        /\ c # d /\ pc[c] = "convert" => pc[d] \notin {"convert", "reading", "paths"}
    BY <1>1, HandsApart
  <2>3. CASE x \in job[w].writes
    <3>1. \/ x = <<"Lldl">> /\ pc[d] = "convert" /\ w[2] = 0
          \/ x = <<"copy", d, w[2]>> /\ pc[d] \in {"reading", "paths"}
          \/ x = <<"work", d, w[2]>> /\ q # 0
          \/ x = <<"logp", d, q>> /\ q # 0
          \/ q # 0 /\ \E a, n : x = <<a, n, d, q>>
      BY <1>1, <2>3, WritesOf
    <3> HIDE DEF c, d, p, q
    <3> QED
      BY <2>1, <2>2, <3>1, PlacesDiffer
  <2>4. CASE x \in job[w].reads
    <3>1. \/ x = <<"L">>
          \/ x = <<"Lldl">> /\ pc[d] \in {"reading", "paths"}
          \/ x = <<"copy", d, 0>> /\ pc[d] = "panels"
          \/ q # 0 /\ \E a, n : x = <<a, n, d, q>>
      BY <1>1, <2>4, ReadsOf
    <3> HIDE DEF c, d, p, q
    <3> QED
      BY <2>1, <2>2, <3>1, PlacesDiffer
  <2> QED
    BY <2>3, <2>4
<1> QED
  BY <1>1, Invariance, PTL

=============================================================================
