--------------------------- MODULE HandlersProofs ---------------------------
(***************************************************************************)
(* What TLAPS proves of Handlers, for any callers, any matrices of each    *)
(* kind and batches of any size: what a call answers agrees with           *)
(* on_failure, wherever in the call the setting changes.                   *)
(***************************************************************************)
EXTENDS Handlers, TLAPS

\* A NaN, or an error about the numbers, has a setting that allows it.
NaNAllowed(c, m) ==
  Fails(op[c], m) /\ (TRUE \in seen[c] \/ (m \in Unfactorable /\ op[c] \in TokenOps))

ErrorAllowed(c, i) == FALSE \in seen[c] /\ Fails(op[c], asked[c][i])

\* What the stage of an element says of its request, its reply and its outputs.
Stage(c, i) ==
  LET w == <<c, i>>
      m == asked[c][i]
  IN /\ at[w] \in {"idle", "waiting", "done", "stopped"} =>
          request[w] = None /\ reply[w] = Factors!NoReply
     /\ at[w] # "done" => out[w] = Blank
     /\ at[w] \in {"busy", "updated", "numbers", "library"} =>
          i \in Elements(c) /\ request[w] = m
     /\ at[w] = "busy" =>
          \/ reply[w] = Factors!NoReply
          \/ reply[w] = Factors!FactorOf(m) /\ m \notin Unfactorable
          \/ reply[w] = Factors!NaNReply /\ m \in Unfactorable /\ TRUE \in seen[c]
     /\ at[w] = "updated" =>
          op[c] = "updown" /\ reply[w] = Factors!FactorOf(m) /\ m \notin Unfactorable
     /\ at[w] \in {"numbers", "library"} => reply[w] = Factors!ErrorReply
     /\ at[w] = "numbers" => ErrorAllowed(c, i)
     /\ at[w] = "stopped" => error[c] # "none"
     /\ at[w] = "done" =>
          \/ out[w] = All(op[c], Number(m)) /\ ~Fails(op[c], m)
          \/ out[w] = All(op[c], NaN) /\ NaNAllowed(c, m)

\* What the call's place says of its elements, and the history of the setting.
CallState(c) ==
  /\ pc[c] # "idle" => nanOnFailure \in seen[c]
  /\ pc[c] = "idle" => asked[c] = <<>> /\ error[c] = "none"
  /\ pc[c] = "checking" => error[c] = "none"
  /\ error[c] = "numbers" => \E i \in Elements(c) : ErrorAllowed(c, i)
  /\ \A i \in 1..MaxBatch :
       /\ Stage(c, i)
       /\ at[<<c, i>>] = "idle" <=> i \notin Elements(c)
       /\ pc[c] = "checking" => at[<<c, i>>] \in {"idle", "waiting"}
       /\ pc[c] = "returned" => at[<<c, i>>] \in {"idle", "waiting", "done", "stopped"}
       /\ pc[c] = "returned" /\ error[c] = "none" => at[<<c, i>>] \in {"idle", "done"}

HandlerInv == TypeOK /\ \A c \in Callers : CallState(c)

-----------------------------------------------------------------------------
LEMMA ElementsOfBatch ==
  ASSUME NEW ms \in Batches
  PROVE  DOMAIN ms \subseteq 1..MaxBatch /\ \A i \in DOMAIN ms : ms[i] \in Matrices
  BY HandlerAssumption DEF Batches

LEMMA ElementsInBounds ==
  ASSUME TypeOK, NEW c \in Callers
  PROVE  /\ Elements(c) \subseteq 1..MaxBatch
         /\ \A i \in Elements(c) : asked[c][i] \in Matrices
<1>1. CASE asked[c] = <<>>
  BY <1>1 DEF Elements
<1>2. CASE asked[c] \in Batches
  BY <1>2, ElementsOfBatch DEF Elements
<1> QED
  BY <1>1, <1>2 DEF TypeOK

\* The steps of the work on one element change nothing of any other.
Apart(c, i) ==
  /\ UNCHANGED <<nanOnFailure, pc, op, asked, seen>>
  /\ \A w \in Requesters : w # <<c, i>> =>
       at'[w] = at[w] /\ out'[w] = out[w] /\ request'[w] = request[w] /\ reply'[w] = reply[w]
  /\ \A d \in Callers : d # c => error'[d] = error[d]

LEMMA WorkIsApart ==
  ASSUME TypeOK, NEW c \in Callers, NEW i \in 1..MaxBatch, Work(c, i)
  PROVE  Apart(c, i)
<1> USE DEF TypeOK, Apart, Requesters, callVars
<1>1. CASE Ask(c, i) \/ TakeToken(c, i)
  BY <1>1 DEF Ask, TakeToken, Factors!Ask, Factors!Recall
<1>2. CASE GetFactor(c, i) \/ FactorEmpty(c, i) \/ FactorFails(c, i)
  BY <1>2 DEF GetFactor, FactorEmpty, FactorFails, Factors!Reply
<1>3. CASE PassError(c, i) \/ FlatLogdetFails(c, i) \/ ConvertFails(c, i)
             \/ LibraryFails(c, i)
  BY <1>3 DEF PassError, FlatLogdetFails, ConvertFails, LibraryFails, Stop, Done, Factors!Done
<1>4. CASE AnswerNaN(c, i) \/ Read(c, i) \/ ReadLuLogdet(c, i)
             \/ ReadFlatLogdet(c, i) \/ SolveUpdated(c, i)
  BY <1>4 DEF AnswerNaN, Read, ReadLuLogdet, ReadFlatLogdet, SolveUpdated, Answer,
              Done, Factors!Done
<1>5. CASE TakeFailedToken(c, i)
  BY <1>5 DEF TakeFailedToken, Answer
<1>6. CASE Update(c, i)
  BY <1>6 DEF Update
<1>7. CASE UpdateSpoils(c, i) \/ SpoiledLogdet(c, i)
  BY <1>7 DEF UpdateSpoils, SpoiledLogdet, Answer, Stop, Done, Factors!Done
<1> QED
  BY <1>1, <1>2, <1>3, <1>4, <1>5, <1>6, <1>7 DEF Work

\* What the step does to its own element and to the call's error.
Lawful(c, i) ==
  /\ pc[c] = "working"
  /\ i \in Elements(c)
  /\ at'[<<c, i>>] # "idle"
  /\ Stage(c, i)'
  /\ \/ error'[c] = error[c]
     \/ /\ error[c] = "none"
        /\ error'[c] \in {"numbers", "library"}
        /\ error'[c] = "numbers" => ErrorAllowed(c, i)

\* The answers and the errors of an element, whichever handler gives them.
LEMMA AnswerIsLawful ==
  ASSUME HandlerInv, NEW c \in Callers, NEW i \in 1..MaxBatch,
         pc[c] = "working", i \in Elements(c),
         NEW cell, Answer(c, i, All(op[c], cell)),
         request'[<<c, i>>] = None, reply'[<<c, i>>] = Factors!NoReply,
         \/ cell = Number(asked[c][i]) /\ ~Fails(op[c], asked[c][i])
         \/ cell = NaN /\ NaNAllowed(c, asked[c][i])
  PROVE  Lawful(c, i) /\ at' \in [Requesters -> {"idle", "waiting", "busy",
                                    "updated", "numbers", "library", "done", "stopped"}]
         /\ out' \in [Requesters -> [Names -> Cells]]
<1> DEFINE w == <<c, i>>
<1>1. w \in Requesters /\ asked[c][i] \in Matrices
  BY ElementsInBounds DEF Requesters, HandlerInv
<1>2. /\ at' = [at EXCEPT ![w] = "done"]
      /\ out' = [out EXCEPT ![w] = All(op[c], cell)]
      /\ UNCHANGED <<pc, op, asked, error, seen>>
  BY DEF Answer
<1>3. cell \in Cells
  BY <1>1 DEF Cells
<1>4. All(op[c], cell) \in [Names -> Cells]
  BY <1>3 DEF All, Cells
<1>5. /\ at' \in [Requesters -> {"idle", "waiting", "busy", "updated",
                                 "numbers", "library", "done", "stopped"}]
      /\ out' \in [Requesters -> [Names -> Cells]]
  BY <1>1, <1>2, <1>4 DEF HandlerInv, TypeOK
<1>6. at'[w] = "done" /\ out'[w] = All(op[c], cell)
  BY <1>1, <1>2 DEF HandlerInv, TypeOK
<1>7. Stage(c, i)'
  <2>1. \/ out'[w] = All(op[c], Number(asked[c][i])) /\ ~Fails(op[c], asked[c][i])
        \/ out'[w] = All(op[c], NaN) /\ NaNAllowed(c, asked[c][i])
    BY <1>6
  <2>2. NaNAllowed(c, asked[c][i]) => NaNAllowed(c, asked[c][i])'
    BY <1>2 DEF NaNAllowed
  <2> QED
    BY <2>1, <2>2, <1>2, <1>6 DEF Stage
<1> QED
  BY <1>2, <1>5, <1>6, <1>7 DEF Lawful

LEMMA StopIsLawful ==
  ASSUME HandlerInv, NEW c \in Callers, NEW i \in 1..MaxBatch,
         pc[c] = "working", i \in Elements(c),
         NEW why \in {"numbers", "library"}, Stop(c, i, why),
         request'[<<c, i>>] = None, reply'[<<c, i>>] = Factors!NoReply,
         at[<<c, i>>] # "done", why = "numbers" => ErrorAllowed(c, i)
  PROVE  Lawful(c, i) /\ at' \in [Requesters -> {"idle", "waiting", "busy",
                                    "updated", "numbers", "library", "done", "stopped"}]
         /\ error' \in [Callers -> {"none", "numbers", "library", "argument"}]
<1> DEFINE w == <<c, i>>
<1>1. w \in Requesters
  BY DEF Requesters
<1>2. /\ at' = [at EXCEPT ![w] = "stopped"]
      /\ error' = [error EXCEPT ![c] = IF error[c] = "none" THEN why ELSE error[c]]
      /\ UNCHANGED <<pc, op, asked, out, seen>>
  BY DEF Stop
<1>3. /\ at' \in [Requesters -> {"idle", "waiting", "busy", "updated",
                                 "numbers", "library", "done", "stopped"}]
      /\ error' \in [Callers -> {"none", "numbers", "library", "argument"}]
  BY <1>1, <1>2 DEF HandlerInv, TypeOK
<1>4. at'[w] = "stopped" /\ error'[c] = (IF error[c] = "none" THEN why ELSE error[c])
  BY <1>1, <1>2 DEF HandlerInv, TypeOK
<1>5. out'[w] = Blank
  BY <1>2 DEF HandlerInv, CallState, Stage
<1> QED
  BY <1>2, <1>3, <1>4, <1>5 DEF Lawful, Stage, Blank

\* An element is done with its factor.
LEMMA DoneReleases ==
  ASSUME TypeOK, NEW c \in Callers, NEW i \in 1..MaxBatch, Done(c, i)
  PROVE  /\ request'[<<c, i>>] = None /\ reply'[<<c, i>>] = Factors!NoReply
         /\ request' \in [Requesters -> Matrices \cup {None}]
         /\ reply' \in [Requesters -> {Factors!NoReply, Factors!NaNReply, Factors!ErrorReply}
                                      \cup {Factors!FactorOf(m) : m \in Matrices}]
  BY DEF TypeOK, Done, Factors!Done, Requesters

\* What the oracle's reply can be, and what stage it finds the element in.
LEMMA ReplyGiven ==
  ASSUME HandlerInv, NEW c \in Callers, NEW i \in 1..MaxBatch,
         Asking(c, i), Factors!Reply(<<c, i>>)
  PROVE  /\ at[<<c, i>>] = "busy"
         /\ request' = request /\ request[<<c, i>>] = asked[c][i]
         /\ \/ reply'[<<c, i>>] = Factors!ErrorReply
            \/ reply'[<<c, i>>] = Factors!NaNReply /\ asked[c][i] \in Unfactorable
            \/ reply'[<<c, i>>] = Factors!FactorOf(asked[c][i])
               /\ asked[c][i] \notin Unfactorable
         /\ reply' \in [Requesters -> {Factors!NoReply, Factors!NaNReply, Factors!ErrorReply}
                                      \cup {Factors!FactorOf(m) : m \in Matrices}]
<1> DEFINE w == <<c, i>>
<1>1. w \in Requesters /\ request[w] # None /\ reply[w] = Factors!NoReply
  BY DEF Requesters, Asking
<1>2. Stage(c, i)
  BY DEF HandlerInv, CallState
<1>3. at[w] \in {"idle", "waiting", "busy", "updated", "numbers", "library", "done", "stopped"}
  BY <1>1 DEF HandlerInv, TypeOK
<1>4. Factors!ErrorReply # Factors!NoReply
      /\ \A m : Factors!FactorOf(m) # Factors!NoReply
  BY DEF Factors!ErrorReply, Factors!NoReply, Factors!FactorOf
<1>5. at[w] = "busy" /\ request[w] = asked[c][i]
  BY <1>1, <1>2, <1>3, <1>4 DEF Stage
<1>6. asked[c][i] \in Matrices
  BY <1>1, <1>5 DEF HandlerInv, TypeOK
<1>7. PICK r \in {Factors!ErrorReply} \cup (IF request[w] \in Unfactorable
                     THEN {Factors!NaNReply} ELSE {Factors!FactorOf(request[w])}) :
         reply' = [reply EXCEPT ![w] = r]
  BY DEF Factors!Reply
<1> QED
  BY <1>1, <1>5, <1>6, <1>7 DEF Factors!Reply, HandlerInv, TypeOK

Lawfully(c, i) == TypeOK' /\ Lawful(c, i)

LEMMA AskLawful ==
  ASSUME HandlerInv, NEW c \in Callers, NEW i \in 1..MaxBatch,
         Ask(c, i) \/ TakeToken(c, i)
  PROVE  Lawfully(c, i)
<1> DEFINE w == <<c, i>>
<1>1. w \in Requesters /\ asked[c][i] \in Matrices /\ asked[c][i] # None
  BY ElementsInBounds, HandlerAssumption DEF Requesters, HandlerInv, Ask, TakeToken, Waiting
<1>2. Stage(c, i) /\ TypeOK
  BY DEF HandlerInv, CallState
<1>3. /\ i \in Elements(c) /\ pc[c] = "working"
      /\ at' = [at EXCEPT ![w] = "busy"]
      /\ request' = [request EXCEPT ![w] = asked[c][i]]
      /\ UNCHANGED <<nanOnFailure, pc, op, asked, out, error, seen>>
      /\ at[w] = "waiting"
  BY DEF Ask, TakeToken, Waiting, Factors!Ask, Factors!Recall
<1>4. \/ reply' = reply
      \/ reply' = [reply EXCEPT ![w] = Factors!FactorOf(asked[c][i])]
         /\ asked[c][i] \notin Unfactorable
  BY DEF Ask, TakeToken, Factors!Ask, Factors!Recall
<1>5. TypeOK'
  <2>1. request' \in [Requesters -> Matrices \cup {None}]
    BY <1>1, <1>2, <1>3 DEF TypeOK
  <2>2. reply' \in [Requesters -> {Factors!NoReply, Factors!NaNReply, Factors!ErrorReply}
                                  \cup {Factors!FactorOf(m) : m \in Matrices}]
    BY <1>1, <1>2, <1>4 DEF TypeOK
  <2>3. at' \in [Requesters -> {"idle", "waiting", "busy", "updated", "numbers",
                               "library", "done", "stopped"}]
    BY <1>1, <1>2, <1>3 DEF TypeOK
  <2> QED
    BY <1>2, <1>3, <2>1, <2>2, <2>3 DEF TypeOK, Cells
<1>6. at'[w] = "busy" /\ request'[w] = asked[c][i] /\ out'[w] = Blank
  BY <1>1, <1>2, <1>3 DEF TypeOK, Stage
<1>7. \/ reply'[w] = Factors!NoReply
      \/ reply'[w] = Factors!FactorOf(asked[c][i]) /\ asked[c][i] \notin Unfactorable
  BY <1>1, <1>2, <1>3, <1>4 DEF TypeOK, Stage
<1>8. Elements(c)' = Elements(c) /\ Blank' = Blank
  BY <1>3 DEF Elements, Blank
<1>9. Stage(c, i)'
  BY <1>3, <1>6, <1>7, <1>8 DEF Stage
<1> QED
  BY <1>3, <1>5, <1>6, <1>9 DEF Lawfully, Lawful

LEMMA FactorLawful ==
  ASSUME HandlerInv, NEW c \in Callers, NEW i \in 1..MaxBatch,
         GetFactor(c, i) \/ FactorEmpty(c, i) \/ FactorFails(c, i)
  PROVE  Lawfully(c, i)
<1> DEFINE w == <<c, i>>
<1>1. Asking(c, i) /\ Factors!Reply(w)
  BY DEF GetFactor, FactorEmpty, FactorFails
<1>2. /\ w \in Requesters /\ TypeOK /\ Stage(c, i)
      /\ pc[c] = "working" /\ i \in Elements(c)
      /\ nanOnFailure \in seen[c]
  BY <1>1 DEF Requesters, HandlerInv, CallState, Asking
<1>3. /\ at[w] = "busy"
      /\ request' = request /\ request[w] = asked[c][i]
      /\ \/ reply'[w] = Factors!ErrorReply
         \/ reply'[w] = Factors!NaNReply /\ asked[c][i] \in Unfactorable
         \/ reply'[w] = Factors!FactorOf(asked[c][i]) /\ asked[c][i] \notin Unfactorable
      /\ reply' \in [Requesters -> {Factors!NoReply, Factors!NaNReply, Factors!ErrorReply}
                                   \cup {Factors!FactorOf(m) : m \in Matrices}]
  BY <1>1, ReplyGiven
<1>4. out[w] = Blank
  BY <1>2, <1>3 DEF Stage
<1>5. CASE GetFactor(c, i) \/ FactorEmpty(c, i)
  <2>1. UNCHANGED <<nanOnFailure, pc, op, asked, at, out, error, seen>>
    BY <1>5 DEF GetFactor, FactorEmpty, callVars
  <2>2. TypeOK'
    BY <1>2, <1>3, <2>1 DEF TypeOK, Cells
  <2>3. \/ reply'[w] = Factors!FactorOf(asked[c][i]) /\ asked[c][i] \notin Unfactorable
        \/ reply'[w] = Factors!NaNReply /\ asked[c][i] \in Unfactorable /\ TRUE \in seen[c]
    <3>1. /\ Factors!NaNReply.kind = "nan" /\ Factors!ErrorReply.kind = "error"
          /\ \A m : Factors!FactorOf(m).kind = "factor"
      BY DEF Factors!NaNReply, Factors!ErrorReply, Factors!FactorOf
    <3>2. CASE GetFactor(c, i)
      <4>1. reply'[w].kind = "factor"
        BY <3>2 DEF GetFactor
      <4> QED
        BY <1>3, <3>1, <4>1
    <3>3. CASE FactorEmpty(c, i)
      <4>1. reply'[w].kind = "nan" /\ nanOnFailure
        BY <3>3 DEF FactorEmpty
      <4>2. TRUE \in seen[c]
        BY <1>2, <4>1 DEF TypeOK
      <4> QED
        BY <1>3, <3>1, <4>1, <4>2
    <3> QED
      BY <1>5, <3>2, <3>3
  <2>4. Elements(c)' = Elements(c)
    BY <2>1 DEF Elements
  <2>5. Stage(c, i)'
    BY <1>2, <1>3, <1>4, <2>1, <2>3, <2>4 DEF Stage, Blank
  <2> QED
    BY <1>2, <1>3, <2>1, <2>2, <2>5 DEF Lawfully, Lawful
<1>6. CASE FactorFails(c, i)
  <2>1. UNCHANGED <<nanOnFailure, pc, op, asked, out, error, seen>>
    BY <1>6 DEF FactorFails
  <2>2. PICK why \in {"library", "numbers"} :
          /\ at' = [at EXCEPT ![w] = why]
          /\ why = "numbers" => asked[c][i] \in Unfactorable /\ ~nanOnFailure
    BY <1>6 DEF FactorFails
  <2>3. TypeOK'
    BY <1>2, <1>3, <2>1, <2>2 DEF TypeOK, Cells
  <2>4. at'[w] = why /\ reply'[w] = Factors!ErrorReply
    BY <1>2, <1>3, <1>6, <2>2
    DEF TypeOK, FactorFails, Factors!FactorOf, Factors!NaNReply, Factors!ErrorReply
  <2>5. why = "numbers" => ErrorAllowed(c, i)
    BY <1>2, <2>2 DEF ErrorAllowed, Fails, TypeOK
  <2>6. Elements(c)' = Elements(c) /\ (ErrorAllowed(c, i) => ErrorAllowed(c, i)')
    BY <2>1 DEF Elements, ErrorAllowed
  <2>7. Stage(c, i)'
    BY <1>2, <1>3, <1>4, <2>1, <2>2, <2>4, <2>5, <2>6 DEF Stage, Blank
  <2> QED
    BY <1>2, <2>1, <2>2, <2>3, <2>4, <2>7 DEF Lawfully, Lawful
<1> QED
  BY <1>5, <1>6

\* Whose factor it is that a handler reads.
LEMMA FactorIsOwn ==
  ASSUME HandlerInv, NEW c \in Callers, NEW i \in 1..MaxBatch,
         Factored(c, i) \/ Updated(c, i)
  PROVE  /\ reply[<<c, i>>].of = asked[c][i] /\ asked[c][i] \notin Unfactorable
         /\ at[<<c, i>>] \in {"busy", "updated"} /\ pc[c] = "working" /\ i \in Elements(c)
         /\ nanOnFailure \in seen[c]
         /\ Updated(c, i) => op[c] = "updown"
<1>1. CallState(c) /\ Stage(c, i)
  BY DEF HandlerInv, CallState
<1>2. /\ Factors!NaNReply.kind = "nan" /\ Factors!NoReply.kind = "none"
      /\ \A m : Factors!FactorOf(m).kind = "factor" /\ Factors!FactorOf(m).of = m
  BY DEF Factors!NaNReply, Factors!NoReply, Factors!FactorOf
<1>3. CASE Factored(c, i)
  <2>1. /\ at[<<c, i>>] = "busy" /\ pc[c] = "working" /\ i \in Elements(c)
        /\ reply[<<c, i>>].kind = "factor"
    BY <1>3 DEF Factored, Answering
  <2>2. reply[<<c, i>>] = Factors!FactorOf(asked[c][i]) /\ asked[c][i] \notin Unfactorable
    BY <1>1, <1>2, <2>1 DEF Stage
  <2>3. ~Updated(c, i) /\ nanOnFailure \in seen[c]
    BY <1>1, <2>1 DEF Updated, CallState
  <2> QED
    BY <1>2, <2>1, <2>2, <2>3
<1>4. CASE Updated(c, i)
  BY <1>1, <1>2, <1>4 DEF Updated, Stage, CallState
<1> QED
  BY <1>3, <1>4

\* An element answered or stopped, once its stage allows it.
LEMMA AnsweredLawfully ==
  ASSUME HandlerInv, NEW c \in Callers, NEW i \in 1..MaxBatch,
         pc[c] = "working", i \in Elements(c), Done(c, i),
         NEW cell, Answer(c, i, All(op[c], cell)),
         \/ cell = Number(asked[c][i]) /\ ~Fails(op[c], asked[c][i])
         \/ cell = NaN /\ NaNAllowed(c, asked[c][i])
  PROVE  Lawfully(c, i)
<1>1. /\ request'[<<c, i>>] = None /\ reply'[<<c, i>>] = Factors!NoReply
      /\ request' \in [Requesters -> Matrices \cup {None}]
      /\ reply' \in [Requesters -> {Factors!NoReply, Factors!NaNReply, Factors!ErrorReply}
                                   \cup {Factors!FactorOf(m) : m \in Matrices}]
  BY DoneReleases DEF HandlerInv
<1>2. Lawful(c, i) /\ at' \in [Requesters -> {"idle", "waiting", "busy",
                                    "updated", "numbers", "library", "done", "stopped"}]
      /\ out' \in [Requesters -> [Names -> Cells]]
  BY <1>1, AnswerIsLawful
<1>3. UNCHANGED <<nanOnFailure, pc, op, asked, error, seen>>
  BY DEF Answer
<1> QED
  BY <1>1, <1>2, <1>3 DEF Lawfully, HandlerInv, TypeOK

LEMMA StoppedLawfully ==
  ASSUME HandlerInv, NEW c \in Callers, NEW i \in 1..MaxBatch,
         pc[c] = "working", i \in Elements(c), Done(c, i),
         NEW why \in {"numbers", "library"}, Stop(c, i, why),
         at[<<c, i>>] # "done", why = "numbers" => ErrorAllowed(c, i)
  PROVE  Lawfully(c, i)
<1>1. /\ request'[<<c, i>>] = None /\ reply'[<<c, i>>] = Factors!NoReply
      /\ request' \in [Requesters -> Matrices \cup {None}]
      /\ reply' \in [Requesters -> {Factors!NoReply, Factors!NaNReply, Factors!ErrorReply}
                                   \cup {Factors!FactorOf(m) : m \in Matrices}]
  BY DoneReleases DEF HandlerInv
<1>2. Lawful(c, i) /\ at' \in [Requesters -> {"idle", "waiting", "busy",
                                    "updated", "numbers", "library", "done", "stopped"}]
      /\ error' \in [Callers -> {"none", "numbers", "library", "argument"}]
  BY <1>1, StopIsLawful
<1>3. UNCHANGED <<nanOnFailure, pc, op, asked, out, seen>>
  BY DEF Stop
<1> QED
  BY <1>1, <1>2, <1>3 DEF Lawfully, HandlerInv, TypeOK

LEMMA ErrorLawful ==
  ASSUME HandlerInv, NEW c \in Callers, NEW i \in 1..MaxBatch,
         PassError(c, i) \/ FlatLogdetFails(c, i) \/ ConvertFails(c, i)
           \/ LibraryFails(c, i)
  PROVE  Lawfully(c, i)
<1>1. CASE PassError(c, i)
  <2>1. Stage(c, i)
    BY DEF HandlerInv, CallState
  <2>2. /\ at[<<c, i>>] \in {"numbers", "library"}
        /\ at[<<c, i>>] = "numbers" => ErrorAllowed(c, i)
        /\ pc[c] = "working" /\ i \in Elements(c)
        /\ Stop(c, i, at[<<c, i>>]) /\ Done(c, i)
    BY <1>1, <2>1 DEF PassError, Stage
  <2> QED
    BY <2>2, StoppedLawfully
<1>2. CASE FlatLogdetFails(c, i)
  <2>1. /\ reply[<<c, i>>].of \in Flat /\ op[c] \in LuLogdetOps /\ ~nanOnFailure
        /\ Stop(c, i, "numbers") /\ Done(c, i) /\ Factored(c, i)
    BY <1>2 DEF FlatLogdetFails, LogdetFinite
  <2>2. ErrorAllowed(c, i)
    <3>1. FALSE \in seen[c]
      <4>1. TypeOK /\ ~nanOnFailure /\ nanOnFailure \in seen[c]
        BY <2>1, FactorIsOwn DEF HandlerInv
      <4>2. nanOnFailure = FALSE
        BY <4>1 DEF TypeOK
      <4> QED
        BY <4>1, <4>2
    <3>2. asked[c][i] \in Flat
      BY <2>1, FactorIsOwn
    <3> QED
      BY <2>1, <3>1, <3>2 DEF ErrorAllowed, Fails
  <2> QED
    BY <2>1, <2>2, FactorIsOwn, StoppedLawfully
<1>3. CASE ConvertFails(c, i) \/ LibraryFails(c, i)
  BY <1>3, FactorIsOwn, StoppedLawfully DEF ConvertFails, LibraryFails
<1> QED
  BY <1>1, <1>2, <1>3

LEMMA NaNLawful ==
  ASSUME HandlerInv, NEW c \in Callers, NEW i \in 1..MaxBatch,
         TakeFailedToken(c, i) \/ AnswerNaN(c, i) \/ ReadFlatLogdet(c, i)
  PROVE  Lawfully(c, i)
<1>1. CallState(c) /\ Stage(c, i)
  BY DEF HandlerInv, CallState
<1>2. CASE TakeFailedToken(c, i)
  <2>1. /\ pc[c] = "working" /\ i \in Elements(c)
        /\ Answer(c, i, All(op[c], NaN)) /\ UNCHANGED <<request, reply>>
        /\ request[<<c, i>>] = None /\ reply[<<c, i>>] = Factors!NoReply
    BY <1>1, <1>2 DEF TakeFailedToken, Waiting, Stage
  <2>2. NaNAllowed(c, asked[c][i])
    BY <1>2 DEF TakeFailedToken, NaNAllowed, Fails
  <2>3. Lawful(c, i) /\ at' \in [Requesters -> {"idle", "waiting", "busy",
                                    "updated", "numbers", "library", "done", "stopped"}]
        /\ out' \in [Requesters -> [Names -> Cells]]
    BY <2>1, <2>2, AnswerIsLawful
  <2> QED
    BY <2>1, <2>3 DEF Lawfully, HandlerInv, TypeOK, Answer
<1>3. CASE AnswerNaN(c, i)
  <2>1. /\ pc[c] = "working" /\ i \in Elements(c) /\ Done(c, i)
        /\ Answer(c, i, All(op[c], NaN))
        /\ at[<<c, i>>] = "busy" /\ reply[<<c, i>>] = Factors!NaNReply
    BY <1>3 DEF AnswerNaN, Answering
  <2>2. Factors!NaNReply # Factors!NoReply /\ \A m : Factors!FactorOf(m) # Factors!NaNReply
    BY DEF Factors!NaNReply, Factors!NoReply, Factors!FactorOf
  <2>3. asked[c][i] \in Unfactorable /\ TRUE \in seen[c]
    BY <1>1, <2>1, <2>2 DEF Stage
  <2> QED
    BY <2>1, <2>3, AnsweredLawfully DEF NaNAllowed, Fails
<1>4. CASE ReadFlatLogdet(c, i)
  <2>1. /\ reply[<<c, i>>].of \in Flat /\ op[c] \in LuLogdetOps /\ nanOnFailure
        /\ Answer(c, i, All(op[c], NaN)) /\ Done(c, i) /\ Factored(c, i)
    BY <1>4 DEF ReadFlatLogdet, LogdetFinite
  <2>2. NaNAllowed(c, asked[c][i])
    BY <2>1, FactorIsOwn DEF NaNAllowed, Fails, HandlerInv, TypeOK
  <2> QED
    BY <2>1, <2>2, FactorIsOwn, AnsweredLawfully
<1> QED
  BY <1>2, <1>3, <1>4

LEMMA ReadLawful ==
  ASSUME HandlerInv, NEW c \in Callers, NEW i \in 1..MaxBatch,
         Read(c, i) \/ ReadLuLogdet(c, i) \/ SolveUpdated(c, i)
  PROVE  Lawfully(c, i)
<1>1. /\ Factored(c, i) \/ Updated(c, i)
      /\ Answer(c, i, All(op[c], Number(reply[<<c, i>>].of))) /\ Done(c, i)
      /\ op[c] \in LuLogdetOps => reply[<<c, i>>].of \notin Flat
      /\ op[c] = "updown" => reply[<<c, i>>].of \notin Spoiled
  <2>1. CASE Read(c, i)
    BY <2>1 DEF Read
  <2>2. CASE ReadLuLogdet(c, i)
    BY <2>2 DEF ReadLuLogdet, LogdetFinite, LuLogdetOps
  <2>3. CASE SolveUpdated(c, i)
    BY <2>3, FactorIsOwn DEF SolveUpdated, LuLogdetOps
  <2> QED
    BY <2>1, <2>2, <2>3
<1>2. reply[<<c, i>>].of = asked[c][i] /\ ~Fails(op[c], asked[c][i])
  BY <1>1, FactorIsOwn DEF Fails
<1> QED
  BY <1>1, <1>2, FactorIsOwn, AnsweredLawfully

LEMMA UpdateLawful ==
  ASSUME HandlerInv, NEW c \in Callers, NEW i \in 1..MaxBatch,
         Update(c, i) \/ UpdateSpoils(c, i) \/ SpoiledLogdet(c, i)
  PROVE  Lawfully(c, i)
<1> DEFINE w == <<c, i>>
<1>1. Stage(c, i) /\ TypeOK /\ w \in Requesters
  BY DEF HandlerInv, CallState, Requesters
<1>2. CASE Update(c, i)
  <2>1. /\ at' = [at EXCEPT ![w] = "updated"] /\ Factored(c, i) /\ op[c] = "updown"
        /\ UNCHANGED <<request, reply, nanOnFailure, pc, op, asked, out, error, seen>>
    BY <1>2 DEF Update
  <2>2. /\ at[w] = "busy" /\ reply[w] # Factors!NoReply /\ reply[w].kind = "factor"
        /\ pc[c] = "working" /\ i \in Elements(c)
    BY <2>1 DEF Factored, Answering
  <2>3. reply[w] = Factors!FactorOf(asked[c][i]) /\ asked[c][i] \notin Unfactorable
    <3>1. Factors!NaNReply.kind = "nan"
      BY DEF Factors!NaNReply
    <3> QED
      BY <1>1, <2>2, <3>1 DEF Stage
  <2>4. request[w] = asked[c][i] /\ out[w] = Blank
    BY <1>1, <2>2 DEF Stage
  <2>5. at'[w] = "updated"
    BY <1>1, <2>1 DEF TypeOK
  <2>6. TypeOK'
    BY <1>1, <2>1 DEF TypeOK, Cells
  <2>7. Stage(c, i)'
    BY <2>1, <2>2, <2>3, <2>4, <2>5 DEF Stage, Elements, Blank
  <2> QED
    BY <2>1, <2>2, <2>5, <2>6, <2>7 DEF Lawfully, Lawful
<1>3. CASE UpdateSpoils(c, i) \/ SpoiledLogdet(c, i)
  <2>1. /\ Factored(c, i) \/ Updated(c, i)
        /\ reply[w].of \in Spoiled /\ Done(c, i) /\ op[c] = "updown"
        /\ IF nanOnFailure THEN Answer(c, i, All(op[c], NaN)) ELSE Stop(c, i, "numbers")
    BY <1>3, FactorIsOwn DEF UpdateSpoils, SpoiledLogdet
  <2>2. /\ pc[c] = "working" /\ i \in Elements(c) /\ at[w] # "done"
        /\ nanOnFailure \in seen[c] /\ Fails(op[c], asked[c][i])
    BY <2>1, FactorIsOwn DEF Fails
  <2>3. CASE nanOnFailure
    <3>1. NaNAllowed(c, asked[c][i])
      BY <1>1, <2>2, <2>3 DEF NaNAllowed, TypeOK
    <3> QED
      BY <2>1, <2>2, <2>3, <3>1, AnsweredLawfully
  <2>4. CASE ~nanOnFailure
    <3>1. ErrorAllowed(c, i)
      BY <1>1, <2>2, <2>4 DEF ErrorAllowed, TypeOK
    <3> QED
      BY <2>1, <2>2, <2>4, <3>1, StoppedLawfully
  <2> QED
    BY <2>3, <2>4
<1> QED
  BY <1>2, <1>3

LEMMA WorkIsLawful ==
  ASSUME HandlerInv, NEW c \in Callers, NEW i \in 1..MaxBatch, Work(c, i)
  PROVE  Lawfully(c, i) /\ Apart(c, i)
<1>1. Apart(c, i)
  BY WorkIsApart DEF HandlerInv
<1>2. CASE Ask(c, i) \/ TakeToken(c, i)
  BY <1>1, <1>2, AskLawful
<1>3. CASE GetFactor(c, i) \/ FactorEmpty(c, i) \/ FactorFails(c, i)
  BY <1>1, <1>3, FactorLawful
<1>4. CASE PassError(c, i) \/ FlatLogdetFails(c, i) \/ ConvertFails(c, i)
             \/ LibraryFails(c, i)
  BY <1>1, <1>4, ErrorLawful
<1>5. CASE TakeFailedToken(c, i) \/ AnswerNaN(c, i) \/ ReadFlatLogdet(c, i)
  BY <1>1, <1>5, NaNLawful
<1>6. CASE Read(c, i) \/ ReadLuLogdet(c, i) \/ SolveUpdated(c, i)
  BY <1>1, <1>6, ReadLawful
<1>7. CASE Update(c, i) \/ UpdateSpoils(c, i) \/ SpoiledLogdet(c, i)
  BY <1>1, <1>7, UpdateLawful
<1> QED
  BY <1>2, <1>3, <1>4, <1>5, <1>6, <1>7 DEF Work

\* The stage of an element that the step does not touch.
LEMMA StageKept ==
  ASSUME NEW c, NEW i, Stage(c, i),
         at'[<<c, i>>] = at[<<c, i>>], out'[<<c, i>>] = out[<<c, i>>],
         request'[<<c, i>>] = request[<<c, i>>], reply'[<<c, i>>] = reply[<<c, i>>],
         op'[c] = op[c], asked'[c] = asked[c],
         seen[c] \subseteq seen'[c], error[c] = "none" \/ error'[c] # "none"
  PROVE  Stage(c, i)'
<1>1. Elements(c)' = Elements(c)
  BY DEF Elements
<1>2. ErrorAllowed(c, i) => ErrorAllowed(c, i)'
  BY DEF ErrorAllowed
<1>3. NaNAllowed(c, asked[c][i]) => NaNAllowed(c, asked[c][i])'
  BY DEF NaNAllowed
<1> QED
  BY <1>1, <1>2, <1>3 DEF Stage

LEMMA WorkKeepsInv ==
  ASSUME HandlerInv, NEW c \in Callers, NEW i \in 1..MaxBatch, Work(c, i)
  PROVE  HandlerInv'
<1>1. Lawfully(c, i) /\ Apart(c, i)
  BY WorkIsLawful
<1>2. /\ Stage(c, i)' /\ at'[<<c, i>>] # "idle" /\ pc[c] = "working" /\ i \in Elements(c)
      /\ \/ error'[c] = error[c]
         \/ /\ error[c] = "none" /\ error'[c] \in {"numbers", "library"}
            /\ error'[c] = "numbers" => ErrorAllowed(c, i)
  BY <1>1 DEF Lawfully, Lawful
<1>3. /\ UNCHANGED <<nanOnFailure, pc, op, asked, seen>>
      /\ \A w \in Requesters : w # <<c, i>> =>
           at'[w] = at[w] /\ out'[w] = out[w] /\ request'[w] = request[w] /\ reply'[w] = reply[w]
      /\ \A d \in Callers : d # c => error'[d] = error[d]
  BY <1>1 DEF Apart
<1>4. ASSUME NEW d \in Callers  PROVE CallState(d)'
  <2>1. CallState(d) /\ Elements(d)' = Elements(d)
    BY <1>3 DEF HandlerInv, Elements
  <2>2. ErrorAllowed(d, i)' = ErrorAllowed(d, i)
        /\ \A j \in Elements(d) : ErrorAllowed(d, j)' = ErrorAllowed(d, j)
    BY <1>3 DEF ErrorAllowed
  <2>3. error[d] = "none" \/ error'[d] # "none"
    BY <1>2, <1>3
  <2>4. ASSUME NEW j \in 1..MaxBatch
        PROVE  /\ Stage(d, j)'
               /\ at'[<<d, j>>] = "idle" <=> j \notin Elements(d)
               /\ pc[d] = "checking" => at'[<<d, j>>] \in {"idle", "waiting"}
               /\ pc[d] = "returned" =>
                    at'[<<d, j>>] \in {"idle", "waiting", "done", "stopped"}
               /\ pc[d] = "returned" /\ error'[d] = "none" =>
                    at'[<<d, j>>] \in {"idle", "done"}
    <3>1. CASE d = c /\ j = i
      BY <1>2, <3>1
    <3>2. CASE ~(d = c /\ j = i)
      <4>1. <<d, j>> \in Requesters /\ <<d, j>> # <<c, i>>
        BY <3>2 DEF Requesters
      <4>2. /\ at'[<<d, j>>] = at[<<d, j>>] /\ out'[<<d, j>>] = out[<<d, j>>]
            /\ request'[<<d, j>>] = request[<<d, j>>] /\ reply'[<<d, j>>] = reply[<<d, j>>]
        BY <1>3, <4>1
      <4>3. Stage(d, j)'
        BY <1>3, <2>1, <2>3, <4>2, StageKept DEF CallState
      <4> QED
        BY <1>2, <1>3, <2>1, <4>2, <4>3 DEF CallState
    <3> QED
      BY <3>1, <3>2
  <2>5. pc[d] \in {"idle", "checking"} => error'[d] = error[d]
    BY <1>2, <1>3
  <2>6. error'[d] = "numbers" => \E j \in Elements(d) : ErrorAllowed(d, j)
    BY <1>2, <1>3, <2>1 DEF CallState
  <2> QED
    BY <1>3, <2>1, <2>2, <2>4, <2>5, <2>6 DEF CallState
<1> QED
  BY <1>1, <1>4 DEF HandlerInv, Lawfully

-----------------------------------------------------------------------------
\* A call that the step leaves alone.
LEMMA OtherCallKept ==
  ASSUME NEW d \in Callers, CallState(d),
         pc'[d] = pc[d], op'[d] = op[d], asked'[d] = asked[d], error'[d] = error[d],
         seen'[d] = seen[d], nanOnFailure' = nanOnFailure,
         request' = request, reply' = reply,
         \A j \in 1..MaxBatch : at'[<<d, j>>] = at[<<d, j>>] /\ out'[<<d, j>>] = out[<<d, j>>]
  PROVE  CallState(d)'
<1>1. Elements(d)' = Elements(d)
  BY DEF Elements
<1>2. \A j : ErrorAllowed(d, j)' = ErrorAllowed(d, j)
  BY DEF ErrorAllowed
<1>3. \A j \in 1..MaxBatch : Stage(d, j)'
  BY StageKept DEF CallState
<1> QED
  BY <1>1, <1>2, <1>3 DEF CallState

LEMMA CallKeepsInv ==
  ASSUME HandlerInv, NEW c \in Callers, NEW o \in Ops, NEW ms \in Batches, Call(c, o, ms)
  PROVE  HandlerInv'
<1>1. /\ pc[c] = "idle" /\ CallState(c) /\ TypeOK
      /\ DOMAIN ms \subseteq 1..MaxBatch /\ \A i \in DOMAIN ms : ms[i] \in Matrices
  BY ElementsOfBatch DEF Call, HandlerInv
<1>2. /\ pc' = [pc EXCEPT ![c] = "checking"] /\ op' = [op EXCEPT ![c] = o]
      /\ asked' = [asked EXCEPT ![c] = ms] /\ seen' = [seen EXCEPT ![c] = {nanOnFailure}]
      /\ at' = [w \in Requesters |->
                   IF w[1] = c /\ w[2] \in DOMAIN ms THEN "waiting" ELSE at[w]]
      /\ UNCHANGED <<request, reply, nanOnFailure, out, error>>
  BY DEF Call
<1>3. TypeOK'
  <2>1. at' \in [Requesters -> {"idle", "waiting", "busy", "updated", "numbers",
                               "library", "done", "stopped"}]
    BY <1>1, <1>2 DEF TypeOK
  <2>2. pc' \in [Callers -> {"idle", "checking", "working", "returned"}]
        /\ op' \in [Callers -> Ops \cup {None}]
        /\ asked' \in [Callers -> Batches \cup {<<>>}]
        /\ seen' \in [Callers -> SUBSET BOOLEAN]
    BY <1>1, <1>2 DEF TypeOK
  <2> QED
    BY <1>1, <1>2, <2>1, <2>2 DEF TypeOK, Cells
<1>4. CallState(c)'
  <2>1. pc'[c] = "checking" /\ asked'[c] = ms /\ seen'[c] = {nanOnFailure} /\ error'[c] = "none"
    BY <1>1, <1>2 DEF TypeOK, CallState
  <2>2. Elements(c)' = DOMAIN ms
    BY <2>1 DEF Elements
  <2>3. ASSUME NEW i \in 1..MaxBatch
        PROVE  /\ Stage(c, i)'
               /\ at'[<<c, i>>] = "idle" <=> i \notin DOMAIN ms
               /\ at'[<<c, i>>] \in {"idle", "waiting"}
    <3>1. <<c, i>> \in Requesters /\ at[<<c, i>>] = "idle" /\ Stage(c, i)
      BY <1>1 DEF Requesters, CallState, Elements
    <3>2. /\ request[<<c, i>>] = None /\ reply[<<c, i>>] = Factors!NoReply
          /\ out[<<c, i>>] = Blank
      BY <3>1 DEF Stage
    <3>3. at'[<<c, i>>] = IF i \in DOMAIN ms THEN "waiting" ELSE "idle"
      BY <1>2, <3>1
    <3> QED
      BY <1>2, <3>2, <3>3 DEF Stage, Blank
  <2> QED
    BY <1>2, <2>1, <2>2, <2>3 DEF CallState
<1>5. ASSUME NEW d \in Callers, d # c  PROVE CallState(d)'
  <2>1. \A j \in 1..MaxBatch : at'[<<d, j>>] = at[<<d, j>>]
    BY <1>2, <1>5 DEF Requesters
  <2> QED
    BY <1>1, <1>2, <1>5, <2>1, OtherCallKept DEF TypeOK, HandlerInv
<1> QED
  BY <1>3, <1>4, <1>5 DEF HandlerInv

LEMMA PlaceKeepsInv ==
  ASSUME HandlerInv, NEW c \in Callers, Refuse(c) \/ Accept(c) \/ Return(c)
  PROVE  HandlerInv'
<1>1. CallState(c) /\ TypeOK /\ UNCHANGED <<request, reply, nanOnFailure, op, asked, at, out, seen>>
  BY DEF HandlerInv, Refuse, Accept, Return
<1>2. /\ \A d \in Callers : d # c => pc'[d] = pc[d] /\ error'[d] = error[d]
      /\ TypeOK'
  BY <1>1 DEF TypeOK, Cells, Refuse, Accept, Return
<1>3. Elements(c)' = Elements(c) /\ (\A j : ErrorAllowed(c, j)' = ErrorAllowed(c, j))
  BY <1>1 DEF Elements, ErrorAllowed
<1>4. CallState(c)'
  <2>1. CASE Refuse(c)
    <3>1. pc[c] = "checking" /\ pc'[c] = "returned" /\ error'[c] = "argument"
      BY <1>1, <2>1 DEF Refuse, TypeOK
    <3>2. \A j \in 1..MaxBatch : Stage(c, j)'
      BY <1>1, <3>1, StageKept DEF CallState
    <3> QED
      BY <1>1, <1>3, <3>1, <3>2 DEF CallState
  <2>2. CASE Accept(c)
    <3>1. pc[c] = "checking" /\ pc'[c] = "working" /\ error'[c] = error[c]
      BY <1>1, <2>2 DEF Accept, TypeOK
    <3>2. \A j \in 1..MaxBatch : Stage(c, j)'
      BY <1>1, <3>1, StageKept DEF CallState
    <3> QED
      BY <1>1, <1>3, <3>1, <3>2 DEF CallState
  <2>3. CASE Return(c)
    <3>1. pc[c] = "working" /\ pc'[c] = "returned" /\ error'[c] = error[c] /\ Finished(c)
      BY <1>1, <2>3 DEF Return, TypeOK
    <3>2. \A j \in 1..MaxBatch : Stage(c, j)'
      BY <1>1, <3>1, StageKept DEF CallState
    <3>3. ASSUME NEW j \in 1..MaxBatch
          PROVE  /\ at[<<c, j>>] \in {"idle", "waiting", "done", "stopped"}
                 /\ error[c] = "none" => at[<<c, j>>] \in {"idle", "done"}
      BY <1>1, <3>1 DEF CallState, Stage, Finished
    <3> QED
      BY <1>1, <1>3, <3>1, <3>2, <3>3 DEF CallState
  <2> QED
    BY <2>1, <2>2, <2>3
<1>5. ASSUME NEW d \in Callers, d # c  PROVE CallState(d)'
  BY <1>1, <1>2, <1>5, OtherCallKept DEF HandlerInv
<1> QED
  BY <1>2, <1>4, <1>5 DEF HandlerInv

LEMMA TakeKeepsInv ==
  ASSUME HandlerInv, NEW c \in Callers, Take(c)
  PROVE  HandlerInv'
<1>1. CallState(c) /\ TypeOK /\ pc[c] = "returned"
  BY DEF HandlerInv, Take
<1>2. /\ pc' = [pc EXCEPT ![c] = "idle"] /\ op' = [op EXCEPT ![c] = None]
      /\ asked' = [asked EXCEPT ![c] = <<>>] /\ error' = [error EXCEPT ![c] = "none"]
      /\ seen' = [seen EXCEPT ![c] = {}]
      /\ at' = [w \in Requesters |-> IF w[1] = c THEN "idle" ELSE at[w]]
      /\ out' = [w \in Requesters |-> IF w[1] = c THEN Blank ELSE out[w]]
      /\ UNCHANGED <<request, reply, nanOnFailure>>
  BY DEF Take
<1>3. Blank \in [Names -> Cells]
  BY DEF Blank, Cells
<1>4. TypeOK'
  <2>1. at' \in [Requesters -> {"idle", "waiting", "busy", "updated", "numbers",
                               "library", "done", "stopped"}]
    BY <1>1, <1>2 DEF TypeOK
  <2>2. out' \in [Requesters -> [Names -> Cells]]
    BY <1>1, <1>2, <1>3 DEF TypeOK
  <2> QED
    BY <1>1, <1>2, <2>1, <2>2 DEF TypeOK, Cells
<1>5. CallState(c)'
  <2>1. pc'[c] = "idle" /\ asked'[c] = <<>> /\ error'[c] = "none"
    BY <1>1, <1>2 DEF TypeOK
  <2>2. Elements(c)' = {}
    BY <2>1 DEF Elements
  <2>3. ASSUME NEW i \in 1..MaxBatch  PROVE Stage(c, i)' /\ at'[<<c, i>>] = "idle"
    <3>1. /\ <<c, i>> \in Requesters /\ Stage(c, i)
          /\ at[<<c, i>>] \in {"idle", "waiting", "done", "stopped"}
      BY <1>1 DEF Requesters, CallState
    <3>2. request[<<c, i>>] = None /\ reply[<<c, i>>] = Factors!NoReply
      BY <3>1 DEF Stage
    <3>3. at'[<<c, i>>] = "idle" /\ out'[<<c, i>>] = Blank
      BY <1>2, <3>1
    <3> QED
      BY <1>2, <3>2, <3>3 DEF Stage, Blank
  <2> QED
    BY <2>1, <2>2, <2>3 DEF CallState
<1>6. ASSUME NEW d \in Callers, d # c  PROVE CallState(d)'
  <2>1. \A j \in 1..MaxBatch : at'[<<d, j>>] = at[<<d, j>>] /\ out'[<<d, j>>] = out[<<d, j>>]
    BY <1>2, <1>6 DEF Requesters
  <2> QED
    BY <1>1, <1>2, <1>6, <2>1, OtherCallKept DEF TypeOK, HandlerInv
<1> QED
  BY <1>4, <1>5, <1>6 DEF HandlerInv

LEMMA SettingKeepsInv ==
  ASSUME HandlerInv, NEW v \in BOOLEAN, SetNanOnFailure(v)
  PROVE  HandlerInv'
<1>1. /\ TypeOK /\ nanOnFailure' = v
      /\ seen' = [c \in Callers |-> IF pc[c] = "idle" THEN {} ELSE seen[c] \cup {v}]
      /\ UNCHANGED <<request, reply, pc, op, asked, at, out, error>>
  BY DEF SetNanOnFailure, HandlerInv
<1>2. TypeOK'
  BY <1>1 DEF TypeOK, Cells
<1>3. ASSUME NEW c \in Callers  PROVE CallState(c)'
  <2>1. CallState(c) /\ Elements(c)' = Elements(c)
    BY <1>1 DEF HandlerInv, Elements
  <2>2. CASE pc[c] = "idle"
    <3>1. \A i \in 1..MaxBatch : at[<<c, i>>] = "idle" /\ Stage(c, i)
      BY <2>1, <2>2 DEF CallState, Elements
    <3>2. \A i \in 1..MaxBatch : Stage(c, i)'
      BY <1>1, <3>1 DEF Stage, Blank
    <3> QED
      BY <1>1, <2>1, <2>2, <3>2 DEF CallState
  <2>3. CASE pc[c] # "idle"
    <3>1. seen[c] \subseteq seen'[c] /\ nanOnFailure' \in seen'[c]
      BY <1>1, <2>3
    <3>2. \A i \in 1..MaxBatch : Stage(c, i)'
      BY <1>1, <2>1, <3>1, StageKept DEF CallState
    <3>3. \A j : ErrorAllowed(c, j) => ErrorAllowed(c, j)'
      BY <1>1, <3>1 DEF ErrorAllowed
    <3> QED
      BY <1>1, <2>1, <2>3, <3>1, <3>2, <3>3 DEF CallState
  <2> QED
    BY <2>2, <2>3
<1> QED
  BY <1>2, <1>3 DEF HandlerInv

LEMMA InitIsLawful ==
  ASSUME Init
  PROVE  HandlerInv
<1>1. Blank \in [Names -> Cells]
  BY DEF Blank, Cells
<1>2. TypeOK
  BY <1>1 DEF Init, Factors!Init, TypeOK
<1>3. ASSUME NEW c \in Callers  PROVE CallState(c)
  <2>1. Elements(c) = {} /\ pc[c] = "idle" /\ asked[c] = <<>> /\ error[c] = "none"
    BY DEF Init, Elements
  <2>2. \A i \in 1..MaxBatch :
          /\ at[<<c, i>>] = "idle" /\ out[<<c, i>>] = Blank
          /\ request[<<c, i>>] = None /\ reply[<<c, i>>] = Factors!NoReply
    BY DEF Init, Factors!Init, Requesters
  <2>3. \A i \in 1..MaxBatch : Stage(c, i)
    BY <2>2 DEF Stage
  <2> QED
    BY <2>1, <2>2, <2>3 DEF CallState
<1> QED
  BY <1>2, <1>3 DEF HandlerInv

LEMMA StutterKeepsInv ==
  ASSUME HandlerInv, UNCHANGED vars
  PROVE  HandlerInv'
<1>1. TypeOK'
  BY DEF HandlerInv, vars, callVars, TypeOK, Cells
<1>2. ASSUME NEW d \in Callers  PROVE CallState(d)'
  BY OtherCallKept DEF HandlerInv, vars, callVars
<1> QED
  BY <1>1, <1>2 DEF HandlerInv

LEMMA HandlersInvariant == Spec => []HandlerInv
<1>1. Init => HandlerInv
  BY InitIsLawful
<1>2. HandlerInv /\ [Next]_vars => HandlerInv'
  <2> SUFFICES ASSUME HandlerInv, [Next]_vars  PROVE HandlerInv'
    OBVIOUS
  <2>1. CASE \E c \in Callers, o \in Ops, ms \in Batches : Call(c, o, ms)
    BY <2>1, CallKeepsInv
  <2>2. CASE \E c \in Callers : Refuse(c) \/ Accept(c) \/ Return(c)
    BY <2>2, PlaceKeepsInv
  <2>3. CASE \E c \in Callers, i \in 1..MaxBatch : Work(c, i)
    BY <2>3, WorkKeepsInv
  <2>4. CASE \E c \in Callers : Take(c)
    BY <2>4, TakeKeepsInv
  <2>5. CASE \E v \in BOOLEAN : SetNanOnFailure(v)
    BY <2>5, SettingKeepsInv
  <2>6. CASE UNCHANGED vars
    BY <2>6, StutterKeepsInv
  <2> QED
    BY <2>1, <2>2, <2>3, <2>4, <2>5, <2>6 DEF Next, Handle
<1> QED
  BY <1>1, <1>2, PTL DEF Spec

-----------------------------------------------------------------------------
\* Every variable of the handlers keeps its type: the stages of an element, the
\* cells of an output and the replies of *_get_factor are those of the code.
THEOREM HandlersTypeCorrect == Spec => []TypeOK
<1>1. HandlerInv => TypeOK
  BY DEF HandlerInv
<1> QED
  BY <1>1, HandlersInvariant, PTL

\* A handler that succeeds has answered for each element of its batch in all its
\* outputs: with what it read off the factor of the element's own values, or
\* with NaN where the numbers fail, whichever worker met the failure.
THEOREM AnswersWhole == Spec => []AnswersAreWhole
<1>1. HandlerInv => AnswersAreWhole
  <2> SUFFICES ASSUME HandlerInv, NEW c \in Callers, Answered(c), NEW i \in Elements(c)
               PROVE  out[<<c, i>>] =
                        All(op[c], IF Fails(op[c], asked[c][i]) THEN NaN
                                   ELSE Number(asked[c][i]))
    BY DEF AnswersAreWhole
  <2>1. i \in 1..MaxBatch /\ CallState(c)
    BY ElementsInBounds DEF HandlerInv
  <2>2. at[<<c, i>>] = "done" /\ Stage(c, i)
    BY <2>1 DEF CallState, Answered
  <2> QED
    BY <2>2 DEF Stage, NaNAllowed
<1> QED
  BY <1>1, HandlersInvariant, PTL

\* No NaN without "nan" having been set while the call was under way, or a token
\* of a factorization that failed.
THEOREM NaNNeedsSetting == Spec => []NaNHasCause
<1>1. HandlerInv => NaNHasCause
  <2> SUFFICES ASSUME HandlerInv, NEW c \in Callers, NEW i \in Elements(c),
                      NEW name \in Names, out[<<c, i>>][name] = NaN
               PROVE  \/ TRUE \in seen[c]
                      \/ asked[c][i] \in Unfactorable /\ op[c] \in TokenOps
    BY DEF NaNHasCause
  <2>1. i \in 1..MaxBatch /\ CallState(c)
    BY ElementsInBounds DEF HandlerInv
  <2>2. Stage(c, i)
    BY <2>1 DEF CallState
  <2>3. NaN # Unwritten /\ \A m : Number(m) # NaN
    BY DEF NaN, Unwritten, Number
  <2>4. Blank[name] # NaN /\ \A m : All(op[c], Number(m))[name] # NaN
    BY <2>3 DEF Blank, All
  <2>5. at[<<c, i>>] = "done" /\ NaNAllowed(c, asked[c][i])
    BY <2>2, <2>4 DEF Stage
  <2> QED
    BY <2>5 DEF NaNAllowed
<1> QED
  BY <1>1, HandlersInvariant, PTL

\* No error about the numbers without "raise" having been set while the call was
\* under way, and an element whose numbers fail.
THEOREM RaisingNeedsSetting == Spec => []RaisingHasCause
<1>1. HandlerInv => RaisingHasCause
  BY DEF HandlerInv, CallState, ErrorAllowed, RaisingHasCause
<1> QED
  BY <1>1, HandlersInvariant, PTL

\* A handler leaves no reference to a factor behind, on any of its paths.
THEOREM NothingHeld == Spec => []NothingHeldAfter
<1>1. HandlerInv => NothingHeldAfter
  <2> SUFFICES ASSUME HandlerInv, NEW c \in Callers, pc[c] \in {"idle", "returned"},
                      NEW i \in 1..MaxBatch
               PROVE  reply[<<c, i>>] = Factors!NoReply
    BY DEF NothingHeldAfter
  <2>1. CallState(c)
    BY DEF HandlerInv
  <2>2. Stage(c, i) /\ at[<<c, i>>] \in {"idle", "waiting", "done", "stopped"}
    BY <2>1 DEF CallState, Elements
  <2> QED
    BY <2>2 DEF Stage
<1> QED
  BY <1>1, HandlersInvariant, PTL

-----------------------------------------------------------------------------
(* The handlers as callers of *_get_factor.                                *)

\* What the work on an element asks of the oracle: one step of its requester,
\* for a matrix there is, or none.
LEMMA WorkAsksOracle ==
  ASSUME TypeOK, NEW c \in Callers, NEW i \in 1..MaxBatch, Work(c, i)
  PROVE  Factors!Next \/ UNCHANGED <<request, reply>>
<1> DEFINE w == <<c, i>>
<1>1. w \in Requesters
  BY DEF Requesters
<1>2. CASE Ask(c, i) \/ TakeToken(c, i)
  <2>1. asked[c][i] \in Matrices
    BY <1>2, ElementsInBounds DEF Ask, TakeToken, Waiting
  <2>2. Factors!Ask(w, asked[c][i]) \/ Factors!Recall(w, asked[c][i])
    BY <1>2 DEF Ask, TakeToken
  <2> QED
    BY <1>1, <2>1, <2>2 DEF Factors!Next
<1>3. CASE GetFactor(c, i) \/ FactorEmpty(c, i) \/ FactorFails(c, i)
  <2>1. Factors!Reply(w)
    BY <1>3 DEF GetFactor, FactorEmpty, FactorFails
  <2> QED
    BY <1>1, <2>1 DEF Factors!Next
<1>4. CASE \/ PassError(c, i) \/ AnswerNaN(c, i) \/ Read(c, i) \/ ReadLuLogdet(c, i)
           \/ ReadFlatLogdet(c, i) \/ FlatLogdetFails(c, i) \/ ConvertFails(c, i)
           \/ LibraryFails(c, i) \/ UpdateSpoils(c, i) \/ SolveUpdated(c, i)
           \/ SpoiledLogdet(c, i)
  <2>1. Factors!Done(w)
    BY <1>4 DEF PassError, AnswerNaN, Read, ReadLuLogdet, ReadFlatLogdet, FlatLogdetFails,
         ConvertFails, LibraryFails, UpdateSpoils, SolveUpdated, SpoiledLogdet, Done
  <2> QED
    BY <1>1, <2>1 DEF Factors!Next
<1>5. CASE TakeFailedToken(c, i) \/ Update(c, i)
  BY <1>5 DEF TakeFailedToken, Update
<1> QED
  BY <1>2, <1>3, <1>4, <1>5 DEF Work

\* Handlers use *_get_factor and the tokens' factors as the oracle lets its
\* callers: an element asks once, for its own values, waits for the reply and
\* gives it back before it asks again.  So what holds of the handlers over the
\* oracle holds of them over the cache that implements it.
THEOREM HandlersUseOracle == Spec => Factors!Spec
<1>1. Init => Factors!Init
  BY DEF Init
<1>2. HandlerInv /\ [Next]_vars => [Factors!Next]_(Factors!oracleVars)
  <2> SUFFICES ASSUME HandlerInv, [Next]_vars
               PROVE  Factors!Next \/ UNCHANGED <<request, reply>>
    BY DEF Factors!oracleVars
  <2>1. CASE \E c \in Callers, i \in 1..MaxBatch : Work(c, i)
    BY <2>1, WorkAsksOracle DEF HandlerInv
  <2>2. CASE \E c \in Callers : \/ \E o \in Ops, ms \in Batches : Call(c, o, ms)
                               \/ Refuse(c) \/ Accept(c) \/ Return(c) \/ Take(c)
    BY <2>2 DEF Call, Refuse, Accept, Return, Take
  <2>3. CASE (\E v \in BOOLEAN : SetNanOnFailure(v)) \/ UNCHANGED vars
    BY <2>3 DEF SetNanOnFailure, vars
  <2> QED
    BY <2>1, <2>2, <2>3 DEF Next, Handle
<1> QED
  BY <1>1, <1>2, HandlersInvariant, PTL DEF Spec, Factors!Spec
=============================================================================
