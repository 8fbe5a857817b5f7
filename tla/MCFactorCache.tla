--------------------------- MODULE MCFactorCache ---------------------------
(***************************************************************************)
(* Instances of FactorCache for TLC.  v1 and v2 collide; v3 cannot be      *)
(* factored and, where the backend looks, is not finite.                   *)
(***************************************************************************)
EXTENDS FactorCache, TLC

CONSTANTS t1, t2, v1, v2, v3, h1, h2, s1, s2, s3

TwoThreads == {t1, t2}
AllValues == {v1, v2, v3}
GoodValues == {v1, v2}
MixedValues == {v2, v3}
AllHashes == {h1, h2}
Colliding == (v1 :> h1) @@ (v2 :> h1) @@ (v3 :> h2)
MixedCollide == (v2 :> h1) @@ (v3 :> h1)
Distinct == (v1 :> h1) @@ (v2 :> h2)
Bad == {v3}
NoValues == {}
ThreeStores == {s1, s2, s3}
OneCap == {1}
EitherCap == {1, 2}

\* What freed storage still holds is never read again: states that differ only
\* there are one.
LiveState ==
  <<cache, next, inFlight, registered, settings, tokens, lost, threadVars,
    [s \in Storage |-> IF s \in Reachable THEN content[s] ELSE None]>>

Interchangeable == Permutations(Threads) \cup Permutations(Storage)
=============================================================================
