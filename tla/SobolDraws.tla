----------------------------- MODULE SobolDraws -----------------------------
(***************************************************************************)
(* The uniform draws of one step of a GHK path (step_uniforms in ghk.cpp): *)
(* the step's column of the Sobol sequence, scrambled digit by digit with  *)
(* a hash of the digits above, or independent draws in the steps past      *)
(* sobol_dims.                                                             *)
(*                                                                         *)
(* A binary fraction is the set of the positions of its ones, position 1   *)
(* the most significant (bit 31 of the code's word), so xor is SymDiff and *)
(* a shift adds to every position.  The hash is arbitrary: mix64 is any    *)
(* function of the prefix.  A double is an integer in units of its last    *)
(* place at 1, that is of 2^-Mantissa.                                     *)
(***************************************************************************)
EXTENDS SobolTable, FiniteSets, FiniteSetsExt, SequencesExt

CONSTANTS
  Word,       \* digits of a direction number: 32 in the code
  Digits,     \* bound: digits of a point that are drawn, Word in the code
  Nested,     \* digits that have a hash each: 16 in the code
  Low,        \* digits a draw of a point takes from its own hash: 20 in the code
  Steps,      \* steps to draw for
  Draws,      \* values of n_draws
  SobolDims,  \* values of sobol_dims
  Hashes,     \* functions from a node of the digit tree to the hash's digits
  Owns        \* functions from a draw to the first digits of its own hash

ASSUME DrawsAssumption ==
  /\ Word \in Nat /\ Digits \in 1..Word /\ Nested \in 1..Digits /\ Low \in Nat
  /\ Steps \subseteq Nat /\ Draws \subseteq Int /\ SobolDims \subseteq Int
  /\ Hashes \subseteq [1..(2^(Nested + 1) - 1) -> SUBSET (1..(Digits - Nested))]
  /\ \A f \in Owns : \A d \in Draws : \A k \in 0..(d - 1) :
       f[k] \in 0..(2^(Digits + Low) - 1)

\* What sobol_directions.h says of its rows: s is the degree of the polynomial,
\* and the s initial numbers are odd.
ASSUME TableAssumption ==
  \A d \in 1..(kDims - 1) :
    /\ kRows[d][1] \in Nat \ {0}
    /\ \A i \in 1..kRows[d][1] : kRows[d][3][i] \in Nat /\ kRows[d][3][i] % 2 = 1

VARIABLES
  pc,
  V,     \* the direction numbers of dimension `step`
  step, n_draws, sobol_dims,
  hash,  \* the step's hash, from dim_seed
  own,   \* the draws' own hashes, from their base
  r,     \* the draw the loop is at
  x,     \* the point of the Gray code
  u      \* the draws so far

input == <<step, n_draws, sobol_dims, hash, own>>
vars == <<input, pc, V, r, x, u>>

-----------------------------------------------------------------------------
(* Direction numbers.                                                      *)

Bit(v, i) == (v \div 2^i) % 2 = 1

\* m << (31 - i)
Scaled(m, i) == {k \in 1..Word : k <= i + 1 /\ Bit(m, i + 1 - k)}

\* [mutant of Recurrence] the last term is not shifted
RecurrenceUnshifted(row, i) ==
  LET s == row[1]
      back(k) == V[i - k + 1]
      taps == {k \in 1..(s - 1) : Bit(row[2], s - 1 - k)}
      tapped(digit) == Cardinality({t \in taps : digit \in back(t)})
  IN SymDiff(back(s), {k \in 1..Word : tapped(k) % 2 = 1})

\* Joe and Kuo's recurrence, for V[d][i] from those before it.
Recurrence(row, i) ==
  LET s == row[1]
      back(k) == V[i - k + 1]
      taps == {k \in 1..(s - 1) : Bit(row[2], s - 1 - k)}
      tapped(digit) == Cardinality({t \in taps : digit \in back(t)})
  IN SymDiff(SymDiff(back(s), {k + s : k \in back(s)} \cap (1..Word)),
             {k \in 1..Word : tapped(k) % 2 = 1})

\* V[d][i], where V holds those before it.
Direction(d, i) ==
  CASE d = 0 -> {i + 1}
    [] d > 0 /\ i < kRows[d][1] -> Scaled(kRows[d][3][i + 1], i)
    [] OTHER -> Recurrence(kRows[d], i)

-----------------------------------------------------------------------------
(* Scrambling.                                                             *)

\* The number that a point's first digits are.
Leading(p, count) ==
  LET upto[k \in 0..count] ==
        IF k = 0 THEN 0 ELSE 2 * upto[k - 1] + (IF k \in p THEN 1 ELSE 0)
  IN upto[count]

\* A point's node of the digit tree at a depth, with the leading 1.
Prefix(p, depth) == 2^depth + Leading(p, depth)

\* [mutant of OwenScramble] the prefix takes in the digit it scrambles
OwenScrambleLate(p) ==
  {k \in 1..Nested : (k \in p) # (1 \in hash[Prefix(p, k)])}
    \cup {k \in (Nested + 1)..Digits :
            (k \in p) # ((k - Nested) \in hash[Prefix(p, Nested)])}

OwenScramble(p) ==
  {k \in 1..Nested : (k \in p) # (1 \in hash[Prefix(p, k - 1)])}
    \cup {k \in (Nested + 1)..Digits :
            (k \in p) # ((k - Nested) \in hash[Prefix(p, Nested)])}

Value(p) == Leading(p, Digits)

Mantissa == Digits + Low + 1

\* An integer as a double: to even in the last place that fits.
Rounded(v) ==
  LET excess == Min({e \in 0..(Mantissa + 2) : v < 2^(Mantissa + e)})
      unit == 2^excess
      down == (v \div unit) * unit
      more == 2 * (v - down) > unit \/ (2 * (v - down) = unit /\ (down \div unit) % 2 = 1)
  IN IF more THEN down + unit ELSE down

\* [mutant of ToUniform] a digit more than the double has room for
ToUniformWide(h) == Rounded(4 * h + 3) \div 2

\* (h + 0.5) * 2^-52.
ToUniform(h) == Rounded(2 * h + 1)

\* h >> 44 of what h >> 12 is the first 52 digits of.
LowDigits(k) == own[k] \div 2^Digits

-----------------------------------------------------------------------------
Init ==
  /\ pc = "build"
  /\ V = <<>>
  /\ step \in Steps
  /\ n_draws = 0
  /\ sobol_dims = 0
  /\ hash = <<>>
  /\ own = <<>>
  /\ r = 0
  /\ x = {}
  /\ u = <<>>

\* The checks of ArgmaxLogprobF64Impl.
BadArguments(draws, dims) ==
  \/ draws < 1
  \/ dims < 0 \/ dims > kDims
  \/ dims > 0 /\ draws > 2^Digits  \* 2^32

Build ==
  /\ pc = "build"
  /\ IF step < kDims /\ Len(V) < Word
     THEN V' = Append(V, Direction(step, Len(V))) /\ UNCHANGED pc
     ELSE pc' = "call" /\ UNCHANGED V
  /\ UNCHANGED <<input, r, x, u>>

Begin ==
  /\ pc = "call"
  /\ n_draws' \in Draws
  /\ sobol_dims' \in SobolDims
  /\ IF BadArguments(n_draws', sobol_dims')
     THEN pc' = "refused" /\ UNCHANGED <<hash, own>>
     ELSE pc' = "draw" /\ hash' \in Hashes /\ own' \in Owns
  \* The digits beyond the bound are left out: they never reach those above.
  /\ V' = [i \in 1..Min({Len(V), Digits}) |-> V[i] \cap (1..Digits)]
  /\ UNCHANGED <<step, r, x, u>>

LowestSet(v) == Min({i \in 0..Digits : Bit(v, i)})

\* sobol_column's visit of draw r.
SobolPoint ==
  /\ pc = "draw"
  /\ r < n_draws
  /\ step < sobol_dims
  /\ x' = IF r > 0 THEN SymDiff(x, V[LowestSet(r) + 1]) ELSE x
  /\ u' = Append(u, ToUniform(Value(OwenScramble(x')) * 2^Low + LowDigits(r)))
  /\ r' = r + 1
  /\ UNCHANGED <<input, pc, V>>

\* uniform(base[r], step).
IndependentPoint ==
  /\ pc = "draw"
  /\ r < n_draws
  /\ step >= sobol_dims
  /\ u' = Append(u, ToUniform(own[r]))
  /\ r' = r + 1
  /\ UNCHANGED <<input, pc, V, x>>

Return ==
  /\ pc = "draw"
  /\ r = n_draws
  /\ pc' = "done"
  /\ UNCHANGED <<input, V, r, x, u>>

Next == Build \/ Begin \/ SobolPoint \/ IndependentPoint \/ Return

Spec == Init /\ [][Next]_vars

-----------------------------------------------------------------------------
(* Polynomials over the field of two elements are sets of exponents.       *)

Remainder(p, modulus) ==
  LET degree == Max(modulus)
      from[e \in (degree - 1)..(2 * degree)] ==  \* the exponents above e are gone
        IF e = 2 * degree THEN p
        ELSE LET q == from[e + 1]
             IN IF e + 1 \in q
                THEN SymDiff(q, {k + e + 1 - degree : k \in modulus}) ELSE q
  IN IF \A e \in p : e < degree THEN p ELSE from[degree - 1]

\* X^e, for e below 2^12, bit by bit.
Power(e, modulus) ==
  LET upto[i \in 0..12] ==
        IF i = 0 THEN {0}
        ELSE LET twice == Remainder({2 * k : k \in upto[i - 1]}, modulus)
             IN IF Bit(e, 12 - i) THEN Remainder({k + 1 : k \in twice}, modulus) ELSE twice
  IN upto[12]

\* X generates every nonzero element.
IsPrimitive(p) ==
  LET order == 2^Max(p) - 1
  IN /\ Power(order, p) = {0}
     /\ \A d \in 1..(order - 1) : order % d = 0 => Power(d, p) # {0}

Polynomial(row) ==
  {0, row[1]} \cup {k \in 1..(row[1] - 1) : Bit(row[2], k - 1)}

\* Every row of the table belongs to a primitive polynomial of its own, and
\* its 32 direction numbers each open a digit and reach no further, which
\* makes the first 2^k points of the dimension fill the 2^k intervals for
\* every k up to 32: the tests compare the first 1024.
TableIsAdmissible ==
  pc = "call" /\ step < kDims =>
    /\ \A i \in 1..Word : Max(V[i]) = i
    /\ step > 0 => /\ Len(kRows[step][3]) = kRows[step][1]
                   /\ IsPrimitive(Polynomial(kRows[step]))
                   /\ \A d \in 1..(step - 1) :
                        Polynomial(kRows[d]) # Polynomial(kRows[step])

\* The draws are as even as Sobol's points: of each aligned block of 2^m
\* draws, one falls in each interval of length 2^-m, whatever the hash.
BlocksBalanced ==
  pc = "done" /\ step < sobol_dims =>
    \A m \in 0..Digits : \A b \in 0..(n_draws \div 2^m - 1) :
      {u[b * 2^m + k] \div 2^(Mantissa - m) : k \in 1..(2^m)} = 0..(2^m - 1)

\* A draw is never exactly 0 or 1, whose quantiles are infinite.
InsideUnitInterval == \A k \in 1..Len(u) : u[k] > 0 /\ u[k] < 2^Mantissa
=============================================================================
