---------------------------- MODULE ExactDecimal ----------------------------
(***************************************************************************)
(* The exact decimal arithmetic of canonicalization: a number is a sign,   *)
(* an integer coefficient and a power of ten, and nothing ever rounds.  A  *)
(* result is folded into a literal only when, with the trailing zeros      *)
(* stripped, it is within the coefficient and exponent bounds; otherwise   *)
(* the operator node stays, unless the coefficient is so long that str(),  *)
(* by which its digits are counted, raises a ValueError.                   *)
(***************************************************************************)
EXTENDS Integers

CONSTANTS MaxCoeffDigits,   \* MAX_COEFF_DIGITS, 50 in the code
          ExpMin, ExpMax,   \* EXP_MIN and EXP_MAX, a signed 32-bit exponent
          MaxStrDigits      \* the digits str() writes of an int, 4300 in CPython

ASSUME DecimalAssumption ==
  /\ MaxCoeffDigits \in Nat \ {0}
  /\ ExpMin \in Int /\ ExpMax \in Int /\ ExpMin <= 0 /\ ExpMax >= 0
  /\ MaxStrDigits \in Nat /\ MaxStrDigits >= MaxCoeffDigits

Decimals == [neg : BOOLEAN, coeff : Nat, exp : Int]

Dec(neg, coeff, exp) == [neg |-> neg, coeff |-> coeff, exp |-> exp]
DecZero == Dec(FALSE, 0, 0)

DecAbs(x) == IF x < 0 THEN -x ELSE x

\* The powers of ten.
TenTo[n \in Nat] == IF n = 0 THEN 1 ELSE 10 * TenTo[n - 1]

\* The integer a is worth in units of 10^e, for e <= a.exp.
InUnitsOf(a, e) == (IF a.neg THEN -a.coeff ELSE a.coeff) * TenTo[a.exp - e]

LowerExp(a, b) == IF a.exp < b.exp THEN a.exp ELSE b.exp

ExactNeg(a) == IF a.coeff = 0 THEN DecZero ELSE [a EXCEPT !.neg = ~@]

\* Mutant: coefficients are added without aligning the exponents.
AddUnaligned(a, b) ==
  LET s == InUnitsOf(a, a.exp) + InUnitsOf(b, b.exp)
  IN  IF s = 0 THEN DecZero ELSE Dec(s < 0, DecAbs(s), LowerExp(a, b))

ExactAdd(a, b) ==
  LET e == LowerExp(a, b)
      s == InUnitsOf(a, e) + InUnitsOf(b, e)
  IN  CASE a.coeff = 0 -> b
        [] a.coeff # 0 /\ b.coeff = 0 -> a
        [] OTHER -> IF s = 0 THEN DecZero ELSE Dec(s < 0, DecAbs(s), e)

ExactSub(a, b) == ExactAdd(a, ExactNeg(b))

ExactMul(a, b) ==
  IF a.coeff = 0 \/ b.coeff = 0 THEN DecZero
  ELSE Dec(a.neg # b.neg, a.coeff * b.coeff, a.exp + b.exp)

\* Mutant: the lengths of the coefficients decide, whatever the exponents.
CmpUnaligned(a, b) ==
  LET x == InUnitsOf(a, a.exp)
      y == InUnitsOf(b, b.exp)
  IN  IF x < y THEN -1 ELSE IF x > y THEN 1 ELSE 0

ExactCmp(a, b) ==
  LET x == InUnitsOf(a, LowerExp(a, b))
      y == InUnitsOf(b, LowerExp(a, b))
  IN  IF x < y THEN -1 ELSE IF x > y THEN 1 ELSE 0

CompareBy(op, a, b) ==
  LET c == ExactCmp(a, b)
  IN  CASE op = "<"  -> c < 0
        [] op = "<=" -> c <= 0
        [] op = "==" -> c = 0
        [] op = "!=" -> c # 0
        [] op = ">=" -> c >= 0
        [] op = ">"  -> c > 0

TrailingZeros(c) ==
  CHOOSE k \in 0..c : c % TenTo[k] = 0 /\ c % TenTo[k + 1] # 0

\* Mutant: zero keeps its sign and exponent, zeros are not stripped.
CanonicalAsIs(a) == a

\* The canonical form: no trailing zeros, one zero.
Canonical(a) ==
  IF a.coeff = 0 THEN DecZero
  ELSE LET k == TrailingZeros(a.coeff)
       IN  Dec(a.neg, a.coeff \div TenTo[k], a.exp + k)

\* Mutant: the digits are counted before the trailing zeros are stripped.
InBoundsUnstripped(a) ==
  /\ a.coeff < TenTo[MaxCoeffDigits]
  /\ Canonical(a).exp \in ExpMin..ExpMax

\* A number that can be written as a canonical literal.
InBounds(a) ==
  /\ Canonical(a).coeff < TenTo[MaxCoeffDigits]
  /\ Canonical(a).exp \in ExpMin..ExpMax

\* The stripped coefficient has no more digits than str() writes.
Writable(a) == Canonical(a).coeff < TenTo[MaxStrDigits]

\* What _safe_number_payload does with the exact result a: the digits are
\* written out before they are counted.
FoldOutcome(a) ==
  CASE ~Writable(a) -> "raises"
    [] Writable(a) /\ InBounds(a) -> "folds"
    [] OTHER -> "declines"
=============================================================================
