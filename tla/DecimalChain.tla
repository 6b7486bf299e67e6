---------------------------- MODULE DecimalChain ----------------------------
(***************************************************************************)
(* Chains of exact operations on literals, as nested operator nodes make   *)
(* them: the left operand is what the inner nodes folded to, the right one *)
(* a literal.  A value is compared with its worth, an integer number of    *)
(* the smallest unit a product of two literals can have.                   *)
(***************************************************************************)
EXTENDS ExactDecimal

CONSTANT Coefficients   \* of the right operands

VARIABLES left, op, right,  \* the operator node
          exact             \* its exact value

vars == <<left, op, right, exact>>

\* The canonical literals.
Literals ==
  {DecZero} \cup {Dec(neg, c, e) : neg \in BOOLEAN, e \in ExpMin..ExpMax,
                    c \in {k \in 1..(TenTo[MaxCoeffDigits] - 1) : k % 10 # 0}}
Operands == {x \in Literals : x.coeff \in Coefficients}

Exactly(o, a, b) ==
  CASE o = "+" -> ExactAdd(a, b)
    [] o = "-" -> ExactSub(a, b)
    [] o = "*" -> ExactMul(a, b)

\* The literal the node folds to, if it does.
Folded == Canonical(exact)

Choose(a) ==
  \E o \in {"+", "-", "*"}, b \in Operands :
    /\ op' = o /\ right' = b /\ left' = a
    /\ exact' = Exactly(o, a, b)

Init ==
  /\ left \in Operands /\ right \in Operands /\ op \in {"+", "-", "*"}
  /\ exact = Exactly(op, left, right)

FoldOn == FoldOutcome(exact) = "folds" /\ Choose(Folded)
KeepNode == FoldOutcome(exact) = "declines" /\ Choose(left)

\* A ValueError ends the chain: nothing is computed from it.
Next == FoldOn \/ KeepNode

Spec == Init /\ [][Next]_vars

-----------------------------------------------------------------------------
(* Properties.                                                             *)

Worth(x) == InUnitsOf(x, 2 * ExpMin)

\* _exact_add, _exact_sub and _exact_mul never round, whatever the operands
\* were folded from.
ExactWorth ==
  Worth(exact) =
    CASE op = "+" -> Worth(left) + Worth(right)
      [] op = "-" -> Worth(left) - Worth(right)
      [] op = "*" -> InUnitsOf(left, ExpMin) * InUnitsOf(right, ExpMin)

\* _safe_number_payload folds exactly the values that a canonical literal has:
\* whether a node folds does not depend on how its value was written, nor on
\* the length of what str() refuses.  It raises instead of declining only for
\* values of at least 10^MaxStrDigits smallest units.
FoldsWhatLiteralsCanSay ==
  /\ FoldOutcome(exact) = "folds" <=> \E x \in Literals : Worth(x) = Worth(exact)
  /\ FoldOutcome(exact) = "raises" => DecAbs(Worth(exact)) >= TenTo[MaxStrDigits]

\* A value has one canonical encoding: equal values get equal payloads, and
\* so equal identities, by whichever operations they were reached.
OneEncodingPerValue ==
  /\ Worth(Folded) = Worth(exact)
  /\ InBounds(exact) => Folded \in Literals
  /\ \A x \in Operands : Worth(x) = Worth(exact) => Folded = x

\* _exact_cmp orders values, not encodings.
ComparesWorth ==
  \A x \in Operands \cup {left} :
    CompareBy("<", exact, x) <=> Worth(exact) < Worth(x)
=============================================================================
