------------------------- MODULE ContractSemantics -------------------------
(***************************************************************************)
(* A reference meaning for contract graphs, independent of every stage of  *)
(* the code: what a contract pays once its observables are known.  Nothing *)
(* in the repository evaluates a contract; the stages must agree with this *)
(* meaning, not compute it.                                                *)
(*                                                                         *)
(* A denotation is a record [kind, unit, p, q, flows]:                     *)
(*   "number" p/q (q > 0, lowest terms) of a unit; "truth" p in {0, 1};    *)
(*   "flows"  a sequence of dated payments; "undefined" a division by      *)
(*   zero; "stuck" an ill-typed operation, which has no meaning at all.    *)
(***************************************************************************)
EXTENDS ContractGraph

SemAbs(x) == IF x < 0 THEN -x ELSE x

Meaning(kind) == [kind |-> kind, unit |-> "none", p |-> 0, q |-> 1,
                  flows |-> << >>]
Stuck == Meaning("stuck")
Undefined == Meaning("undefined")

\* num/den in lowest terms: over the least denominator that will do.
Rational(unit, num, den) ==
  LET n == IF den < 0 THEN -num ELSE num
      m == SemAbs(den)
      q == CHOOSE k \in 1..m : /\ (n * k) % m = 0
                               /\ \A j \in 1..(k - 1) : (n * j) % m # 0
  IN  [Meaning("number") EXCEPT !.unit = unit, !.p = (n * q) \div m, !.q = q]

Truth(holds) == [Meaning("truth") EXCEPT !.p = IF holds THEN 1 ELSE 0]
Flows(s) == [Meaning("flows") EXCEPT !.flows = s]

IsNumber(x) == x.kind = "number" /\ x.unit \in ValidUnits
SameUnit(x, y) == x.unit = y.unit
LessThan(x, y) == x.p * y.q < y.p * x.q

Plus(x, y) == Rational(x.unit, x.p * y.q + y.p * x.q, x.q * y.q)
Times(x, y) == Rational(MultiplyUnit(x.unit, y.unit), x.p * y.p, x.q * y.q)

Compares(op, x, y) ==
  CASE op = "<"  -> LessThan(x, y)
    [] op = "<=" -> ~LessThan(y, x)
    [] op = "==" -> x = y
    [] op = "!=" -> x # y
    [] op = ">=" -> ~LessThan(x, y)
    [] op = ">"  -> LessThan(y, x)

\* The meaning of two operands of a collection.
Combine(type, x, y) ==
  CASE type = "Add" -> Plus(x, y)
    [] type = "Maximum" -> IF LessThan(x, y) THEN y ELSE x
    [] type = "Minimum" -> IF LessThan(y, x) THEN y ELSE x
    [] type = "AllOf" -> Truth(x.p = 1 /\ y.p = 1)
    [] type = "AnyOf" -> Truth(x.p = 1 \/ y.p = 1)
    [] type = "Both" -> Flows(x.flows \o y.flows)

\* The meaning of a collection, operand by operand from the left.
Reduce(type, s) ==
  LET F[i \in 1..Len(s)] == IF i = 1 THEN s[1] ELSE Combine(type, F[i - 1], s[i])
  IN  F[Len(s)]

\* Strict application: an argument without a meaning leaves none to the whole.
Apply(xs, wellTyped, meaning) ==
  IF \E i \in 1..Len(xs) : xs[i].kind = "stuck" THEN Stuck
  ELSE IF \E i \in 1..Len(xs) : xs[i].kind = "undefined" THEN Undefined
  ELSE IF wellTyped THEN meaning ELSE Stuck

AllNumbersAlike(xs) ==
  \A i \in 1..Len(xs) : IsNumber(xs[i]) /\ SameUnit(xs[i], xs[1])
AllKind(xs, kind) == \A i \in 1..Len(xs) : xs[i].kind = kind

Conditionals == {"ConditionalValue", "ConditionalContract"}

\* The meaning of a node of the given type from the meanings of its children.
MeaningOf(rec, xs, env) ==
  CASE rec.type = "Number" ->
         IF rec.sound /\ rec.unit \in ValidUnits
         THEN Rational(rec.unit, rec.val, 1) ELSE Stuck
    [] rec.type = "Observable" ->
         IF rec.sound /\ rec.unit \in ValidUnits
         THEN Rational(rec.unit, env[rec.val], 1) ELSE Stuck
    [] rec.type \in {"Add", "Maximum", "Minimum"} ->
         Apply(xs, Len(xs) >= 2 /\ AllNumbersAlike(xs), Reduce(rec.type, xs))
    [] rec.type = "Subtract" ->
         Apply(xs, AllNumbersAlike(xs),
               Plus(xs[1], Rational(xs[2].unit, -xs[2].p, xs[2].q)))
    [] rec.type = "Multiply" ->
         Apply(xs, /\ IsNumber(xs[1]) /\ IsNumber(xs[2])
                   /\ "scalar" \in {xs[1].unit, xs[2].unit},
               Times(xs[1], xs[2]))
    [] rec.type = "Divide" ->
         Apply(xs, IsNumber(xs[1]) /\ IsNumber(xs[2]) /\ xs[2].unit = "scalar",
               IF xs[2].p = 0 THEN Undefined
               ELSE Rational(xs[1].unit, xs[1].p * xs[2].q, xs[1].q * xs[2].p))
    [] rec.type = "Negate" ->
         Apply(xs, IsNumber(xs[1]), Rational(xs[1].unit, -xs[1].p, xs[1].q))
    [] rec.type = "BooleanConstant" ->
         IF rec.sound THEN Truth(rec.val = 1) ELSE Stuck
    [] rec.type = "Comparison" ->
         Apply(xs, rec.sound /\ AllNumbersAlike(xs),
               Truth(Compares(rec.op, xs[1], xs[2])))
    [] rec.type \in {"AllOf", "AnyOf"} ->
         Apply(xs, Len(xs) >= 2 /\ AllKind(xs, "truth"), Reduce(rec.type, xs))
    [] rec.type = "Not" -> Apply(xs, xs[1].kind = "truth", Truth(xs[1].p = 0))
    [] rec.type = "Zero" -> Flows(<< >>)
    [] rec.type = "Payment" ->
         Apply(xs, rec.sound /\ IsNumber(xs[1]) /\ IsMoney(xs[1].unit)
                             /\ xs[1].unit = rec.unit,
               Flows(<< [at |-> rec.val, amount |-> xs[1]] >>))
    [] rec.type = "Both" ->
         Apply(xs, Len(xs) >= 2 /\ AllKind(xs, "flows"), Reduce("Both", xs))
    [] rec.type = "Scale" ->
         Apply(xs, IsNumber(xs[1]) /\ xs[1].unit = "scalar" /\ xs[2].kind = "flows",
               Flows([i \in 1..Len(xs[2].flows) |->
                        [xs[2].flows[i] EXCEPT !.amount = Times(xs[1], @)]]))
    [] rec.type \in Conditionals ->      \* the other branch is not looked at
         CASE xs[1].kind = "truth" -> xs[IF xs[1].p = 1 THEN 2 ELSE 3]
           [] xs[1].kind = "undefined" -> Undefined
           [] OTHER -> Stuck
    [] OTHER -> Stuck

\* The meaning of n if D gives the meanings of its children.
Evaluate(g, env, D, n) ==
  MeaningOf(g[n], [i \in 1..Len(g[n].kids) |-> D[g[n].kids[i]]], env)

\* env gives every observable a value; an acyclic g gives every node a meaning,
\* and a part R of it that contains the children of its nodes gives them theirs.
DenoteOn(g, env, R) ==
  LET D[n \in R] == Evaluate(g, env, D, n) IN D

Denote(g, env) == DenoteOn(g, env, DOMAIN g)

\* A node that has a meaning and, if it is a number, stores its unit.
MeaningfulAt(g, env, R, n) ==
  LET x == DenoteOn(g, env, R)[n]
  IN  /\ x.kind # "stuck"
      /\ x.kind = "number" => g[n].unit = x.unit
=============================================================================
