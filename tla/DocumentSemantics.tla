-------------------------- MODULE DocumentSemantics --------------------------
(***************************************************************************)
(* What canonical documents and payoff graphs mean: the reference meaning  *)
(* of contracts, except that a literal is an exact decimal.                *)
(***************************************************************************)
EXTENDS CanonicalDocument, ContractSemantics

\* The rational number that a decimal literal stands for.
LiteralMeaning(unit, num) ==
  LET e == LowerExp(num, DecZero)
  IN  Rational(unit, InUnitsOf(num, e), TenTo[-e])

\* The meaning of a payload from the meanings of its children.
PayloadMeaning(p, xs, env) ==
  IF p.type = "Number" THEN LiteralMeaning(p.unit, p.num) ELSE MeaningOf(p, xs, env)

\* The values that D gives to ids, one by one.
ValuesAt(D, ids) == [i \in 1..Len(ids) |-> D[ids[i]]]

\* The meanings of the nodes of an acyclic document; env gives every
\* observable a value.
DocumentMeaning(nodes, env) ==
  LET D[id \in DOMAIN nodes] ==
        PayloadMeaning(nodes[id], ValuesAt(D, nodes[id].kids), env)
  IN  D
=============================================================================
