-------------------------- MODULE CanonicalMeaning --------------------------
(***************************************************************************)
(* What it means that a canonical document is right: whatever the          *)
(* observables are, it pays what the contract pays.  And what a caller of  *)
(* canonicalize_contract is promised.                                      *)
(***************************************************************************)
EXTENDS Canonicalization, DocumentSemantics

CONSTANT Environments    \* each gives every observable a value

ASSUME EnvironmentsAssumption ==
  \A g \in Graphs : \A n \in Node : g[n].type = "Observable" =>
    \A env \in Environments : env[g[n].val] \in Int

\* What passes revalidation as the operator of a comparison is one.
ASSUME OperatorsAssumption ==
  \A g \in Graphs : \A n \in Node :
    g[n].type = "Comparison" /\ g[n].sound =>
      g[n].op \in {"<", "<=", "==", "!=", ">=", ">"}

\* The meaning of the contract r, by those of the objects it reaches.
ContractMeaning(g, r, env) == DenoteOn(g, env, Reach(g, r))[r]

\* Normalization preserves meaning: however the operands of a contract are
\* sorted, merged, folded into literals and collapsed by _build_payload, and
\* whatever the observables are, the document pays what the contract pays.
DocumentKeepsMeaning ==
  result.kind = "canonical" =>
    \A env \in Environments :
      DocumentMeaning(result.document.nodes, env)[result.document.root]
        = ContractMeaning(graph, root, env)

\* How large a document can be: per object, the number of objects below it
\* counted once per path (flattening may copy operand lists that often).
UnfoldedSize(g, r) ==
  LET R == Reach(g, r)
      Weight[n \in R] ==
        1 + FoldLeft(LAMBDA sum, k : sum + Weight[k], 0, g[n].kids)
  IN  MapThenSumSet(LAMBDA n : Weight[n], R)

\* An integer that str() does not write, even without its trailing zeros.
Overlong(x) == x.kind = "number" /\ x.q = 1 /\ ~Writable(IntegerDec(x.p))

\* Some sum, difference or product is worth such an integer, whatever the
\* observables are.
HasOverlongConstant(g, r) ==
  \E n \in Reach(g, r) :
    /\ g[n].type \in {"Add", "Subtract", "Multiply"}
    /\ \A env, other \in Environments :
         LET x == DenoteOn(g, env, Reach(g, r))[n]
         IN  Overlong(x) /\ x = DenoteOn(g, other, Reach(g, r))[n]

\* What a caller is promised: a document only for a contract that validates,
\* within the limits; an error only for its reason, which for a bare Python
\* error of a contract that validates is a constant that str() cannot write.
\* Canonicalization never makes more nodes than there were objects.
CanonicalPromised(in, answer) ==
  LET g == in.graph
      r == in.root
      c == in.config
      refused(kinds) == \E k \in kinds :
                          RejectionPromised(g, r, c.validation, k)
  IN  CASE answer.kind = "canonical" ->
             /\ c.schema = "supported" /\ c.form = "exact"
             /\ c.validation.form = "exact"
             /\ \A n \in Reach(g, r) : NodeAccepted(g, n)
             /\ Cardinality(DOMAIN answer.document.nodes) <= c.nodes
             /\ ByteLength(answer.document) <= c.bytes
        [] answer.kind = "CanonicalizationInputError" ->
             c.schema = "other" \/ c.form = "forged" \/ ~IsContract(g[r])
        [] answer.kind = "CanonicalizationCycleError" -> Cyclic(g, r)
        [] answer.kind = "CanonicalizationNotValidatedError" ->
             refused({Invalid, Mismatch})
        [] answer.kind = "PythonError" ->
             \/ refused({"PythonError"})
             \/ c.validation.form = "exact" /\ HasOverlongConstant(g, r)
        [] answer.kind = "CanonicalizationComplexityError" ->
             \/ refused({"ContractComplexityError"})
             \/ Cardinality(Reach(g, r)) > c.nodes
             \/ ~Cyclic(g, r) /\ UnfoldedSize(g, r) > c.bytes
        [] answer.kind = "CanonicalizationCollisionError" -> Oracle = "any"
        [] OTHER -> FALSE

Call == INSTANCE OneShotCall
          WITH Inputs <- [graph : Graphs, root : Roots, config : Configs],
               Pending <- NoResult,
               Promised <- CanonicalPromised,
               input <- [graph |-> graph, root |-> root, config |-> config],
               answer <- result

KeepsPromise == Call!Spec
=============================================================================
