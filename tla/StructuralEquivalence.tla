----------------------- MODULE StructuralEquivalence -----------------------
(***************************************************************************)
(* structurally_equivalent: canonicalize the left contract, then the right *)
(* one under the same schema and limits, and compare the identities.  The  *)
(* two contracts may share objects; the calls share nothing but SHA-256.   *)
(***************************************************************************)
EXTENDS CanonicalMeaning

CONSTANT RootPairs   \* the pairs of contracts a caller may compare

ASSUME RootPairsAssumption == RootPairs \subseteq Roots \X Roots

VARIABLES left, right, \* the arguments
          leftResult,  \* left_result
          answer       \* "none", TRUE as "equivalent", FALSE as "different",
                       \* or the exception that propagates

eqVars == <<left, right, leftResult, answer>>
allVars == <<vars, eqVars>>

EqInit ==
  /\ Init
  /\ \E pair \in RootPairs : left = pair[1] /\ right = pair[2]
  /\ root = left
  /\ leftResult = NoResult
  /\ answer = "none"

CanonicalizeStep == Next /\ UNCHANGED eqVars

Returned(kinds) ==
  /\ answer = "none"
  /\ pc = "done"
  /\ result.kind \in kinds

CanonicalizeRight ==
  /\ Returned({"canonical"})
  /\ leftResult = NoResult
  /\ leftResult' = result
  /\ Restart(right)
  /\ UNCHANGED <<left, right, answer>>

Propagate ==
  /\ Returned(CanonicalizationErrors)
  /\ answer' = result.kind
  /\ UNCHANGED <<vars, left, right, leftResult>>

\* Mutant: the root node ids are compared, not the contract identities.
CompareRoots ==
  /\ Returned({"canonical"})
  /\ leftResult # NoResult
  /\ answer' = IF leftResult.document.root = result.document.root
               THEN "equivalent" ELSE "different"
  /\ UNCHANGED <<vars, left, right, leftResult>>

Compare ==
  /\ Returned({"canonical"})
  /\ leftResult # NoResult
  /\ answer' = IF leftResult.identity = result.identity
               THEN "equivalent" ELSE "different"
  /\ UNCHANGED <<vars, left, right, leftResult>>

EqNext ==
  \/ CanonicalizeStep
  \/ CanonicalizeRight
  \/ Propagate
  \/ Compare

EqSpec == EqInit /\ [][EqNext]_allVars

-----------------------------------------------------------------------------
(* Properties.                                                             *)

\* Commutativity and associativity as laws of the object graph, without any
\* hashing: two objects are equal up to the order and the grouping of the
\* operands of the five collections and the order of the factors of a product.

\* The operands of n, if opened gives those of its children: a collection shows
\* the operands of the collections of its own class that are nested in it.
OperandsOf(g, n, opened) ==
  LET kids == g[n].kids
      operands(k) == IF g[k].type = g[n].type THEN opened[k] ELSE << k >>
  IN  IF g[n].type \in MergedTypes
      THEN FlattenSeq([i \in 1..Len(kids) |-> operands(kids[i])])
      ELSE kids

OpenedUp(g, R) ==
  LET Opened[n \in R] == OperandsOf(g, n, Opened) IN Opened

\* The orders of k operands among which the class does not distinguish.
Orders(type, k) ==
  IF type \in MergedTypes \cup {"Multiply"}
  THEN Bijection(1..k, 1..k) ELSE {[i \in 1..k |-> i]}

\* l and r say the same of their operands as and bs, if same tells which
\* operands are equal.
Matches(g, same, l, r, as, bs) ==
  LET a == g[l]
      b == g[r]
  IN  /\ <<a.type, a.unit, a.val, a.op>> = <<b.type, b.unit, b.val, b.op>>
      /\ Len(as) = Len(bs)
      /\ \E order \in Orders(a.type, Len(as)) :
           \A i \in 1..Len(as) : same[<<as[order[i]], bs[i]>>]

\* The equal pairs of an object of L and an object of R.
EqualPairs(g, L, R) ==
  LET Left == OpenedUp(g, L)
      Right == OpenedUp(g, R)
      Same[p \in L \X R] == Matches(g, Same, p[1], p[2], Left[p[1]], Right[p[2]])
  IN  Same

LawEqual(g, l, r) == EqualPairs(g, Reach(g, l), Reach(g, r))[<<l, r>>]

\* n may become a literal if the objects in S may: it is one, is computed from
\* such objects, or has a branch to collapse to.
MayFold(g, S, n) ==
  LET kids == g[n].kids
  IN  \/ g[n].type \in {"Number", "BooleanConstant"}
      \/ /\ g[n].type \in {"Add", "Subtract", "Multiply", "Negate", "Maximum",
                           "Minimum", "Comparison", "AllOf", "AnyOf", "Not"}
         /\ Seq2Set(kids) \subseteq S
      \/ /\ g[n].type \in Conditionals
         /\ kids[1] \in S /\ (kids[2] \in S \/ kids[3] \in S)

\* The objects of R that may become literals.
Foldable(g, R) ==
  {n \in R : \A S \in SUBSET R : (\A m \in R : MayFold(g, S, m) => m \in S) => n \in S}

\* A collection that may fold before the one around it can merge it.
GroupsLiterals(g, r) ==
  \E n \in Reach(g, r) : \E k \in Seq2Set(g[n].kids) :
    /\ g[n].type \in MergedTypes /\ g[k].type = g[n].type
    /\ k \in Foldable(g, Reach(g, r))

\* canonicalization-spec.md:271-282: nested collections are merged and their
\* operands sorted, which "yields a single canonical order regardless of
\* author order": contracts equal up to these laws are equivalent.
AuthorOrderIrrelevant ==
  answer = "different" => ~LawEqual(graph, left, right)

\* ... which holds of the code when no nested collection may fold.
SymbolicOrderIrrelevant ==
  (answer = "different" /\ ~GroupsLiterals(graph, left) /\ ~GroupsLiterals(graph, right))
     => ~LawEqual(graph, left, right)

\* Equivalent contracts pay the same, whatever the observables are, even
\* when node digests collide; only a collision of contract digests can make
\* different documents equivalent.
EquivalenceSound ==
  answer = "equivalent" =>
    \/ leftResult.document # result.document
       /\ contractDigests[leftResult.document] = contractDigests[result.document]
    \/ \A env \in Environments :
         ContractMeaning(graph, left, env) = ContractMeaning(graph, right, env)
=============================================================================
