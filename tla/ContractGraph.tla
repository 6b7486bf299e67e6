--------------------------- MODULE ContractGraph ---------------------------
(***************************************************************************)
(* The object graph that derivatrace.contracts works on: AST nodes held by *)
(* reference, every one of which may have been forged after construction   *)
(* (object.__setattr__ on a frozen dataclass).  This module holds the data *)
(* and the local rules; ContractValidation walks the graph.                *)
(*                                                                         *)
(* A graph g maps every object identity to a record:                       *)
(*   type   the exact class; the Rogue types are subclasses of a node base *)
(*          class outside the supported list, Alien is any other object    *)
(*   kids   the child references in the order _iter_children yields them   *)
(*   slots  "tuple"  the child fields are as the constructor stores them   *)
(*          "list"   an operand collection that is iterable but no tuple   *)
(*          "opaque" a child field that is missing or cannot be iterated   *)
(*   unit   "scalar", a currency code for a money unit, "forged" for any   *)
(*          stored unit its revalidation rejects; a Payment's unit is its  *)
(*          currency field; "none" where the class has no unit             *)
(*   val    the payload value: number, observable, settlement time, or     *)
(*          0/1 of a BooleanConstant                                       *)
(*   op     the ComparisonOperator of a Comparison                         *)
(*   sound  do the stored value objects other than the unit satisfy the    *)
(*          invariants their constructors established?                     *)
(***************************************************************************)
EXTENDS Integers, Sequences, FiniteSets

CONSTANTS Node,         \* object identities, id(node)
          Currencies    \* currency codes

ASSUME NodeAssumption == IsFiniteSet(Node)
ASSUME CurrenciesAssumption == "none" \notin Currencies /\ "forged" \notin Currencies

ScalarTypes == {"Number", "Observable", "Add", "Subtract", "Multiply",
                "Divide", "Negate", "Maximum", "Minimum", "ConditionalValue"}
BooleanTypes == {"BooleanConstant", "Comparison", "AllOf", "AnyOf", "Not"}
ContractTypes == {"Zero", "Payment", "Both", "Scale", "ConditionalContract"}
SupportedTypes == ScalarTypes \cup BooleanTypes \cup ContractTypes

CollectionTypes == {"Add", "Maximum", "Minimum", "AllOf", "AnyOf", "Both"}
MergedTypes == CollectionTypes \ {"Both"}   \* commutative and associative

\* How many children the classes with fixed fields have.
Arity == [Number |-> 0, Observable |-> 0, BooleanConstant |-> 0, Zero |-> 0,
          Negate |-> 1, Not |-> 1, Payment |-> 1,
          Subtract |-> 2, Multiply |-> 2, Divide |-> 2, Comparison |-> 2,
          Scale |-> 2, ConditionalValue |-> 3, ConditionalContract |-> 3]

\* isinstance(node, ScalarExpression) and so on: subclasses count
IsScalar(rec) == rec.type \in ScalarTypes \cup {"RogueScalar"}
IsBoolean(rec) == rec.type \in BooleanTypes \cup {"RogueBoolean"}
IsContract(rec) == rec.type \in ContractTypes \cup {"RogueContract"}

\* type(node) in _SUPPORTED_NODE_TYPES: the exact class
IsSupported(rec) == rec.type \in SupportedTypes

\* does _iter_children return rather than raise TypeError/AttributeError?
IsIterable(rec) == rec.slots # "opaque"

Seq2Set(s) == {s[i] : i \in 1..Len(s)}

\* The edges a walk can follow: those of nodes that are expanded at all.
ChildSet(g, n) ==
  IF IsSupported(g[n]) /\ IsIterable(g[n]) THEN Seq2Set(g[n].kids) ELSE {}

-----------------------------------------------------------------------------
(* Unit rules.                                                             *)

ValidUnits == {"scalar"} \cup Currencies
IsMoney(unit) == unit \in Currencies

\* money x money has no unit
MultiplyUnit(a, b) ==
  CASE IsMoney(a) /\ IsMoney(b) -> "none"
    [] IsMoney(a) /\ ~IsMoney(b) -> a
    [] ~IsMoney(a) -> IF IsMoney(b) THEN b ELSE "scalar"

-----------------------------------------------------------------------------
(* Local validation: the ordered checks of _validate_scalar_node,          *)
(* _validate_boolean_node and _validate_contract_node.  A check is a pair  *)
(* <<holds, error>>; the first one that fails is raised.                   *)

Pass == "pass"
Invalid == "ContractValidationError"
Mismatch == "ContractTypeMismatchError"
InvalidNoPath == "ContractValidationError without path"

FirstFailure(checks) ==
  LET failing == {i \in 1..Len(checks) : ~checks[i][1]}
  IN  IF failing = {} THEN Pass
      ELSE checks[CHOOSE i \in failing : \A j \in failing : i <= j][2]

\* Mutant: the stored unit is not compared with the operands' unit.
ScalarCollectionChecksDerivingNothing(g, rec) ==
  << <<rec.slots = "tuple", Mismatch>>,
     <<Len(rec.kids) >= 2, Invalid>>,
     <<\A k \in Seq2Set(rec.kids) : IsScalar(g[k]), Mismatch>>,
     <<\A j, k \in Seq2Set(rec.kids) : g[j].unit = g[k].unit, Invalid>> >>

\* _expect_scalar_collection and _expect_boolean_collection
ScalarCollectionChecks(g, rec) ==
  << <<rec.slots = "tuple", Mismatch>>,
     <<Len(rec.kids) >= 2, Invalid>> >>
  \o [j \in 1..2 * Len(rec.kids) |->      \* the loop: class, then unit
        LET kid == g[rec.kids[(j + 1) \div 2]]
        IN  IF j % 2 = 1 THEN <<IsScalar(kid), Mismatch>>
                         ELSE <<kid.unit = g[rec.kids[1]].unit, Invalid>>]
  \o << <<\A k \in Seq2Set(rec.kids) : g[k].unit = rec.unit, Invalid>> >>

BooleanCollectionChecks(g, rec) ==
  << <<rec.slots = "tuple", Mismatch>>,
     <<Len(rec.kids) >= 2, Invalid>>,
     <<\A k \in Seq2Set(rec.kids) : IsBoolean(g[k]), Mismatch>> >>

\* Mutant: a Both of one contract passes.
BothChecksOneEnough(g, rec) ==
  << <<rec.slots = "tuple", Mismatch>>,
     <<Len(rec.kids) >= 1, Invalid>>,
     <<\A k \in Seq2Set(rec.kids) : IsContract(g[k]), Mismatch>> >>

BothChecks(g, rec) ==
  << <<rec.slots = "tuple", Mismatch>>,
     <<Len(rec.kids) >= 2, Invalid>>,
     <<\A k \in Seq2Set(rec.kids) : IsContract(g[k]), Mismatch>> >>

ScalarChecks(g, rec) ==
  LET kid(i) == g[rec.kids[i]] IN
  CASE rec.type \in {"Number", "Observable"} -> << <<rec.sound, Invalid>> >>
    [] rec.type \in {"Add", "Maximum", "Minimum"} ->
         ScalarCollectionChecks(g, rec)
    [] rec.type = "Subtract" ->
         << <<IsScalar(kid(1)) /\ IsScalar(kid(2)), Invalid>>,
            <<kid(1).unit = kid(2).unit, Invalid>>,
            <<kid(1).unit = rec.unit, Invalid>> >>
    [] rec.type = "Multiply" ->
         << <<IsScalar(kid(1)) /\ IsScalar(kid(2)), Invalid>>,
            <<~(IsMoney(kid(1).unit) /\ IsMoney(kid(2).unit)), InvalidNoPath>>,
            <<MultiplyUnit(kid(1).unit, kid(2).unit) = rec.unit, Invalid>> >>
    [] rec.type = "Divide" ->
         << <<IsScalar(kid(1)) /\ IsScalar(kid(2)), Invalid>>,
            <<kid(2).unit = "scalar", Invalid>>,
            <<~(kid(2).type = "Number" /\ kid(2).val = 0), Invalid>>,
            <<kid(1).unit = rec.unit, Invalid>> >>
    [] rec.type = "Negate" ->
         << <<IsScalar(kid(1)), Invalid>>, <<kid(1).unit = rec.unit, Invalid>> >>
    [] rec.type = "ConditionalValue" ->
         << <<IsBoolean(kid(1)), Invalid>>,
            <<IsScalar(kid(2)) /\ IsScalar(kid(3)), Invalid>>,
            <<kid(2).unit = kid(3).unit, Invalid>>,
            <<kid(2).unit = rec.unit, Invalid>> >>

BooleanChecks(g, rec) ==
  LET kid(i) == g[rec.kids[i]] IN
  CASE rec.type = "BooleanConstant" -> << <<rec.sound, Invalid>> >>
    [] rec.type = "Comparison" ->
         << <<IsScalar(kid(1)) /\ IsScalar(kid(2)), Invalid>>,
            <<rec.sound, Invalid>>,
            <<kid(1).unit = kid(2).unit, Invalid>> >>
    [] rec.type \in {"AllOf", "AnyOf"} -> BooleanCollectionChecks(g, rec)
    [] rec.type = "Not" -> << <<IsBoolean(kid(1)), Invalid>> >>

ContractChecks(g, rec) ==
  LET kid(i) == g[rec.kids[i]] IN
  CASE rec.type = "Zero" -> << >>
    [] rec.type = "Payment" ->
         << <<IsScalar(kid(1)), Invalid>>,
            <<kid(1).unit \in ValidUnits, Invalid>>,
            <<rec.unit \in Currencies /\ rec.sound, Invalid>>,
            <<IsMoney(kid(1).unit), Invalid>>,
            <<kid(1).unit = rec.unit, Invalid>> >>
    [] rec.type = "Both" -> BothChecks(g, rec)
    [] rec.type = "Scale" ->
         << <<IsScalar(kid(1)), Invalid>>,
            <<IsContract(kid(2)), Invalid>>,
            <<kid(1).unit = "scalar", Invalid>> >>
    [] rec.type = "ConditionalContract" ->
         << <<IsBoolean(kid(1)), Invalid>>,
            <<IsContract(kid(2)) /\ IsContract(kid(3)), Invalid>> >>

\* _validate_node_invariants on a node of a supported type
NodeError(g, n) ==
  LET rec == g[n]
      unitCheck == << <<rec.unit \in ValidUnits, Invalid>> >>
  IN  CASE rec.type \in ScalarTypes ->
             FirstFailure(unitCheck \o ScalarChecks(g, rec))
        [] rec.type \in BooleanTypes -> FirstFailure(BooleanChecks(g, rec))
        [] rec.type \in ContractTypes -> FirstFailure(ContractChecks(g, rec))
=============================================================================
