-------------------------- MODULE CanonicalDocument --------------------------
(***************************************************************************)
(* The documents that canonicalization and payoff compilation exchange.    *)
(* A payload is a node record in which the children are node ids, so a     *)
(* document can be read as a graph again; two payloads are equal iff their *)
(* canonical JSON is.  Only Number and Observable payloads carry a unit,   *)
(* and Payment its currency.                                               *)
(***************************************************************************)
EXTENDS ContractGraph, ExactDecimal, SequencesExt

Payload(type, kids, unit, val, num, op) ==
  [type |-> type, kids |-> kids, slots |-> "tuple", unit |-> unit,
   val |-> val, num |-> num, op |-> op, sound |-> TRUE]
NumberPayload(unit, num) == Payload("Number", << >>, unit, 0, Canonical(num), "")
BooleanPayload(holds) ==
  Payload("BooleanConstant", << >>, "none", IF holds THEN 1 ELSE 0, DecZero, "")

IsLiteral(p) == p.type = "Number"
IsConstant(p) == p.type = "BooleanConstant"

\* The number an integer literal stands for.
IntegerDec(val) == Dec(val < 0, DecAbs(val), 0)

\* The payloads that ids refer to.
PayloadsOf(ids, table) == [i \in 1..Len(ids) |-> table[ids[i]]]

AllLiterals(kids) == \A i \in 1..Len(kids) : IsLiteral(kids[i])
AllConstants(kids) == \A i \in 1..Len(kids) : IsConstant(kids[i])

\* The sum of literals, in their order.
SumOf(kids) ==
  LET sum[i \in 0..Len(kids)] ==
        IF i = 0 THEN DecZero ELSE ExactAdd(sum[i - 1], kids[i].num)
  IN  sum[Len(kids)]

\* The place of entry i in the sorted sequence; equal entries keep their order.
Rank(s, i) ==
  Cardinality({j \in 1..Len(s) : s[j] < s[i] \/ (s[j] = s[i] /\ j <= i)})

PositionOf(s, r) == CHOOSE i \in 1..Len(s) : Rank(s, i) = r

\* Sorted by id; equal ids are the same payload.
SortedIds(s) == [r \in 1..Len(s) |-> s[PositionOf(s, r)]]

\* Stands in for the bytes of a document: one per node and per reference.
BytesOf(document) ==
  UNION {{id} \X (0..Len(document.nodes[id].kids)) : id \in DOMAIN document.nodes}

\* len(document_bytes)
ByteLength(document) == Cardinality(BytesOf(document))

-----------------------------------------------------------------------------
(* What a document should look like and mean, for the properties.          *)

\* Closed under references, and nothing else than what the root reaches.
IsReach(document) ==
  LET nodes == document.nodes
      closed(S) == \A id \in S : Seq2Set(nodes[id].kids) \subseteq S
  IN  /\ document.root \in DOMAIN nodes
      /\ closed(DOMAIN nodes)
      /\ \A S \in SUBSET DOMAIN nodes :
           document.root \in S /\ closed(S) => S = DOMAIN nodes

\* References go down: among any nodes there is one that refers to none of them.
IsAcyclic(nodes) ==
  \A S \in SUBSET DOMAIN nodes :
    S # {} => \E id \in S : Seq2Set(nodes[id].kids) \cap S = {}

\* The unit of the value of p, from the units of its operands; conditions and
\* contracts have no value.
DerivedUnit(p, units) ==
  CASE p.type \in {"Number", "Observable"} -> p.unit
    [] p.type \in {"Add", "Maximum", "Minimum", "Subtract", "Divide", "Negate"} ->
         units[1]
    [] p.type = "Multiply" -> MultiplyUnit(units[1], units[2])
    [] p.type = "ConditionalValue" -> units[2]
    [] OTHER -> "none"

\* The units of the nodes that ids refer to.
UnitsAt(units, ids) == [i \in 1..Len(ids) |-> units[ids[i]]]

UnitsOf(nodes) ==
  LET unit[id \in DOMAIN nodes] ==
        DerivedUnit(nodes[id], UnitsAt(unit, nodes[id].kids))
  IN  unit

\* p has as many operands as its constructor takes, of the right classes: a
\* condition and two branches, a factor and a contract, or all of one class.
OperandsFit(p, kids) ==
  LET all(types) == \A i \in 1..Len(kids) : kids[i].type \in types
      scaled == kids[1].type \in ScalarTypes /\ kids[2].type \in ContractTypes
      branches(types) == /\ kids[1].type \in BooleanTypes
                         /\ kids[2].type \in types /\ kids[3].type \in types
  IN  /\ p.type \in DOMAIN Arity => Len(kids) = Arity[p.type]
      /\ p.type \in CollectionTypes => Len(kids) >= 2
      /\ p.type \in ScalarTypes \ {"ConditionalValue"} => all(ScalarTypes)
      /\ p.type \in {"Comparison", "Payment"} => all(ScalarTypes)
      /\ p.type \in {"AllOf", "AnyOf", "Not"} => all(BooleanTypes)
      /\ p.type = "Both" => all(ContractTypes)
      /\ p.type = "Scale" => scaled
      /\ p.type = "ConditionalValue" => branches(ScalarTypes)
      /\ p.type = "ConditionalContract" => branches(ContractTypes)

\* The units of the operands of p fit together, and p states a unit if it must.
UnitsFit(p, units) ==
  /\ p.type \in {"Number", "Observable"} => p.unit \in ValidUnits
  /\ p.type \in {"Add", "Maximum", "Minimum", "Subtract", "Comparison"} =>
       \A i \in DOMAIN units : units[i] = units[1]
  /\ p.type = "Multiply" => ~(IsMoney(units[1]) /\ IsMoney(units[2]))
  /\ p.type = "Divide" => units[2] = "scalar"
  /\ p.type = "ConditionalValue" => units[2] = units[3]
  /\ p.type = "Scale" => units[1] = "scalar"
  /\ p.type = "Payment" => IsMoney(p.unit) /\ units[1] = p.unit

\* Every payload could be the node of a contract.
IsTyped(nodes) ==
  LET units == UnitsOf(nodes)
  IN  \A id \in DOMAIN nodes :
        LET p == nodes[id]
        IN  /\ p.type \in SupportedTypes
            /\ p = Payload(p.type, p.kids, p.unit, p.val, p.num, p.op)
            /\ OperandsFit(p, PayloadsOf(p.kids, nodes))
            /\ UnitsFit(p, UnitsAt(units, p.kids))

\* A document describes a contract, and each of its nodes once.
IsWellFormed(document) ==
  LET nodes == document.nodes
  IN  /\ DOMAIN nodes \subseteq Nat /\ IsFiniteSet(DOMAIN nodes)
      /\ \A id \in DOMAIN nodes : nodes[id].kids \in Seq(DOMAIN nodes)
      /\ IsReach(document) /\ IsAcyclic(nodes) /\ IsTyped(nodes)
      /\ nodes[document.root].type \in ContractTypes
      /\ \A a, b \in DOMAIN nodes : nodes[a] = nodes[b] => a = b

\* Nothing is left to normalize at the payload p, whose references lead to kids.
Normal(p, kids) ==
  LET ordered == \A i \in 1..(Len(p.kids) - 1) : p.kids[i] <= p.kids[i + 1]
  IN  /\ p.type \in MergedTypes =>
           ordered /\ \A i \in 1..Len(kids) : kids[i].type # p.type
      /\ p.type = "Multiply" => ordered
      /\ p.type \in {"Maximum", "Minimum", "Negate", "Comparison"} =>
           ~AllLiterals(kids)
      /\ p.type \in {"AllOf", "AnyOf", "Not"} => ~AllConstants(kids)
      /\ p.type = "Add" /\ AllLiterals(kids) => ~InBounds(SumOf(kids))
      /\ p.type = "Subtract" /\ AllLiterals(kids) =>
           ~InBounds(ExactSub(kids[1].num, kids[2].num))
      /\ p.type = "Multiply" /\ AllLiterals(kids) =>
           ~InBounds(ExactMul(kids[1].num, kids[2].num))
      /\ p.type \in {"ConditionalValue", "ConditionalContract"} =>
           ~IsConstant(kids[1])
      /\ p.type = "Number" =>
           p.num \in Decimals /\ p.num = Canonical(p.num) /\ InBounds(p.num)

IsNormal(nodes) ==
  \A id \in DOMAIN nodes : Normal(nodes[id], PayloadsOf(nodes[id].kids, nodes))
=============================================================================
