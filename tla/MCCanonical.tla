---------------------------- MODULE MCCanonical ----------------------------
(***************************************************************************)
(* Canonicalization of families of contracts chosen so that every          *)
(* normalization law fires, alone and nested, inside and at the edge of    *)
(* the numeric bounds (one digit and one power of ten here), and of        *)
(* contracts that must not get through the gates.                          *)
(***************************************************************************)
EXTENDS CanonicalMeaning, ContractExamples

\* Collections and arithmetic over a nested operation and a leaf.
ScalarOuter == { Money("Add", <<3, 4>>), Money("Minimum", <<4, 3>>),
                 Money("Subtract", <<3, 4>>) }
ScalarInner == { Money("Add", <<5, 4>>), Money("Maximum", <<4, 5>>),
                 Money("Minimum", <<5, 4>>), Money("Negate", <<5>>) }
ScalarLeaves == { <<Usd(5), Usd(6)>>, <<Usd(-5), Usd(10)>>,
                  <<UsdObs(1), Usd(5)>> }
ScalarFamily ==
  { << Pay(2), outer, inner, leaves[1], leaves[2] >> :
      outer \in ScalarOuter, inner \in ScalarInner, leaves \in ScalarLeaves }

\* 50 + 5 + 50 = 105 has more digits than str() writes here; 50 + 50 has not.
OverlongFamily ==
  { << Pay(2), Money("Add", <<3, 4>>), Money(inner, <<5, 4>>), Usd(50), Usd(5) >> :
      inner \in {"Add", "Maximum"} }

\* Products, quotients and scaling; 5 * 4 = 20 folds, 10 * 10 does not.
ProductFamily ==
  { << Plain("Scale", <<2, 5>>), outer, leaves[1], leaves[2], Pay(6), Usd(1) >> :
      outer \in {Scalar("Multiply", <<3, 4>>), Scalar("Multiply", <<4, 3>>),
                 Scalar("Divide", <<3, 4>>), Scalar("Multiply", <<3, 3>>)},
      leaves \in {<<Num(5), Num(4)>>, <<Num(10), Num(10)>>,
                  <<Obs(1), Num(5)>>, <<Num(0), Num(5)>>} }

\* A denominator that is no literal, and becomes one: 5 - 5 and 5 - 4.
QuotientFamily ==
  { << Pay(2), Money("Divide", <<3, 4>>), Usd(5),
       Scalar("Subtract", <<5, 6>>), Num(5), Num(v) >> : v \in {4, 5} }

\* Constants and comparisons decide branches.
BooleanPairs ==
  { << Plain("AllOf", <<3, 4>>), Plain("AllOf", <<4, 4>>) >>,
    << Plain("AnyOf", <<4, 3>>), Plain("AnyOf", <<4, 4>>) >>,
    << Plain("AllOf", <<4, 3>>), Plain("AnyOf", <<4, 4>>) >>,
    << Plain("AnyOf", <<3, 4>>), Plain("Not", <<4>>) >>,
    << Plain("Not", <<3>>), Plain("Not", <<4>>) >> }
BooleanFamily ==
  { << Plain("ConditionalContract", <<2, 6, 7>>), pair[1], pair[2], leaf,
       UsdObs(1), Pay(5), ZeroContract >> :
      pair \in BooleanPairs,
      leaf \in {Const(0), Const(1), Plain("Comparison", <<5, 5>>)} }

ComparisonFamily ==
  { << Plain("ConditionalContract", <<2, 5, 6>>),
       [Plain("Comparison", <<3, 4>>) EXCEPT !.op = op], numbers[1], numbers[2],
       ZeroContract, Pay(3) >> :
      op \in {"<", "<=", "==", "!=", ">=", ">"},
      numbers \in {<<Usd(2), Usd(10)>>, <<Usd(10), Usd(2)>>, <<Usd(3), Usd(3)>>} }

\* A branch on a constant disappears and exposes a collection to its parent;
\* equal objects are one node; a condition is a node of its own.
CollapseFamily ==
  { << Pay(2), Money("Add", <<3, 6>>), Money("ConditionalValue", <<4, 5, 6>>),
       condition, inner, UsdObs(1) >> :
      condition \in {Const(0), Const(1), Plain("Comparison", <<6, 6>>)},
      inner \in {Money("Add", <<6, 6>>), Money("Add", <<6, 6, 6>>),
                 Money("Maximum", <<6, 6>>)} }

\* What the gates must stop.
GateFamily ==
  LET g == << Pay(2), Money("Add", <<3, 3>>), Usd(1) >>
  IN  { [g EXCEPT ![3] = Money("Negate", <<2>>)],      \* cycle
        [g EXCEPT ![3].sound = FALSE],
        [g EXCEPT ![3].type = "RogueScalar"],
        [g EXCEPT ![2].slots = "opaque"],
        [g EXCEPT ![2].slots = "list"],
        [g EXCEPT ![1] = Usd(1)] }                     \* not a contract

\* Graphs of fewer objects are filled up with unreachable ones.
Filled(g) == [n \in Node |-> IF n <= Len(g) THEN g[n] ELSE ZeroContract]

MCGraphs ==
  {Filled(g) : g \in ScalarFamily \cup OverlongFamily \cup ProductFamily
                     \cup QuotientFamily \cup BooleanFamily
                     \cup ComparisonFamily \cup CollapseFamily \cup GateFamily}

MCConfig == [schema |-> "supported", form |-> "exact", nodes |-> 6, bytes |-> 14,
             validation |-> [form |-> "exact", depth |-> 5, nodes |-> 6]]
MCConfigs == { MCConfig, [MCConfig EXCEPT !.nodes = 4, !.bytes = 7],
               [MCConfig EXCEPT !.validation.depth = 2],
               [MCConfig EXCEPT !.validation.form = "foreign"],
               [MCConfig EXCEPT !.form = "forged"],
               [MCConfig EXCEPT !.schema = "other"] }

MCIds == 1..127

MCEnvironments == [{1, 2} -> {-1, 5}]
=============================================================================
