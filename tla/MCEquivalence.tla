--------------------------- MODULE MCEquivalence ---------------------------
(***************************************************************************)
(* Pairs of contracts, the left one rooted at object 1 and the right one   *)
(* at object 2: pairs that only the author's order, grouping or sharing    *)
(* sets apart, pairs that differ in one place, and pairs whose grouping of *)
(* literals differs.                                                       *)
(***************************************************************************)
EXTENDS StructuralEquivalence, ContractExamples

Regrouped(type) ==
  << Pay(3), Pay(4), Money(type, <<7, 5>>), Money(type, <<6, 8>>),
     Money(type, <<8, 7>>), Money(type, <<7, 7>>), UsdObs(1), UsdObs(2) >>

LawfulPairs ==
  { Regrouped("Add"), Regrouped("Maximum"),
    << Plain("Scale", <<3, 7>>), Plain("Scale", <<4, 8>>),
       Scalar("Multiply", <<5, 6>>), Scalar("Multiply", <<6, 5>>),
       Obs(1), Num(2), ZeroContract, ZeroContract >>,
    << Plain("Both", <<3, 3>>), Plain("Both", <<4, 5>>),
       Pay(6), Pay(7), Pay(6), UsdObs(1), UsdObs(1) >>,
    << Plain("ConditionalContract", <<3, 7, 7>>),
       Plain("ConditionalContract", <<4, 7, 7>>),
       Plain("AllOf", <<5, 6, 5>>), Plain("AllOf", <<6, 5, 5>>),
       Plain("Comparison", <<8, 8>>),
       [Plain("Comparison", <<8, 8>>) EXCEPT !.op = "!="], ZeroContract, Obs(1) >>,
    << Pay(3), Pay(4), Money("Add", <<5, 6>>), Money("Add", <<6, 8>>),
       Money("Add", <<6, 7>>), Usd(1), UsdObs(1), Money("Add", <<7, 6>>) >>,
    << Pay(3), Pay(4), Money("Maximum", <<5, 6>>), Money("Maximum", <<6, 7>>),
       Money("Add", <<8, 8>>), UsdObs(1), Money("Add", <<8, 8>>), Usd(1) >>,
    << Pay(3), Pay(4), Money("Add", <<5, 7>>), Money("Add", <<7, 5>>),
       Money("ConditionalValue", <<8, 6, 7>>), Money("Add", <<7, 7>>), UsdObs(1), Const(1) >> }

DifferentPairs ==
  { << Pay(3), Pay(4), UsdObs(1), UsdObs(2) >>,
    << Pay(3), Pay(4), Usd(1), Usd(2) >>,
    << Pay(3), [Pay(3) EXCEPT !.val = 2], UsdObs(1) >>,
    << Pay(3), Pay(4), Money("Subtract", <<5, 6>>), Money("Subtract", <<6, 5>>),
       UsdObs(1), UsdObs(2) >>,
    << Pay(3), Pay(4), Money("Maximum", <<5, 6>>), Money("Minimum", <<5, 6>>),
       UsdObs(1), UsdObs(2) >>,
    << Pay(3), Pay(4), Money("Add", <<5, 5>>), Money("Add", <<5, 5, 5>>), UsdObs(1) >>,
    << Pay(3), ZeroContract, [UsdObs(1) EXCEPT !.sound = FALSE] >> }

\* (1 + 2) + x and 1 + (2 + x)
LiteralPairs ==
  { << Pay(3), Pay(4), Money(type, <<5, 8>>), Money(type, <<6, 7>>),
       Money(type, <<6, 9>>), Usd(1), Money(type, <<9, 8>>), UsdObs(1), Usd(2) >> :
      type \in {"Add", "Maximum"} }

Filled(g) == [n \in Node |-> IF n <= Len(g) THEN g[n] ELSE ZeroContract]
AllPairs == {Filled(g) : g \in LawfulPairs \cup DifferentPairs}
RegroupedLiterals == {Filled(g) : g \in LiteralPairs}

MCConfigs == { [schema |-> "supported", form |-> "exact", nodes |-> 9, bytes |-> 20,
                validation |-> [form |-> "exact", depth |-> 4, nodes |-> 9]] }
MCIds == 1..127
MCRootPairs == {<<1, 2>>}

MCEnvironments == [{1, 2} -> {-1, 5}]
=============================================================================
