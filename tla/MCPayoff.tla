------------------------------ MODULE MCPayoff ------------------------------
(***************************************************************************)
(* Payoff compilation of canonical documents that use every node type,     *)
(* share nodes, and have commutative operands to reorder.  A contract is   *)
(* written as a graph rooted at object 1; its document is spelled with the *)
(* canonical ids in author order or reversed, which turns around the       *)
(* operands that canonicalization sorts.                                   *)
(***************************************************************************)
EXTENDS PayoffMeaning, ContractExamples

Contracts ==
  << << Pay(2), Money("Add", <<3, 4>>), UsdObs(1), Usd(1) >>,
     << Pay(2), Money("Add", <<3, 4, 4>>), UsdObs(1), UsdObs(2) >>,
     << Pay(2), Money("Maximum", <<3, 4>>), UsdObs(1), UsdObs(2) >>,
     << Pay(2), Money("Minimum", <<3, 4>>), UsdObs(1), Money("Negate", <<3>>) >>,
     << Pay(2), Money("Subtract", <<3, 4>>), UsdObs(1), UsdObs(2) >>,
     << Pay(2), Money("Multiply", <<3, 4>>), UsdObs(1), Obs(2) >>,
     << Pay(2), Money("Divide", <<3, 4>>), UsdObs(1), Obs(2) >>,
     << Plain("Scale", <<2, 3>>), Obs(1), Pay(4), UsdObs(2) >>,
     << Plain("Both", <<2, 3, 2>>), ZeroContract, Pay(4), UsdObs(1) >>,
     << Plain("Both", <<3, 2>>), ZeroContract, Pay(4), UsdObs(1) >>,
     << Plain("ConditionalContract", <<2, 4, 5>>), Plain("Comparison", <<3, 3>>),
        UsdObs(1), Pay(3), ZeroContract >>,
     << Pay(2), Money("ConditionalValue", <<3, 4, 5>>),
        Plain("Comparison", <<4, 5>>), UsdObs(1), UsdObs(2) >>,
     << Plain("ConditionalContract", <<2, 5, 5>>), Plain("AllOf", <<3, 4>>),
        Plain("Comparison", <<6, 6>>), Plain("Not", <<3>>), ZeroContract, Obs(1) >>,
     << Plain("ConditionalContract", <<2, 5, 5>>), Plain("AnyOf", <<4, 3>>),
        Plain("Comparison", <<6, 6>>), Const(1), ZeroContract, Obs(1) >> >>

\* Object n of a graph has the canonical id n, or the ids are reversed.
Spelled(g, reversed) ==
  LET idAt(n) == IF reversed THEN Len(g) + 1 - n ELSE n
      kids(n) == [i \in 1..Len(g[n].kids) |-> idAt(g[n].kids[i])]
      sorted(type) == type \in (CollectionTypes \ {"Both"}) \cup {"Multiply"}
      literal(v) == Canonical(Dec(v < 0, DecAbs(v), 0))
  IN  [root |-> idAt(1),
       nodes |-> [id \in 1..Len(g) |->
         LET rec == g[idAt(id)]
             k == kids(idAt(id))
             isNumber == rec.type = "Number"
         IN  Payload(rec.type, IF sorted(rec.type) THEN SortedIds(k) ELSE k,
                     IF isNumber \/ rec.type \in {"Observable", "Payment"}
                     THEN rec.unit ELSE "none",
                     IF isNumber THEN 0 ELSE rec.val,
                     IF isNumber THEN literal(rec.val) ELSE DecZero,
                     rec.op)]]

Canonicalized(i, reversed) ==
  [kind |-> "canonical", document |-> Spelled(Contracts[i], reversed),
   identity |-> i]
Failed(kind) == [kind |-> kind, document |-> NoGraph, identity |-> 0]

Failures == {Failed("not a contract"), Failed("CanonicalizationComplexityError")}

\* A contract against itself in the other spelling, against the next one, and
\* calls that fail.
MCPairs ==
  {<<Canonicalized(i, FALSE), Canonicalized(i, TRUE)>> : i \in 1..Len(Contracts)}
  \cup {<<Canonicalized(i, TRUE), Canonicalized(i + 1, FALSE)>> : i \in {2, 4, 9}}
  \cup {<<Canonicalized(1, FALSE), f>> : f \in Failures}
  \cup {<<f, f>> : f \in Failures}

MCOutcomes == {p[1] : p \in MCPairs} \cup {p[2] : p \in MCPairs}

MCConfig == [schema |-> "supported", form |-> "exact", canonical |-> "supported",
             nodes |-> 6, structural |-> 15, document |-> 16]
MCConfigs == { MCConfig,
               [MCConfig EXCEPT !.nodes = 4],
               [MCConfig EXCEPT !.structural = 7, !.document = 7],
               [MCConfig EXCEPT !.document = 6],
               [MCConfig EXCEPT !.nodes = 0],
               [MCConfig EXCEPT !.form = "forged"],
               [MCConfig EXCEPT !.canonical = "other"],
               [MCConfig EXCEPT !.schema = "other"] }

\* The limits are looked at when everything is compiled, so the tight ones are
\* tried on contracts of both sides of them only.
AtTheLimits == {1, 3, 11, 12}
MCInit ==
  /\ EqInit
  /\ config = MCConfig \/ ConfigError # "none" \/ pair[1].identity \in AtTheLimits

MCSpec == MCInit /\ [][EqNext]_allVars /\ Fairness

MCIds == 1..4095

MCEnvironments == [{1, 2} -> {-1, 5}]
=============================================================================
