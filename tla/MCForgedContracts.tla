------------------------- MODULE MCForgedContracts -------------------------
(***************************************************************************)
(* Seven contracts that between them use all twenty node classes, each     *)
(* taken as constructed, with every single forgery object.__setattr__ can  *)
(* make to one of its nodes (a unit, a child reference, which closes       *)
(* cycles, an operand collection, a value object, a class) and with every  *)
(* assignment of units to its nodes.                                       *)
(***************************************************************************)
EXTENDS AcceptedContracts, ContractExamples

Constructed ==
  { << Pay(2), Money("Add", <<3, 4>>), Usd(2), Money("Multiply", <<5, 3>>), Num(1) >>,
    << Plain("Scale", <<2, 5>>), Scalar("Divide", <<3, 4>>),
       Scalar("Negate", <<4>>), Num(1), ZeroContract >>,
    << Plain("ConditionalContract", <<2, 4, 5>>), Plain("Not", <<3>>), Const(1),
       ZeroContract, Plain("Both", <<4, 4>>) >>,
    << Plain("ConditionalContract", <<2, 5, 5>>), Plain("Comparison", <<3, 4>>),
       Obs(1), Scalar("Subtract", <<3, 3>>), ZeroContract >>,
    << Plain("Scale", <<2, 5>>), Scalar("ConditionalValue", <<3, 4, 4>>),
       Const(1), Obs(1), ZeroContract >>,
    << Plain("Scale", <<2, 5>>), Scalar("Maximum", <<3, 4>>),
       Scalar("Minimum", <<4, 4>>), Num(1), ZeroContract >>,
    << Plain("ConditionalContract", <<2, 4, 4>>), Plain("AllOf", <<3, 5>>),
       Plain("AnyOf", <<5, 5>>), ZeroContract, Const(1) >> }

ForgedRecords(rec) ==
  (IF rec.unit = "none" THEN {}
   ELSE {[rec EXCEPT !.unit = u] : u \in {"scalar", "USD", "EUR", "forged"}})
  \cup {[rec EXCEPT !.kids[i] = k] : i \in 1..Len(rec.kids), k \in Node}
  \cup (IF rec.type \in CollectionTypes
        THEN {[rec EXCEPT !.slots = s] : s \in {"list", "opaque"}}
             \cup {[rec EXCEPT !.kids = <<rec.kids[1]>>]}
        ELSE {})
  \cup {[rec EXCEPT !.val = 0], [rec EXCEPT !.sound = FALSE]}
  \cup {[rec EXCEPT !.type = t] :
          t \in {"RogueScalar", "RogueBoolean", "RogueContract", "Alien"}}

\* Any unit on every node that has one, several nodes at a time.
UnitForgeries(g) ==
  {[n \in Node |-> IF g[n].unit = "none" THEN g[n]
                     ELSE [g[n] EXCEPT !.unit = units[n]]] :
     units \in [Node -> {"scalar", "USD", "EUR"}]}

MCGraphs ==
  UNION {UNION {{[g EXCEPT ![n] = rec] : rec \in ForgedRecords(g[n])} :
                  n \in Node} \cup UnitForgeries(g) : g \in Constructed}

MCLimits(form, depth, nodes) == [form |-> form, depth |-> depth, nodes |-> nodes]
MCLimitChoices == {MCLimits("none", 0, 0), MCLimits("exact", 3, 5),
                   MCLimits("forged", 0, 4), MCLimits("foreign", 0, 0)}
MCDefaultLimits == MCLimits("exact", 4, 5)

MCEnvironments == [{0, 1} -> {-1, 0, 2}]
=============================================================================
