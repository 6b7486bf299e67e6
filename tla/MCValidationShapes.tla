------------------------ MODULE MCValidationShapes ------------------------
(***************************************************************************)
(* Every graph of four objects in which three are Both nodes or leaves and *)
(* the fourth is one of the leaves that end a walk: chains, diamonds,      *)
(* sharing at different depths, self-loops and longer cycles, under depth  *)
(* and node limits below, at and above the size of the graph.              *)
(***************************************************************************)
EXTENDS ContractValidation

CONSTANTS a, b, c, d

MCNode == {a, b, c, d}

Leaf(type) == [type |-> type, kids |-> << >>, slots |-> "tuple",
               unit |-> "none", val |-> 0, op |-> "", sound |-> TRUE]
Pair(x, y) == [Leaf("Both") EXCEPT !.kids = <<x, y>>]

LastNodes == {Leaf("Zero"), Leaf("RogueContract"), Pair(c, b),
              [Pair(b, b) EXCEPT !.slots = "opaque"]}

MCGraphs ==
  {[n \in MCNode |-> CASE n = a -> Pair(b, ka[1]) [] n = b -> kb
                       [] n = c -> kc [] n = d -> last] :
     ka \in {<<x>> : x \in MCNode},
     kb \in {Pair(x, y) : x \in MCNode, y \in {b, c, d}},
     kc \in {Pair(x, y) : x, y \in {a, c, d}} \cup {Leaf("Zero")},
     last \in LastNodes}

MCLimits(depth, nodes) == [form |-> "exact", depth |-> depth, nodes |-> nodes]

MCLimitChoices == {MCLimits(2, 4), MCLimits(4, 2), MCLimits(4, 4),
                   MCLimits(3, 3)}
MCDefaultLimits == MCLimits(4, 4)
=============================================================================
