---------------------------- MODULE PayoffMeaning ----------------------------
(***************************************************************************)
(* What it means that a payoff graph is right: read as a contract again,   *)
(* it pays what the canonical document pays.                               *)
(***************************************************************************)
EXTENDS PayoffEquality, DocumentSemantics

CONSTANT Environments    \* each gives every observable a value

ASSUME EnvironmentsAssumption ==
  \A o \in Outcomes : o.kind = "canonical" =>
    \A id \in DOMAIN o.document.nodes :
      o.document.nodes[id].type = "Observable" =>
        \A env \in Environments : env[o.document.nodes[id].val] \in Int

\* The contract class that a payoff type was made of; an empty combination is
\* Zero.
ContractType(payload) ==
  IF payload.type = "PGCombine"
  THEN IF payload.kids = << >> THEN "Zero" ELSE "Both"
  ELSE CHOOSE t \in DOMAIN PGType : PGType[t] = payload.type

\* The nodes of a payoff graph read as nodes of a document again.
AsContract(payoffNodes) ==
  [id \in DOMAIN payoffNodes |->
     [payoffNodes[id] EXCEPT !.type = ContractType(payoffNodes[id])]]

\* Compilation preserves meaning: whatever the observables are, the payoff
\* graph pays what the canonical document pays.
PayoffKeepsMeaning ==
  result.kind = "payoff graph" =>
    \A env \in Environments :
      DocumentMeaning(AsContract(result.graph.nodes), env)[result.graph.root]
        = DocumentMeaning(outcome.document.nodes, env)[outcome.document.root]
=============================================================================
