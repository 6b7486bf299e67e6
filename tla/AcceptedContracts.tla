-------------------------- MODULE AcceptedContracts --------------------------
(***************************************************************************)
(* What it means that validate_contract accepts a contract, beyond its own *)
(* promise: the constructors, which state the rules of the classes a       *)
(* second time, could have built it, and it has a meaning.                 *)
(***************************************************************************)
EXTENDS ContractValidation, ContractConstruction, ContractSemantics

CONSTANT Environments    \* each gives every observable a value

\* Accepted contracts are well-typed: whatever the observables are, no
\* operation in the graph meets an operand of the wrong class, unit or
\* currency, and the unit every scalar node stores (parents trust it, and
\* canonicalization encodes it) is the unit of what it computes.
AcceptedContractsHaveMeaning ==
  result.kind = "metrics" =>
    \A n \in counted : \A env \in Environments :
      MeaningfulAt(graph, env, counted, n)

\* The rules are written twice, in the constructors and in the validator, and
\* differ by design in one way: a constructor stores any instance of a class,
\* the validator insists on the exact class and looks again at the value
\* objects.  On what a walk reaches they otherwise agree: metrics are returned
\* only for nodes that constructor calls could have stored, all exactly typed;
\* and a walk over exactly typed nodes ends in a validation or type error only
\* if it reached a node that no constructor call could have stored.
ValidatorMatchesConstructors ==
  (pc = "done" /\ counted # {}) =>
    /\ result.kind = "metrics" =>
         \A n \in counted : ExactlyTyped(graph, n) /\ Constructible(graph, n)
    /\ (/\ result.kind \in {Invalid, Mismatch}
        /\ \A n \in counted : ExactlyTyped(graph, n))
         => \E n \in counted : ~Constructible(graph, n)
=============================================================================
