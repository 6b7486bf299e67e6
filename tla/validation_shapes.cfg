SPECIFICATION FairSpec
CONSTANTS
  a = a
  b = b
  c = c
  d = d
  Node <- MCNode
  Currencies = {"USD"}
  Graphs <- MCGraphs
  Roots = {a}
  LimitChoices <- MCLimitChoices
  DefaultLimits <- MCDefaultLimits
INVARIANTS
  TypeOK
  ChildrenValidatedFirst
  AncestorsArePending
  WorkBounded
  DiagnosticsLocated
PROPERTIES
  KeepsPromise
  Terminates
CHECK_DEADLOCK FALSE
