SPECIFICATION Spec
CONSTANTS
  a = a
  b = b
  c = c
  d = d
  Node <- MCNode
  Currencies = {"USD"}
  Graphs <- MCGraphs
  Roots = {a}
  LimitChoices <- MCLimitChoices
  DefaultLimits <- MCDefaultLimits
INVARIANT
  NoReExpansion
CHECK_DEADLOCK FALSE
