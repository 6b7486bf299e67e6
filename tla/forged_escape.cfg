SPECIFICATION Spec
CONSTANTS
  Node = {1, 2, 3, 4, 5}
  Currencies = {"USD", "EUR"}
  Graphs <- MCGraphs
  Roots = {1, 2}
  Environments <- MCEnvironments
  LimitChoices <- MCLimitChoices
  DefaultLimits <- MCDefaultLimits
INVARIANT
  OnlyContractErrors
CHECK_DEADLOCK FALSE
