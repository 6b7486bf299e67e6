SPECIFICATION EqSpec
CONSTANTS
  Node = {1, 2, 3, 4, 5, 6, 7, 8, 9}
  Currencies = {"USD"}
  MaxCoeffDigits = 1
  ExpMin = 0
  ExpMax = 1
  MaxStrDigits = 2
  Graphs <- RegroupedLiterals
  Roots = {1, 2}
  RootPairs <- MCRootPairs
  Configs <- MCConfigs
  Ids <- MCIds
  Oracle = "one order"
  Environments <- MCEnvironments
INVARIANT
  AuthorOrderIrrelevant
CHECK_DEADLOCK FALSE
