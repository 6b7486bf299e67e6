SPECIFICATION EqSpec
CONSTANTS
  Node = {1, 2, 3, 4, 5, 6, 7, 8}
  Currencies = {"USD"}
  MaxCoeffDigits = 1
  ExpMin = 0
  ExpMax = 1
  MaxStrDigits = 2
  Graphs <- AllPairs
  Roots = {1, 2}
  RootPairs <- MCRootPairs
  Configs <- MCConfigs
  Ids <- MCIds
  Oracle = "any"
  Environments <- MCEnvironments
INVARIANTS
  SymbolicOrderIrrelevant
  EquivalenceSound
CHECK_DEADLOCK FALSE
