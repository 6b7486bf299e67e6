SPECIFICATION Spec
CONSTANTS
  Node = {1, 2, 3, 4, 5, 6, 7}
  Currencies = {"USD"}
  MaxCoeffDigits = 1
  ExpMin = 0
  ExpMax = 1
  MaxStrDigits = 2
  Graphs <- MCGraphs
  Roots = {1}
  Configs <- MCConfigs
  Ids <- MCIds
  Oracle = "one order"
  Environments <- MCEnvironments
INVARIANT
  DenominatorsNonZero
CHECK_DEADLOCK FALSE
