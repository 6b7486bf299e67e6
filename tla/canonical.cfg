SPECIFICATION Spec
CONSTANTS
  Node = {1, 2, 3, 4, 5, 6, 7}
  Currencies = {"USD"}
  MaxCoeffDigits = 1
  ExpMin = 0
  ExpMax = 1
  MaxStrDigits = 2
  Graphs <- MCGraphs
  Roots = {1}
  Configs <- MCConfigs
  Ids <- MCIds
  Oracle = "any"
  Environments <- MCEnvironments
INVARIANTS
  TypeOK
  TableSound
  BuiltOnce
  DocumentIsWellFormed
  DocumentIsNormal
  DocumentKeepsMeaning
PROPERTIES
  KeepsPromise
CHECK_DEADLOCK FALSE
