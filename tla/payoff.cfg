SPECIFICATION MCSpec
CONSTANTS
  Node = {1, 2, 3, 4, 5, 6}
  Currencies = {"USD"}
  MaxCoeffDigits = 1
  ExpMin = 0
  ExpMax = 1
  MaxStrDigits = 2
  Outcomes <- MCOutcomes
  Pairs <- MCPairs
  Environments <- MCEnvironments
  Configs <- MCConfigs
  Ids <- MCIds
  Oracle = "any"
INVARIANTS
  TypeOK
  PayoffTableSound
  CompiledOnce
  NodesStayApart
  PayoffGraphIsReach
  PayoffKeepsMeaning
  AnswersAsPromised
  EqualIffSameContract
PROPERTIES
  Answered
CHECK_DEADLOCK FALSE
