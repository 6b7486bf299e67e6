SPECIFICATION FairSpec
CONSTANTS
  Node = {1, 2, 3, 4, 5}
  Currencies = {"USD", "EUR"}
  Graphs <- MCGraphs
  Roots = {1, 2}
  Environments <- MCEnvironments
  LimitChoices <- MCLimitChoices
  DefaultLimits <- MCDefaultLimits
INVARIANTS
  AcceptedContractsHaveMeaning
  ValidatorMatchesConstructors
  DiagnosticsLocated
PROPERTIES
  KeepsPromise
CHECK_DEADLOCK FALSE
