SPECIFICATION Spec
CONSTANTS
  Versions <- MCVersions
  Configs <- MCConfigs
  MaxChanges = 1
  Ids <- MCIds
  Oracle = "any"
INVARIANTS
  TypeOK
  VerdictsAgree
  FailureExplainsMissing
  AnswersAsPromised
  UndisturbedReportTruthful
  SwappedCallMirrors
  EqualReportsSayTheSame
CHECK_DEADLOCK FALSE
