---------------------------- MODULE MCComparison ----------------------------
(***************************************************************************)
(* Comparisons of contracts that pass every stage, fail at one of them     *)
(* with each kind of code, or make a stage break, at every level, with one *)
(* change of a contract at any moment of the calls.                        *)
(***************************************************************************)
EXTENDS ContractComparison

Sound(i) == [structural |-> "valid", canonical |-> "canonical", contractId |-> i,
             payoff |-> "payoff graph", payoffId |-> i]

\* What validation refuses, canonicalization refuses under its own code.
Refused(i, structural, canonical) ==
  [Sound(i) EXCEPT !.structural = structural, !.canonical = canonical]

MCVersions ==
  { Sound(1), Sound(2),
    Refused(3, "ContractTypeMismatchError", "CanonicalizationNotValidatedError"),
    Refused(3, "ContractCycleError", "CanonicalizationCycleError"),
    Refused(1, "ContractComplexityError", "CanonicalizationComplexityError"),
    Refused(4, "PythonError", "PythonError"),
    [Sound(5) EXCEPT !.canonical = "CanonicalizationCollisionError"],
    [Sound(5) EXCEPT !.canonical = "CanonicalizationEncodingError"],
    [Sound(6) EXCEPT !.payoff = "PayoffGraphComplexityError"],
    [Sound(6) EXCEPT !.payoff = "PayoffGraphInputError"],
    [Sound(2) EXCEPT !.payoff = "PayoffGraphCollisionError"],
    [Sound(7) EXCEPT !.payoff = "PythonError"] }

MCConfig == [class |-> [s \in Sides |-> "Contract"], level |-> "payoff",
             option |-> [o \in Options |-> "default"], diff |-> "none"]

MCConfigs ==
  {[MCConfig EXCEPT !.level = stage] : stage \in Stages \cup {"other"}}
  \cup {[MCConfig EXCEPT !.class["right"] = "other", !.level = "other"],
        [MCConfig EXCEPT !.option["payoff_limits"] = "foreign"],
        [MCConfig EXCEPT !.option["diff_limits"] = "malformed"],
        [MCConfig EXCEPT !.option["canonical_schema"] = "malformed"],
        [MCConfig EXCEPT !.diff = "canonical"]}

MCIds == 1..3
=============================================================================
