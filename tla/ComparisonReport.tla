-------------------------- MODULE ComparisonReport --------------------------
(***************************************************************************)
(* The records of a comparison report, the checks their constructors make, *)
(* and the identity of a report (validation_equivalence/_records.py and    *)
(* _report.py).  An error code is the sequence of its dotted parts.        *)
(* Identities are positive numbers and 0 stands for None.  The limits and  *)
(* the schema metadata, which repeat the arguments of the call, are left   *)
(* out of the report.                                                      *)
(***************************************************************************)
EXTENDS DigestOracle, SequencesExt

Sides == {"left", "right"}
Other(s) == IF s = "left" THEN "right" ELSE "left"

NoId == 0

\* FailureStage, and ValidationLevel with the same names, in their order.
Stages == {"structural", "canonical", "payoff"}
StageIndex == [structural |-> 1, canonical |-> 2, payoff |-> 3]

Statuses == {"equivalent", "different", "not_comparable", "not_evaluated"}
Reasons == {"upstream_stage_failure", "representation_unavailable",
            "runtime_precondition_failed", "shallower_level_requested"}
Outcomes == {"valid", "invalid"}
Classifications ==
  {"validation_failure", "canonicalization_failure",
   "payoff_compilation_failure", "complexity_failure", "collision_failure",
   "encoding_failure"}

\* The code attributes of the error classes.
Code == [
  ContractInputError |-> <<"contract", "input">>,
  ContractTypeMismatchError |-> <<"contract", "input", "type_mismatch">>,
  ContractValidationError |-> <<"contract", "validation">>,
  ContractCycleError |-> <<"contract", "validation", "cycle">>,
  ContractComplexityError |-> <<"contract", "validation", "complexity">>,
  CanonicalizationError |-> <<"canonicalization", "error">>,
  CanonicalizationInputError |-> <<"canonicalization", "input">>,
  CanonicalizationNotValidatedError |->
    <<"canonicalization", "input", "not_validated">>,
  CanonicalizationCycleError |-> <<"canonicalization", "cycle">>,
  CanonicalizationComplexityError |-> <<"canonicalization", "complexity">>,
  CanonicalizationEncodingError |-> <<"canonicalization", "encoding">>,
  CanonicalizationCollisionError |-> <<"canonicalization", "collision">>,
  PayoffGraphInputError |-> <<"payoff_graph", "input">>,
  PayoffGraphCompilationError |-> <<"payoff_graph", "compilation">>,
  PayoffGraphComplexityError |-> <<"payoff_graph", "complexity">>,
  PayoffGraphEncodingError |-> <<"payoff_graph", "encoding">>,
  PayoffGraphCollisionError |-> <<"payoff_graph", "collision">>]

EndsWith(code, part) == Len(code) > 1 /\ code[Len(code)] = part

-----------------------------------------------------------------------------
(* CapturedFailure.                                                        *)

Failure(stage, error, classification) ==
  [stage |-> stage, code |-> Code[error], classification |-> classification]

\* _FAILURE_STAGE_NAMESPACE
Namespaces == [structural |-> {<<"contract", "validation">>, <<"contract", "input">>},
               canonical |-> {<<"canonicalization">>},
               payoff |-> {<<"payoff_graph">>}]

\* _validate_failure_code
CodeAccepted(f) ==
  /\ Len(f.code) > 1
  /\ \E namespace \in Namespaces[f.stage] :
       Len(namespace) <= Len(f.code)
       /\ \A i \in 1..Len(namespace) : f.code[i] = namespace[i]

\* _STAGE_DEFAULT_CLASSIFICATION
DefaultOf == [structural |-> "validation_failure",
              canonical |-> "canonicalization_failure",
              payoff |-> "payoff_compilation_failure"]

\* _validate_classification_coherence: a suffix rule first, then the default
ClassificationAccepted(f) ==
  f.classification =
    CASE EndsWith(f.code, "complexity") -> "complexity_failure"
      [] EndsWith(f.code, "collision") -> "collision_failure"
      [] EndsWith(f.code, "encoding") -> "encoding_failure"
      [] OTHER -> DefaultOf[f.stage]

FailureAccepted(f) == CodeAccepted(f) /\ ClassificationAccepted(f)

-----------------------------------------------------------------------------
(* ReportSide and the report.                                              *)

Before(f, g) == StageIndex[f.stage] < StageIndex[g.stage]

\* No duplicates, and in stage order (a stage fails at most once).
SideAccepted(reportSide) ==
  LET failures == reportSide.failures
  IN  \A i, j \in 1..Len(failures) : i < j => Before(failures[i], failures[j])

\* validate_comparison_coherence; "none" stands for reason None
Coherent(status, reason) ==
  /\ status \in {"equivalent", "different"} => reason = "none"
  /\ status = "not_evaluated" => reason = "shallower_level_requested"
  /\ status = "not_comparable" =>
       reason \notin {"none", "shallower_level_requested"}

\* _validate_r1a_diff_invariant
DiffAccepted(report) == report.diff = "none"

\* _build_report steps 1 and 2: the arguments and the structural payload
PayloadAccepted(report) ==
  /\ report.level \in Stages
  /\ DiffAccepted(report)
  /\ \A s \in Sides : /\ report.outcome[s] \in Outcomes
                      /\ SideAccepted(report.side[s])
  /\ Coherent(report.canonicalStatus, report.canonicalReason)
  /\ Coherent(report.payoffStatus, report.payoffReason)

NoSource == [s \in Sides |-> NoId]

\* structural_bytes: without provenance and report_id
Projection(report) ==
  [field \in DOMAIN report \ {"source", "reportId"} |-> report[field]]

\* The complete report: provenance and identity are filled in.
Complete(report, id) ==
  [report EXCEPT !.reportId = id,
     !.source = [s \in Sides |-> report.side[s].contractId]]

\* Steps 3 to 6, and once more in CompleteReport and in
\* ValidationEquivalenceReport: the identity is that of the projection, before
\* and after the report is completed.
Verified(draft, id, digestOf) ==
  /\ Projection(Complete(draft, id)) = Projection(draft)
  /\ digestOf[Projection(Complete(draft, id))] = id

\* Mutant: equal identities are enough.
EqualByIdentity(a, b) == IF a.reportId = b.reportId THEN "equal" ELSE "different"

\* ValidationEquivalenceReport.__eq__
ReportEquality(a, b) ==
  CASE a.reportId # b.reportId -> "different"
    [] a.reportId = b.reportId /\ Projection(a) # Projection(b) ->
         "ValidationEquivalenceReportCollisionError"
    [] OTHER -> "equal"
=============================================================================
