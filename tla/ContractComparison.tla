------------------------- MODULE ContractComparison -------------------------
(***************************************************************************)
(* _compare_contracts: gate the arguments, then take the left and the      *)
(* right contract through validation, canonicalization and payoff          *)
(* compilation up to the requested level, a failed side going no further,  *)
(* and build a report of what is known.                                    *)
(*                                                                         *)
(* The stages are taken by what they do with a contract, recorded in its   *)
(* version.  A contract is frozen but not immutable (object.__setattr__),  *)
(* so its owner may put another version in its place between two stage     *)
(* calls: every call looks at the contract anew, and payoff compilation    *)
(* canonicalizes it a second time.                                         *)
(***************************************************************************)
EXTENDS ComparisonReport

CONSTANTS Versions,     \* what the stages may do with a contract:
                        \*   structural  "valid" or the error it raises
                        \*   canonical   "canonical" or the error, contractId
                        \*   payoff      "payoff graph" or the error, payoffId
          Configs,      \* the other arguments
          MaxChanges    \* bound on the changes the owners make

StructuralErrors == {"ContractInputError", "ContractTypeMismatchError",
                     "ContractValidationError", "ContractCycleError",
                     "ContractComplexityError"}
CanonicalErrors ==
  {"CanonicalizationError", "CanonicalizationInputError",
   "CanonicalizationNotValidatedError", "CanonicalizationCycleError",
   "CanonicalizationComplexityError", "CanonicalizationEncodingError",
   "CanonicalizationCollisionError"}
PayoffErrors ==
  {"PayoffGraphInputError", "PayoffGraphCompilationError",
   "PayoffGraphComplexityError", "PayoffGraphEncodingError",
   "PayoffGraphCollisionError"}

Options == {"canonical_schema", "payoff_schema", "canonicalization_limits",
            "payoff_limits", "validation_limits", "diff_limits"}

\* A contract has one identity per representation, and equal canonical
\* identities go with equal payoff identities and the other way round, which
\* the model PayoffEquality shows of the compiler.
ASSUME VersionAssumption ==
  /\ \A v \in Versions :
       /\ v.structural \in {"valid", "PythonError"} \cup StructuralErrors
       /\ v.canonical \in {"canonical", "PythonError"} \cup CanonicalErrors
       /\ v.payoff \in {"payoff graph", "PythonError"} \cup PayoffErrors
       /\ v.contractId \in Nat \ {0} /\ v.payoffId \in Nat \ {0}
  /\ \A v, w \in Versions : v.contractId = w.contractId <=> v.payoffId = w.payoffId

ASSUME ConfigAssumption ==
  /\ MaxChanges \in Nat
  /\ \A c \in Configs :
       /\ c.class \in [Sides -> {"Contract", "other"}]
       /\ c.level \in Stages \cup {"other"}
       /\ c.option \in [Options -> {"default", "exact", "malformed", "foreign"}]
       /\ c.diff \in {"none", "canonical", "other"}

VARIABLES
  config, version,   \* the arguments; version[s] is what side s is now
  pc,                \* "config", a stage, "report", "done"
  turn,              \* the side whose turn it is
  sides,             \* the locals left_... and right_...
  result,
  reportDigests,     \* the report oracle: projection -> id
  previous, equality, \* an earlier report of the process, and left == right
  seen,              \* history: the versions of each side during the call
  swapped, changes   \* history: of the last call and of the behaviour

arguments == <<config, version>>
owners == <<seen, changes>>
reports == <<reportDigests, previous, equality, swapped>>
vars == <<config, version, pc, turn, sides, result, reportDigests, previous,
          equality, seen, swapped, changes>>

Fresh == [outcome |-> "valid", contractId |-> NoId, payoffId |-> NoId,
          structural |-> << >>, canonical |-> << >>, payoff |-> << >>]

NoReport == [kind |-> "none"]

Init ==
  /\ config \in Configs
  /\ version \in [Sides -> Versions]
  /\ pc = "config" /\ turn = "left"
  /\ sides = [s \in Sides |-> Fresh]
  /\ result = NoReport
  /\ reportDigests = << >>
  /\ previous = NoReport /\ equality = "none"
  /\ seen = [s \in Sides |-> {version[s]}]
  /\ swapped = FALSE /\ changes = 0

Raise(kind) ==
  /\ pc' = "done"
  /\ result' = [kind |-> kind]
  /\ UNCHANGED <<turn, sides>>

-----------------------------------------------------------------------------
(* Section 1 and 2 of _compare_contracts: the caller's arguments.          *)

InputError == "ValidationEquivalenceInputError"
ComparisonError == "ValidationEquivalenceComparisonError"
MalformedError == "ValidationEquivalenceMalformedRepresentationError"

ConfigError ==
  CASE \E s \in Sides : config.class[s] = "other" -> InputError
    [] config.level = "other" -> "ValidationEquivalenceUnsupportedLevelError"
    [] \E o \in Options : config.option[o] = "foreign" -> InputError
    [] config.diff # "none" -> InputError
    [] \E o \in Options : config.option[o] = "malformed" -> InputError
    [] OTHER -> "none"

RejectConfig ==
  /\ pc = "config"
  /\ ConfigError # "none"
  /\ Raise(ConfigError)
  /\ UNCHANGED <<arguments, reports, owners>>

AcceptConfig ==
  /\ pc = "config"
  /\ ConfigError = "none"
  /\ pc' = "structural"
  /\ UNCHANGED <<arguments, turn, sides, result, reports, owners>>

-----------------------------------------------------------------------------
(* Section 3: per-side processing, left before right at every level.       *)

Requested(stage) == StageIndex[stage] <= StageIndex[config.level]

NextStage ==
  CASE pc = "structural" -> IF Requested("canonical") THEN "canonical" ELSE "report"
    [] pc = "canonical" -> IF Requested("payoff") THEN "payoff" ELSE "report"
    [] pc = "payoff" -> "report"

Proceed ==
  IF turn = "left" THEN turn' = "right" /\ UNCHANGED pc
  ELSE turn' = "left" /\ pc' = NextStage

At(stage) == pc = stage
Now == version[turn]
Here == sides[turn]

\* The local variables of the side whose turn it is; nothing else changes.
Learn(locals) ==
  /\ sides' = [sides EXCEPT ![turn] = locals]
  /\ Proceed
  /\ UNCHANGED <<arguments, result, reports, owners>>

\* A failure is appended to the list of its stage if CapturedFailure accepts it.
Capture(f, locals) ==
  IF FailureAccepted(f) THEN Learn(locals)
  ELSE Raise(InputError) /\ UNCHANGED <<arguments, reports, owners>>

StructurallyValid(locals) == locals.outcome = "valid"
CanonicallyValid(locals) == locals.contractId # NoId

\* _map_validation_error
MapValidationError(error) ==
  Failure("structural", error,
    IF EndsWith(Code[error], "complexity") THEN "complexity_failure"
    ELSE "validation_failure")

\* Mutant: the suffix of a collision code is not recognized.
MapCanonicalizationErrorNoCollision(error) ==
  LET code == Code[error]
  IN  Failure("canonical", error,
        CASE EndsWith(code, "complexity") -> "complexity_failure"
          [] EndsWith(code, "encoding") -> "encoding_failure"
          [] OTHER -> "canonicalization_failure")

\* _map_canonicalization_error
MapCanonicalizationError(error) ==
  LET code == Code[error]
  IN  Failure("canonical", error,
        CASE EndsWith(code, "complexity") -> "complexity_failure"
          [] EndsWith(code, "encoding") -> "encoding_failure"
          [] EndsWith(code, "collision") -> "collision_failure"
          [] OTHER -> "canonicalization_failure")

\* _map_payoff_error
MapPayoffError(error) ==
  LET code == Code[error]
  IN  Failure("payoff", error,
        CASE EndsWith(code, "complexity") -> "complexity_failure"
          [] EndsWith(code, "encoding") -> "encoding_failure"
          [] EndsWith(code, "collision") -> "collision_failure"
          [] OTHER -> "payoff_compilation_failure")

ValidationPasses ==
  /\ At("structural")
  /\ Now.structural = "valid"
  /\ Learn(Here)

ValidationFails ==
  /\ At("structural")
  /\ Now.structural \in StructuralErrors
  /\ LET f == MapValidationError(Now.structural)
     IN  Capture(f, [Here EXCEPT !.outcome = "invalid", !.structural = <<f>>])

CanonicalizationSkipped ==
  /\ At("canonical")
  /\ ~StructurallyValid(Here)
  /\ Learn(Here)

CanonicalizationPasses ==
  /\ At("canonical")
  /\ StructurallyValid(Here)
  /\ Now.canonical = "canonical"
  /\ Learn([Here EXCEPT !.contractId = Now.contractId])

\* Mutant: canonicalization is tried whatever validation said.
CanonicalizationFailsAlways ==
  /\ At("canonical")
  /\ Now.canonical \in CanonicalErrors
  /\ LET f == MapCanonicalizationError(Now.canonical)
     IN  Capture(f, [Here EXCEPT !.canonical = <<f>>])

CanonicalizationFails ==
  /\ At("canonical")
  /\ StructurallyValid(Here)
  /\ Now.canonical \in CanonicalErrors
  /\ LET f == MapCanonicalizationError(Now.canonical)
     IN  Capture(f, [Here EXCEPT !.canonical = <<f>>])

CompilationSkipped ==
  /\ At("payoff")
  /\ ~CanonicallyValid(Here)
  /\ Learn(Here)

\* Mutant: source_contract_identity is not compared.
CompilationPassesUnchecked ==
  /\ At("payoff")
  /\ CanonicallyValid(Here)
  /\ Now.canonical = "canonical"
  /\ Now.payoff = "payoff graph"
  /\ Learn([Here EXCEPT !.payoffId = Now.payoffId])

\* compile_payoff_graph canonicalizes the contract again; the identities of
\* both passes must agree.
CompilationPasses ==
  /\ At("payoff")
  /\ CanonicallyValid(Here)
  /\ Now.canonical = "canonical"
  /\ Now.payoff = "payoff graph"
  /\ Now.contractId = Here.contractId
  /\ Learn([Here EXCEPT !.payoffId = Now.payoffId])

CompilationMismatch ==
  /\ At("payoff")
  /\ CanonicallyValid(Here)
  /\ Now.canonical = "canonical"
  /\ Now.payoff = "payoff graph"
  /\ Now.contractId # Here.contractId
  /\ Raise(MalformedError)
  /\ UNCHANGED <<arguments, reports, owners>>

\* Mutant: the failure is appended to the list of the stage before.
CompilationFailsWrongList ==
  /\ At("payoff")
  /\ CanonicallyValid(Here)
  /\ Now.canonical = "canonical"
  /\ Now.payoff \in PayoffErrors
  /\ LET f == MapPayoffError(Now.payoff)
     IN  Capture(f, [Here EXCEPT !.canonical = <<f>>])

CompilationFails ==
  /\ At("payoff")
  /\ CanonicallyValid(Here)
  /\ Now.canonical = "canonical"
  /\ Now.payoff \in PayoffErrors
  /\ LET f == MapPayoffError(Now.payoff)
     IN  Capture(f, [Here EXCEPT !.payoff = <<f>>])

SecondCanonicalizationFails ==
  /\ At("payoff")
  /\ CanonicallyValid(Here)
  /\ Now.canonical \in CanonicalErrors
  /\ Raise(ComparisonError)
  /\ UNCHANGED <<arguments, reports, owners>>

\* Any other exception of a stage.
StageBreaks ==
  /\ \/ At("structural") /\ Now.structural = "PythonError"
     \/ At("canonical") /\ StructurallyValid(Here) /\ Now.canonical = "PythonError"
     \/ At("payoff") /\ CanonicallyValid(Here)
          /\ "PythonError" \in {Now.canonical, Now.payoff}
          /\ Now.canonical \notin CanonicalErrors
  /\ Raise(ComparisonError)
  /\ UNCHANGED <<arguments, reports, owners>>

-----------------------------------------------------------------------------
(* Sections 4 to 9: the verdicts and the report.                           *)

\* Mutant: two missing identities are equal.
VerdictNoneEqual(stage, a, b) ==
  CASE ~Requested(stage) -> "not_evaluated"
    [] Requested(stage) /\ a = b -> "equivalent"
    [] OTHER -> IF a # NoId /\ b # NoId THEN "different" ELSE "not_comparable"

\* Mutant: only the left identity is looked at.
VerdictLeftOnly(stage, a, b) ==
  CASE ~Requested(stage) -> "not_evaluated"
    [] Requested(stage) /\ a # NoId -> IF a = b THEN "equivalent" ELSE "different"
    [] OTHER -> "not_comparable"

Verdict(stage, a, b) ==
  CASE ~Requested(stage) -> "not_evaluated"
    [] Requested(stage) /\ a # NoId /\ b # NoId ->
         IF a = b THEN "equivalent" ELSE "different"
    [] OTHER -> "not_comparable"

ReasonFor(status) ==
  CASE status = "not_evaluated" -> "shallower_level_requested"
    [] status = "not_comparable" -> "upstream_stage_failure"
    [] OTHER -> "none"

\* sorted by stage; code and classification, the rest of the key, never
\* decide because a stage fails at most once
Sorted(failures) ==
  LET places == 1..Len(failures)
      order == CHOOSE p \in [places -> places] :
                 /\ {p[i] : i \in places} = places
                 /\ \A i, j \in places :
                      i < j => ~Before(failures[p[j]], failures[p[i]])
  IN  [i \in places |-> failures[order[i]]]

AllFailures(locals) ==
  Sorted(locals.structural \o locals.canonical \o locals.payoff)

Draft(all) ==
  LET canonicalStatus == Verdict("canonical", all["left"].contractId,
                                 all["right"].contractId)
      payoffStatus == Verdict("payoff", all["left"].payoffId,
                              all["right"].payoffId)
  IN  [level |-> config.level,
       outcome |-> [s \in Sides |-> all[s].outcome],
       canonicalStatus |-> canonicalStatus,
       canonicalReason |-> ReasonFor(canonicalStatus),
       payoffStatus |-> payoffStatus,
       payoffReason |-> ReasonFor(payoffStatus),
       side |-> [s \in Sides |-> [contractId |-> all[s].contractId,
                                  payoffId |-> all[s].payoffId,
                                  failures |-> AllFailures(all[s])]],
       diff |-> config.diff, source |-> NoSource, reportId |-> NoId]

BuildReport ==
  /\ pc = "report"
  /\ LET draft == Draft(sides)
     IN  IF ~PayloadAccepted(draft)
         THEN Raise(InputError) /\ UNCHANGED reportDigests
         ELSE \E id \in Answers(reportDigests, Projection(draft)) :
                /\ reportDigests' = Extended(reportDigests, Projection(draft), id)
                /\ IF Verified(draft, id, reportDigests')
                   THEN /\ result' = [kind |-> "report",
                                      report |-> Complete(draft, id)]
                        /\ pc' = "done"
                        /\ UNCHANGED <<turn, sides>>
                   ELSE Raise("ValidationEquivalenceReportCollisionError")
  /\ UNCHANGED <<arguments, previous, equality, swapped, owners>>

-----------------------------------------------------------------------------
(* The callers.                                                            *)

\* The owner of a contract changes it while it is being compared; it may be
\* one side or, when both sides are the same contract, both.
Change(changed) ==
  /\ pc \in Stages
  /\ changes < MaxChanges
  /\ \A s, t \in changed : version[s] = version[t]
  /\ \E v \in Versions \ {version[s] : s \in changed} :
       /\ version' = [s \in Sides |-> IF s \in changed THEN v ELSE version[s]]
       /\ seen' = [s \in Sides |-> seen[s] \cup {version'[s]}]
  /\ changes' = changes + 1
  /\ UNCHANGED <<config, pc, turn, sides, result, reports>>

\* The contracts are compared a second time, in either order.
CallAgain ==
  /\ pc = "done"
  /\ result.kind = "report"
  /\ previous = NoReport
  /\ previous' = result
  /\ \E exchange \in BOOLEAN :
       /\ swapped' = exchange
       /\ version' = [s \in Sides |-> version[IF exchange THEN Other(s) ELSE s]]
  /\ seen' = [s \in Sides |-> {version'[s]}]
  /\ pc' = "config" /\ turn' = "left"
  /\ sides' = [s \in Sides |-> Fresh]
  /\ result' = NoReport
  /\ UNCHANGED <<config, reportDigests, equality, changes>>

\* previous == report
CompareReports ==
  /\ pc = "done"
  /\ result.kind = "report" /\ previous.kind = "report"
  /\ equality = "none"
  /\ equality' = ReportEquality(previous.report, result.report)
  /\ UNCHANGED <<arguments, pc, turn, sides, result, reportDigests, previous,
                 swapped, owners>>

Next ==
  \/ RejectConfig \/ AcceptConfig
  \/ ValidationPasses \/ ValidationFails
  \/ CanonicalizationSkipped \/ CanonicalizationPasses \/ CanonicalizationFails
  \/ CompilationSkipped \/ CompilationPasses \/ CompilationMismatch
  \/ CompilationFails \/ SecondCanonicalizationFails \/ StageBreaks
  \/ BuildReport
  \/ \E changed \in SUBSET Sides \ {{}} : Change(changed)
  \/ CallAgain \/ CompareReports

Spec == Init /\ [][Next]_vars

-----------------------------------------------------------------------------
(* Properties.                                                             *)

IsFailureList(failures, stage) ==
  /\ Len(failures) <= 1
  /\ \A i \in 1..Len(failures) : /\ failures[i].stage = stage
                               /\ failures[i].classification \in Classifications

\* Every variable keeps its type.
TypeOK ==
  /\ config \in Configs
  /\ version \in [Sides -> Versions]
  /\ pc \in {"config", "report", "done"} \cup Stages
  /\ turn \in Sides
  /\ \A s \in Sides :
       /\ sides[s].outcome \in Outcomes
       /\ sides[s].contractId \in Nat /\ sides[s].payoffId \in Nat
       /\ IsFailureList(sides[s].structural, "structural")
       /\ IsFailureList(sides[s].canonical, "canonical")
       /\ IsFailureList(sides[s].payoff, "payoff")
  /\ result.kind \in {"none", "report", InputError, ComparisonError, MalformedError,
                      "ValidationEquivalenceUnsupportedLevelError",
                      "ValidationEquivalenceReportCollisionError"}
  /\ previous.kind \in {"none", "report"}
  /\ seen \in [Sides -> SUBSET Versions]
  /\ changes \in 0..MaxChanges

Verdicts == {"equivalent", "different"}

\* Whatever the owners do to the contracts meanwhile, a report never says one
\* thing of the canonical representations and another of the payoff graphs.
VerdictsAgree ==
  result.kind = "report" =>
    LET r == result.report
    IN  r.payoffStatus \in Verdicts => r.canonicalStatus = r.payoffStatus

\* In every report, a requested representation of a side is missing exactly
\* when one failure of that side says why, at the first stage that failed;
\* what happened to the other side plays no part.
FailureExplainsMissing ==
  result.kind = "report" =>
    \A s \in Sides :
      LET r == result.report
          side == r.side[s]
          failedAt(stage) == \E i \in 1..Len(side.failures) :
                               side.failures[i].stage = stage
      IN  /\ Len(side.failures) <= 1
          /\ r.outcome[s] = "invalid" <=> failedAt("structural")
          /\ side.contractId # NoId <=>
               /\ Requested("canonical")
               /\ ~failedAt("structural") /\ ~failedAt("canonical")
          /\ side.payoffId # NoId <=>
               Requested("payoff") /\ side.failures = << >>

\* What the caller is promised: an error only for its reason.  The internal
\* errors need a broken stage or a contract that changed during the call, and
\* the report builder accepts everything the orchestration builds.
AnswersAsPromised ==
  LET sawError(errors) == \E s \in Sides : \E v \in seen[s] :
                            {v.structural, v.canonical, v.payoff} \cap errors # {}
      sawChange == \E s \in Sides : Cardinality(seen[s]) > 1
  IN  CASE result.kind = "none" -> pc # "done"
        [] result.kind = "report" -> ConfigError = "none"
        [] result.kind = ComparisonError ->
             \/ sawError({"PythonError"})
             \/ sawChange /\ sawError(CanonicalErrors)
        [] result.kind = MalformedError ->
             \E s \in Sides : \E v, w \in seen[s] : v.contractId # w.contractId
        [] OTHER -> result.kind = ConfigError

\* What a level says of a contract.
Reaches(v, stage) ==
  /\ v.structural = "valid"
  /\ stage # "structural" => v.canonical = "canonical"
  /\ stage = "payoff" => v.payoff = "payoff graph"

\* When nobody touches the contracts, the report tells the truth about them:
\* each status is the comparison of the representations, each outcome the
\* verdict of validation.
UndisturbedReportTruthful ==
  (result.kind = "report" /\ \A s \in Sides : seen[s] = {version[s]}) =>
    LET r == result.report
        both(stage) == \A s \in Sides : Reaches(version[s], stage)
        same == version["left"].contractId = version["right"].contractId
        truth(stage) == CASE ~Requested(stage) -> "not_evaluated"
                          [] Requested(stage) /\ ~both(stage) -> "not_comparable"
                          [] OTHER -> IF same THEN "equivalent" ELSE "different"
    IN  /\ r.canonicalStatus = truth("canonical")
        /\ r.payoffStatus = truth("payoff")
        /\ \A s \in Sides : (r.outcome[s] = "valid") = Reaches(version[s], "structural")

\* Comparing right with left says of the pair what comparing left with right
\* says, with the sides exchanged.
SwappedCallMirrors ==
  (changes = 0 /\ swapped /\ result.kind = "report") =>
    LET before == previous.report
        after == result.report
    IN  /\ after.canonicalStatus = before.canonicalStatus
        /\ after.payoffStatus = before.payoffStatus
        /\ \A s \in Sides : /\ after.outcome[s] = before.outcome[Other(s)]
                            /\ after.side[s] = before.side[Other(s)]

\* Equal reports say the same of both sides, even when two reports get the
\* same identity; repeating an undisturbed comparison gives an equal report.
EqualReportsSayTheSame ==
  /\ equality = "equal" => /\ previous.report.side = result.report.side
                           /\ previous.report.outcome = result.report.outcome
  /\ equality # "none" /\ changes = 0 /\ ~swapped => equality = "equal"
=============================================================================
