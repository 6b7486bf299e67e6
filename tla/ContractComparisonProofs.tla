---------------------- MODULE ContractComparisonProofs ----------------------
(***************************************************************************)
(* Proofs about _compare_contracts for all contracts, arguments and report *)
(* identities, however often the contracts change during a call.           *)
(***************************************************************************)
EXTENDS ContractComparison, FiniteSetTheorems, TLAPS

-----------------------------------------------------------------------------
(* What a side knows after some stages.                                    *)

\* The stages see a, b and c of one contract.
Mix(a, b, c) ==
  [structural |-> a.structural, canonical |-> b.canonical,
   contractId |-> b.contractId, payoff |-> c.payoff, payoffId |-> c.payoffId]

Valid(done, v) == "structural" \in done /\ v.structural = "valid"
Canonical(done, v) ==
  Valid(done, v) /\ "canonical" \in done /\ v.canonical = "canonical"
Compiled(done, v) ==
  Canonical(done, v) /\ "payoff" \in done /\ v.payoff = "payoff graph"

\* The locals of a side whose stages in done looked at v.
Locals(done, v) ==
  [outcome |-> IF "structural" \in done /\ ~Valid(done, v)
               THEN "invalid" ELSE "valid",
   contractId |-> IF Canonical(done, v) THEN v.contractId ELSE NoId,
   payoffId |-> IF Compiled(done, v) THEN v.payoffId ELSE NoId,
   structural |-> IF "structural" \in done /\ ~Valid(done, v)
                  THEN <<MapValidationError(v.structural)>> ELSE << >>,
   canonical |-> IF Valid(done, v) /\ "canonical" \in done /\ ~Canonical(done, v)
                 THEN <<MapCanonicalizationError(v.canonical)>> ELSE << >>,
   payoff |-> IF Canonical(done, v) /\ "payoff" \in done /\ ~Compiled(done, v)
              THEN <<MapPayoffError(v.payoff)>> ELSE << >>]

\* The stages a side has been through.
Done(s) ==
  {stage \in Stages :
     /\ Requested(stage)
     /\ \/ pc = "report" \/ result.kind = "report"
        \/ pc \in Stages /\ StageIndex[stage] < StageIndex[pc]
        \/ pc = stage /\ s = "left" /\ turn = "right"}

-----------------------------------------------------------------------------
(* The invariant.                                                          *)

Control ==
  /\ config \in Configs
  /\ version \in [Sides -> Versions]
  /\ pc \in {"config", "report", "done"} \cup Stages
  /\ turn \in Sides
  /\ pc \notin Stages /\ pc # "done" => turn = "left"
  /\ pc = "done" <=> result.kind # "none"
  /\ pc # "config" /\ result.kind \in {"none", "report"} => ConfigError = "none"
  /\ pc \in Stages => Requested(pc)
  /\ changes \in 0..MaxChanges

\* What the history says of the versions.
History ==
  /\ seen \in [Sides -> SUBSET Versions]
  /\ \A s \in Sides : IsFiniteSet(seen[s]) /\ version[s] \in seen[s]
  /\ changes = 0 => \A s \in Sides : seen[s] = {version[s]}

\* A side knows what the stages it went through found in versions it had, and
\* compilation saw the identity that canonicalization had seen.
SideInv(s) ==
  \E done \in SUBSET Stages : \E a, b, c \in seen[s] :
    /\ result.kind \in {"none", "report"} => done = Done(s)
    /\ sides[s] = Locals(done, Mix(a, b, c))
    /\ sides[s].payoffId # NoId => c.contractId = b.contractId

SidesInv ==
  /\ sides = [s \in Sides |-> sides[s]]
  /\ \A s \in Sides : SideInv(s)

\* The digest of a report is that of its projection.
Identified(r) ==
  /\ Projection(r) \in DOMAIN reportDigests
  /\ reportDigests[Projection(r)] = r.reportId
  /\ {"side", "outcome"} \subseteq DOMAIN r

\* A report is built of what the sides know.
ResultInv ==
  /\ result.kind = "report" =>
       /\ result.report = Complete(Draft(sides), result.report.reportId)
       /\ Identified(result.report)
  /\ AnswersAsPromised

\* The locals that are reached when nobody touches the contracts.
AllRequested == {stage \in Stages : Requested(stage)}

Truth(contracts) ==
  [s \in Sides |-> Locals(AllRequested, Mix(contracts[s], contracts[s], contracts[s]))]

\* The contracts as the earlier call had them, if nothing changed since.
Earlier == [s \in Sides |-> version[IF swapped THEN Other(s) ELSE s]]

PreviousInv ==
  /\ previous.kind \in {"none", "report"}
  /\ swapped => previous.kind = "report"
  /\ previous.kind = "report" =>
       /\ Identified(previous.report)
       /\ changes = 0 =>
            previous.report = Complete(Draft(Truth(Earlier)), previous.report.reportId)

EqualityInv ==
  equality # "none" =>
    /\ result.kind = "report" /\ previous.kind = "report"
    /\ equality = ReportEquality(previous.report, result.report)

IInv == Control /\ History /\ SidesInv /\ ResultInv /\ PreviousInv /\ EqualityInv

-----------------------------------------------------------------------------
(* Reports as data.                                                        *)

LEMMA SortShort ==
  ASSUME NEW S, NEW failures \in Seq(S), Len(failures) <= 1
  PROVE  Sorted(failures) = failures
<1> DEFINE places == 1..Len(failures)
           Orders(p) == /\ {p[i] : i \in places} = places
                        /\ \A i, j \in places :
                             i < j => ~Before(failures[p[j]], failures[p[i]])
           order == CHOOSE p \in [places -> places] : Orders(p)
           id == [i \in places |-> i]
<1>1. places = {} \/ places = {1}
  <2>1. Len(failures) \in Nat
    OBVIOUS
  <2>2. Len(failures) = 0 \/ Len(failures) = 1
    BY <2>1
  <2> QED
    BY <2>2
<1>2. id \in [places -> places] /\ Orders(id)
  BY <1>1
<1>3. order \in [places -> places]
  BY <1>2
<1>4. \A i \in places : order[i] = i
  BY <1>1, <1>3
<1>5. Sorted(failures) = [i \in places |-> failures[order[i]]]
  BY DEF Sorted
<1> HIDE DEF order
<1>6. [i \in places |-> failures[order[i]]] = [i \in places |-> failures[i]]
  BY <1>4
<1>7. failures = [i \in 1..Len(failures) |-> failures[i]]
  OBVIOUS
<1> QED
  BY <1>5, <1>6, <1>7

LEMMA DraftFields ==
  ASSUME NEW locals
  PROVE  DOMAIN Draft(locals) =
           {"level", "outcome", "canonicalStatus", "canonicalReason",
            "payoffStatus", "payoffReason", "side", "diff", "source", "reportId"}
BY DEF Draft

LEMMA ProjectionOfComplete ==
  ASSUME NEW locals, NEW id
  PROVE  /\ Projection(Complete(Draft(locals), id)) = Projection(Draft(locals))
         /\ Complete(Draft(locals), id).reportId = id
<1>1. PICK source :
         Complete(Draft(locals), id)
           = [Draft(locals) EXCEPT !.reportId = id, !.source = source]
  BY Zenon DEF Complete
<1> DEFINE draft == Draft(locals)
<1>2. DOMAIN draft =
           {"level", "outcome", "canonicalStatus", "canonicalReason",
            "payoffStatus", "payoffReason", "side", "diff", "source", "reportId"}
  BY DraftFields
<1> HIDE DEF draft
<1>3. Complete(draft, id)
           = [draft EXCEPT !.reportId = id, !.source = source]
  BY <1>1 DEF draft
<1>4. /\ DOMAIN Complete(draft, id) = DOMAIN draft
      /\ \A field \in DOMAIN draft \ {"source", "reportId"} :
           Complete(draft, id)[field] = draft[field]
      /\ Complete(draft, id)["reportId"] = id
  BY <1>2, <1>3
<1>5. Projection(Complete(draft, id)) = Projection(draft)
  BY <1>4 DEF Projection
<1> QED
  BY <1>4, <1>5 DEF draft

LEMMA StructuralErrorsAccepted ==
  ASSUME NEW e \in StructuralErrors
  PROVE  FailureAccepted(MapValidationError(e))
<1>1. /\ Code["ContractInputError"] = <<"contract", "input">>
      /\ Code["ContractTypeMismatchError"] = <<"contract", "input", "type_mismatch">>
      /\ Code["ContractValidationError"] = <<"contract", "validation">>
      /\ Code["ContractCycleError"] = <<"contract", "validation", "cycle">>
      /\ Code["ContractComplexityError"] = <<"contract", "validation", "complexity">>
  BY DEF Code
<1> DEFINE f == MapValidationError(e)
<1>2. f.stage = "structural" /\ f.code = Code[e]
  BY DEF MapValidationError, Failure
<1>3. CodeAccepted(f)
  <2>1. Namespaces[f.stage] = {<<"contract", "validation">>, <<"contract", "input">>}
    BY <1>2 DEF Namespaces
  <2> HIDE DEF f
  <2> QED
    BY <1>1, <1>2, <2>1 DEF StructuralErrors, CodeAccepted
<1>4. ClassificationAccepted(f)
  BY <1>1, <1>2 DEF StructuralErrors, ClassificationAccepted, EndsWith,
     MapValidationError, Failure, DefaultOf
<1> QED
  BY <1>3, <1>4 DEF FailureAccepted

LEMMA CanonicalErrorsAccepted ==
  ASSUME NEW e \in CanonicalErrors
  PROVE  FailureAccepted(MapCanonicalizationError(e))
<1>1. /\ Code["CanonicalizationError"] = <<"canonicalization", "error">>
      /\ Code["CanonicalizationInputError"] = <<"canonicalization", "input">>
      /\ Code["CanonicalizationNotValidatedError"]
           = <<"canonicalization", "input", "not_validated">>
      /\ Code["CanonicalizationCycleError"] = <<"canonicalization", "cycle">>
      /\ Code["CanonicalizationComplexityError"]
           = <<"canonicalization", "complexity">>
      /\ Code["CanonicalizationEncodingError"]
           = <<"canonicalization", "encoding">>
      /\ Code["CanonicalizationCollisionError"]
           = <<"canonicalization", "collision">>
  BY DEF Code
<1> DEFINE f == MapCanonicalizationError(e)
<1>2. f.stage = "canonical" /\ f.code = Code[e]
  BY DEF MapCanonicalizationError, Failure
<1>3. CodeAccepted(f)
  <2>1. Namespaces[f.stage] = {<<"canonicalization">>}
    BY <1>2 DEF Namespaces
  <2> HIDE DEF f
  <2> QED
    BY <1>1, <1>2, <2>1 DEF CanonicalErrors, CodeAccepted
<1>4. ClassificationAccepted(f)
  BY <1>1, <1>2 DEF CanonicalErrors, ClassificationAccepted, EndsWith,
     MapCanonicalizationError, Failure, DefaultOf
<1> QED
  BY <1>3, <1>4 DEF FailureAccepted

LEMMA PayoffErrorsAccepted ==
  ASSUME NEW e \in PayoffErrors
  PROVE  FailureAccepted(MapPayoffError(e))
<1>1. /\ Code["PayoffGraphInputError"] = <<"payoff_graph", "input">>
      /\ Code["PayoffGraphCompilationError"] = <<"payoff_graph", "compilation">>
      /\ Code["PayoffGraphComplexityError"] = <<"payoff_graph", "complexity">>
      /\ Code["PayoffGraphEncodingError"] = <<"payoff_graph", "encoding">>
      /\ Code["PayoffGraphCollisionError"] = <<"payoff_graph", "collision">>
  BY DEF Code
<1> DEFINE f == MapPayoffError(e)
<1>2. f.stage = "payoff" /\ f.code = Code[e]
  BY DEF MapPayoffError, Failure
<1>3. CodeAccepted(f)
  <2>1. Namespaces[f.stage] = {<<"payoff_graph">>}
    BY <1>2 DEF Namespaces
  <2> HIDE DEF f
  <2> QED
    BY <1>1, <1>2, <2>1 DEF PayoffErrors, CodeAccepted
<1>4. ClassificationAccepted(f)
  BY <1>1, <1>2 DEF PayoffErrors, ClassificationAccepted, EndsWith,
     MapPayoffError, Failure, DefaultOf
<1> QED
  BY <1>3, <1>4 DEF FailureAccepted
-----------------------------------------------------------------------------
(* The stages.                                                             *)

LEMMA LevelIsStage ==
  ASSUME Control, ConfigError = "none"
  PROVE  config.level \in Stages /\ config.diff = "none"
BY ConfigAssumption DEF Control, ConfigError, InputError

\* A side whose turn it is has been through the stages before this one.
LEMMA DoneSoFar ==
  ASSUME Control, pc \in Stages
  PROVE  /\ At("structural") => Done(turn) = {}
         /\ At("canonical") => Done(turn) = {"structural"}
         /\ At("payoff") => Done(turn) = {"structural", "canonical"}
         /\ result.kind = "none"
<1>1. result.kind = "none"
  BY DEF Control, Stages
<1>2. config.level \in Stages
  BY <1>1, LevelIsStage DEF Control, Stages
<1>3. Requested(pc)
  BY DEF Control
<1> QED
  BY <1>1, <1>2, <1>3 DEF Control, Done, Stages, Sides, Requested, StageIndex, At

LEMMA DoneProceeds ==
  ASSUME Control, pc \in Stages, Proceed, UNCHANGED <<config, result>>
  PROVE  /\ \A s \in Sides :
              Done(s)' = IF s = turn THEN Done(s) \cup {pc} ELSE Done(s)
         /\ pc' \in Stages \cup {"report"}
         /\ pc' \in Stages => Requested(pc)'
         /\ turn' \in Sides
         /\ pc' = "report" => turn' = "left"
<1>1. result.kind = "none"
  BY DEF Control, Stages
<1>2. config.level \in Stages
  BY <1>1, LevelIsStage DEF Control, Stages
<1>3. Requested(pc)
  BY DEF Control
<1>4. turn \in Sides
  BY DEF Control
<1>5. CASE turn = "left"
  BY <1>1, <1>2, <1>3, <1>5
     DEF Proceed, Done, Stages, Sides, Requested, StageIndex
<1>6. CASE turn = "right"
  <2>1. turn' = "left" /\ pc' = NextStage
    BY <1>6 DEF Proceed
  <2>2. CASE pc = "structural"
    BY <1>1, <1>2, <1>3, <1>6, <2>1, <2>2
       DEF NextStage, Done, Stages, Sides, Requested, StageIndex
  <2>3. CASE pc = "canonical"
    BY <1>1, <1>2, <1>3, <1>6, <2>1, <2>3
       DEF NextStage, Done, Stages, Sides, Requested, StageIndex
  <2>4. CASE pc = "payoff"
    BY <1>1, <1>2, <1>3, <1>6, <2>1, <2>4
       DEF NextStage, Done, Stages, Sides, Requested, StageIndex
  <2> QED
    BY <2>2, <2>3, <2>4 DEF Stages
<1> QED
  BY <1>4, <1>5, <1>6 DEF Sides

LEMMA Steady ==
  ASSUME UNCHANGED <<config, version, swapped>>
  PROVE  Draft(Truth(Earlier))' = Draft(Truth(Earlier))
<1>1. Earlier' = Earlier
  BY DEF Earlier
<1>2. AllRequested' = AllRequested
  BY DEF AllRequested, Requested
<1>3. Truth(Earlier)' = Truth(Earlier)
  BY <1>1, <1>2 DEF Truth
<1> DEFINE truth == Truth(Earlier)
<1> HIDE DEF truth
<1>4. truth' = truth
  BY <1>3 DEF truth
<1>5. Draft(truth)' = Draft(truth)
  BY <1>4 DEF Draft, Verdict, Requested
<1> QED
  BY <1>5 DEF truth

\* What a report is compared with does not change while a stage runs.
LEMMA ReportsKept ==
  ASSUME IInv, pc \in Stages,
         UNCHANGED <<config, reports>>, changes' = changes => UNCHANGED <<version>>,
         changes' \in Nat, changes' >= changes
  PROVE  (PreviousInv /\ EqualityInv)'
<1>1. equality = "none"
  BY DEF IInv, EqualityInv, Control, Stages
<1>2. EqualityInv'
  BY <1>1 DEF EqualityInv, reports
<1>3. (previous.kind = "report" => Identified(previous.report))'
  BY DEF IInv, PreviousInv, Identified, reports
<1>4. ASSUME previous.kind = "report", (changes = 0)'
      PROVE  (previous.report
                = Complete(Draft(Truth(Earlier)), previous.report.reportId))'
  <2>1. changes = 0 /\ UNCHANGED <<config, version, previous, swapped>>
    BY <1>4 DEF IInv, Control, reports
  <2>2. Draft(Truth(Earlier))' = Draft(Truth(Earlier))
    BY <2>1, Steady
  <2> QED
    BY <1>4, <2>1, <2>2 DEF IInv, PreviousInv
<1> QED
  BY <1>2, <1>3, <1>4 DEF IInv, PreviousInv, reports

LEMMA LearnPreserves ==
  ASSUME IInv, pc \in Stages, NEW locals, Learn(locals),
         NEW a \in seen[turn], NEW b \in seen[turn], NEW c \in seen[turn],
         locals = Locals(Done(turn) \cup {pc}, Mix(a, b, c)),
         locals.payoffId # NoId => c.contractId = b.contractId
  PROVE  IInv'
<1>1. /\ Proceed /\ sides' = [sides EXCEPT ![turn] = locals]
      /\ UNCHANGED <<config, version, result, reports, seen, changes>>
  BY DEF Learn, arguments, owners, reports
<1>2. result.kind = "none"
  BY DEF IInv, Control, Stages
<1>3. /\ \A s \in Sides :
              Done(s)' = IF s = turn THEN Done(s) \cup {pc} ELSE Done(s)
      /\ pc' \in Stages \cup {"report"}
      /\ pc' \in Stages => Requested(pc)'
      /\ turn' \in Sides
      /\ pc' = "report" => turn' = "left"
  BY <1>1, DoneProceeds DEF IInv
<1>4. ConfigError = "none" /\ ConfigError' = ConfigError
  BY <1>1, <1>2 DEF IInv, Control, Stages, ConfigError
<1>5. Control'
  BY <1>1, <1>2, <1>3, <1>4 DEF IInv, Control, Stages
<1>6. History'
  BY <1>1 DEF IInv, History
<1>7. SidesInv'
  <2>1. sides' = [s \in Sides |-> sides'[s]]
    BY <1>1 DEF IInv, SidesInv
  <2>2. ASSUME NEW s \in Sides PROVE SideInv(s)'
    <3>1. CASE s = turn
      <4>1. sides'[s] = locals
        BY <1>1, <3>1 DEF IInv, SidesInv
      <4>2. Done(s)' = Done(turn) \cup {pc} /\ Done(s)' \in SUBSET Stages
        BY <1>3, <3>1 DEF Done
      <4> QED
        BY <1>1, <3>1, <4>1, <4>2 DEF SideInv
    <3>2. CASE s # turn
      <4>1. sides'[s] = sides[s]
        BY <1>1, <3>2 DEF IInv, SidesInv
      <4>2. SideInv(s)
        BY DEF IInv, SidesInv
      <4>3. Done(s)' = Done(s)
        BY <1>3, <3>2
      <4> QED
        BY <1>1, <4>1, <4>2, <4>3 DEF SideInv
    <3> QED
      BY <3>1, <3>2
  <2> QED
    BY <2>1, <2>2 DEF SidesInv
<1>8. ResultInv'
  BY <1>1, <1>2, <1>3 DEF ResultInv, AnswersAsPromised, Stages,
     ComparisonError, MalformedError
<1>9. (PreviousInv /\ EqualityInv)'
  BY <1>1, ReportsKept DEF IInv, Control, reports
<1> QED
  BY <1>5, <1>6, <1>7, <1>8, <1>9 DEF IInv

\* The versions behind the side whose turn it is.
LEMMA Behind ==
  ASSUME IInv, pc \in Stages
  PROVE  /\ \E a, b, c \in seen[turn] :
              /\ Here = Locals(Done(turn), Mix(a, b, c))
              /\ Here.payoffId # NoId => c.contractId = b.contractId
         /\ Now \in seen[turn] /\ Now \in Versions
         /\ seen[turn] \subseteq Versions
<1>1. turn \in Sides /\ result.kind = "none"
  BY DEF IInv, Control, Stages
<1>2. SideInv(turn)
  BY <1>1 DEF IInv, SidesInv
<1> QED
  BY <1>1, <1>2 DEF IInv, Control, History, SideInv, Here, Now

Fields == {"outcome", "contractId", "payoffId", "structural", "canonical", "payoff"}

IsRecord(locals) ==
  DOMAIN locals = Fields /\ locals = [x \in Fields |-> locals[x]]

LEMMA RecordsAreRecords ==
  ASSUME NEW o, NEW c, NEW p, NEW fs, NEW fc, NEW fp
  PROVE  IsRecord([outcome |-> o, contractId |-> c, payoffId |-> p,
                   structural |-> fs, canonical |-> fc, payoff |-> fp])
BY DEF IsRecord, Fields

LEMMA Updated ==
  ASSUME NEW old, NEW new, IsRecord(old), IsRecord(new),
         NEW x \in Fields, NEW y \in Fields,
         \A z \in Fields \ {x, y} : new[z] = old[z]
  PROVE  new = [old EXCEPT ![x] = new[x], ![y] = new[y]]
<1> DEFINE updated == [old EXCEPT ![x] = new[x], ![y] = new[y]]
<1>1. DOMAIN updated = Fields /\ updated = [z \in Fields |-> updated[z]]
  BY DEF IsRecord
<1>2. \A z \in Fields : updated[z] = new[z]
  BY DEF IsRecord
<1>3. [z \in Fields |-> updated[z]] = [z \in Fields |-> new[z]]
  BY <1>2
<1>4. updated = new
  BY <1>1, <1>3 DEF IsRecord
<1> QED
  BY <1>4

LEMMA StructuralPreserves ==
  ASSUME IInv, ValidationPasses \/ ValidationFails
  PROVE  IInv'
<1>1. pc = "structural" /\ pc \in Stages
  BY DEF ValidationPasses, ValidationFails, At, Stages
<1>2. PICK a, b, c \in seen[turn] : Here = Locals({}, Mix(a, b, c))
  BY <1>1, Behind, DoneSoFar DEF IInv, At
<1>3. Now \in seen[turn]
  BY <1>1, Behind
<1> DEFINE locals == Locals({"structural"}, Mix(Now, b, c))
<1>4. /\ locals.payoffId = NoId
      /\ Done(turn) \cup {pc} = {"structural"}
  BY <1>1, DoneSoFar DEF IInv, At, Locals, Compiled
<1>5. Learn(locals)
  <2>1. CASE ValidationPasses
    <3>1. Here = locals
      BY <1>2, <2>1 DEF ValidationPasses, Locals, Mix, Valid, Canonical, Compiled
    <3> QED
      BY <2>1, <3>1 DEF ValidationPasses
  <2>2. CASE ValidationFails
    <3>1. Now.structural \in StructuralErrors /\ Now.structural # "valid"
      BY <2>2 DEF ValidationFails, StructuralErrors
    <3> DEFINE f == MapValidationError(Now.structural)
    <3>2. [Here EXCEPT !.outcome = "invalid", !.structural = <<f>>] = locals
      <4>1. Here = Fresh
        BY <1>2 DEF Locals, Valid, Canonical, Compiled, Fresh
      <4>2. locals = [outcome |-> "invalid", contractId |-> NoId, payoffId |-> NoId,
                      structural |-> <<f>>, canonical |-> << >>, payoff |-> << >>]
        BY <3>1 DEF Locals, Mix, Valid, Canonical, Compiled
      <4>3. IsRecord(Here) /\ IsRecord(locals)
        BY <4>1, <4>2, RecordsAreRecords DEF Fresh
      <4>4. \A z \in Fields \ {"outcome", "structural"} : locals[z] = Here[z]
        BY <4>1, <4>2 DEF Fresh, Fields
      <4>5. locals.outcome = "invalid" /\ locals.structural = <<f>>
        BY <4>2
      <4> HIDE DEF f, locals
      <4>6. locals = [Here EXCEPT !["outcome"] = locals["outcome"],
                                  !["structural"] = locals["structural"]]
        BY <4>3, <4>4, Updated DEF Fields
      <4> QED
        BY <4>5, <4>6
    <3>3. FailureAccepted(f)
      BY <3>1, StructuralErrorsAccepted
    <3> QED
      BY <2>2, <3>2, <3>3 DEF ValidationFails, Capture
  <2> QED
    BY <2>1, <2>2
<1> HIDE DEF locals
<1>6. locals = Locals(Done(turn) \cup {pc}, Mix(Now, b, c))
  BY <1>4 DEF locals
<1> QED
  BY <1>1, <1>3, <1>4, <1>5, <1>6, LearnPreserves

LEMMA CanonicalPreserves ==
  ASSUME IInv,
         CanonicalizationSkipped \/ CanonicalizationPasses \/ CanonicalizationFails
  PROVE  IInv'
<1>1. pc = "canonical" /\ pc \in Stages
  BY DEF CanonicalizationSkipped, CanonicalizationPasses, CanonicalizationFails,
     At, Stages
<1>2. PICK a, b, c \in seen[turn] : Here = Locals({"structural"}, Mix(a, b, c))
  BY <1>1, Behind, DoneSoFar DEF IInv, At
<1>3. Now \in seen[turn]
  BY <1>1, Behind
<1> DEFINE done == {"structural", "canonical"}
           locals == Locals(done, Mix(a, Now, c))
<1>4. /\ locals.payoffId = NoId
      /\ Done(turn) \cup {pc} = done
  BY <1>1, DoneSoFar DEF IInv, At, Locals, Compiled
<1>5. StructurallyValid(Here) <=> a.structural = "valid"
  BY <1>2 DEF StructurallyValid, Locals, Mix, Valid
<1>6. Learn(locals)
  <2>1. CASE CanonicalizationSkipped
    <3>1. Here = locals
      BY <1>2, <1>5, <2>1 DEF CanonicalizationSkipped, Locals, Mix, Valid,
         Canonical, Compiled
    <3> QED
      BY <2>1, <3>1 DEF CanonicalizationSkipped
  <2>2. CASE CanonicalizationPasses
    <3>1. [Here EXCEPT !.contractId = Now.contractId] = locals
      BY <1>2, <1>5, <2>2 DEF CanonicalizationPasses, Locals, Mix, Valid,
         Canonical, Compiled
    <3> QED
      BY <2>2, <3>1 DEF CanonicalizationPasses
  <2>3. CASE CanonicalizationFails
    <3>1. Now.canonical \in CanonicalErrors /\ Now.canonical # "canonical"
      BY <2>3 DEF CanonicalizationFails, CanonicalErrors
    <3> DEFINE f == MapCanonicalizationError(Now.canonical)
    <3>2. [Here EXCEPT !.canonical = <<f>>] = locals
      BY <1>2, <1>5, <2>3, <3>1 DEF CanonicalizationFails, Locals, Mix, Valid,
         Canonical, Compiled
    <3>3. FailureAccepted(f)
      BY <3>1, CanonicalErrorsAccepted
    <3> QED
      BY <2>3, <3>2, <3>3 DEF CanonicalizationFails, Capture
  <2> QED
    BY <2>1, <2>2, <2>3
<1> HIDE DEF locals
<1>7. locals = Locals(Done(turn) \cup {pc}, Mix(a, Now, c))
  BY <1>4 DEF locals
<1> QED
  BY <1>1, <1>3, <1>4, <1>6, <1>7, LearnPreserves

LEMMA PayoffPreserves ==
  ASSUME IInv, CompilationSkipped \/ CompilationPasses \/ CompilationFails
  PROVE  IInv'
<1>1. pc = "payoff" /\ pc \in Stages
  BY DEF CompilationSkipped, CompilationPasses, CompilationFails, At, Stages
<1> DEFINE before == {"structural", "canonical"}
<1>2. PICK a, b, c \in seen[turn] : Here = Locals(before, Mix(a, b, c))
  BY <1>1, Behind, DoneSoFar DEF IInv, At
<1>3. Now \in seen[turn] /\ Now \in Versions /\ b \in Versions
  BY <1>1, Behind
<1> DEFINE done == {"structural", "canonical", "payoff"}
           locals == Locals(done, Mix(a, b, Now))
<1>4. Done(turn) \cup {pc} = done
  BY <1>1, DoneSoFar DEF IInv, At
<1>5. /\ CanonicallyValid(Here) <=> a.structural = "valid" /\ b.canonical = "canonical"
      /\ CanonicallyValid(Here) => Here.contractId = b.contractId
  BY <1>2, <1>3, VersionAssumption
     DEF CanonicallyValid, Locals, Mix, Valid, Canonical, NoId
<1>6. Learn(locals) /\ (locals.payoffId # NoId => Now.contractId = b.contractId)
  <2>1. CASE CompilationSkipped
    <3>1. Here = locals
      BY <1>2, <1>5, <2>1 DEF CompilationSkipped, Locals, Mix, Valid,
         Canonical, Compiled
    <3>2. locals.payoffId = NoId
      BY <1>5, <2>1 DEF CompilationSkipped, Locals, Mix, Valid, Canonical, Compiled
    <3> QED
      BY <2>1, <3>1, <3>2 DEF CompilationSkipped
  <2>2. CASE CompilationPasses
    <3>1. [Here EXCEPT !.payoffId = Now.payoffId] = locals
      <4>1. a.structural = "valid" /\ b.canonical = "canonical"
        BY <1>5, <2>2 DEF CompilationPasses
      <4>2. Here = [outcome |-> "valid", contractId |-> b.contractId,
                    payoffId |-> NoId,
                    structural |-> << >>, canonical |-> << >>, payoff |-> << >>]
        BY <1>2, <4>1 DEF Locals, Mix, Valid, Canonical, Compiled
      <4>3. locals = [outcome |-> "valid", contractId |-> b.contractId,
                      payoffId |-> Now.payoffId,
                      structural |-> << >>, canonical |-> << >>, payoff |-> << >>]
        BY <2>2, <4>1 DEF CompilationPasses, Locals, Mix, Valid, Canonical, Compiled
      <4>4. IsRecord(Here) /\ IsRecord(locals)
        BY <4>2, <4>3, RecordsAreRecords
      <4>5. \A z \in Fields \ {"payoffId"} : locals[z] = Here[z]
        BY <4>2, <4>3 DEF Fields
      <4>6. locals.payoffId = Now.payoffId
        BY <4>3
      <4> HIDE DEF locals
      <4>7. locals = [Here EXCEPT !["payoffId"] = locals["payoffId"],
                                  !["payoffId"] = locals["payoffId"]]
        BY <4>4, <4>5, Updated DEF Fields
      <4> QED
        BY <4>4, <4>6, <4>7
    <3> QED
      BY <1>5, <2>2, <3>1 DEF CompilationPasses
  <2>3. CASE CompilationFails
    <3>1. Now.payoff \in PayoffErrors /\ Now.payoff # "payoff graph"
      BY <2>3 DEF CompilationFails, PayoffErrors
    <3> DEFINE f == MapPayoffError(Now.payoff)
    <3>2. [Here EXCEPT !.payoff = <<f>>] = locals
      <4>1. a.structural = "valid" /\ b.canonical = "canonical"
        BY <1>5, <2>3 DEF CompilationFails
      <4>2. Here = [outcome |-> "valid", contractId |-> b.contractId,
                    payoffId |-> NoId,
                    structural |-> << >>, canonical |-> << >>, payoff |-> << >>]
        BY <1>2, <4>1 DEF Locals, Mix, Valid, Canonical, Compiled
      <4>3. locals = [outcome |-> "valid", contractId |-> b.contractId,
                      payoffId |-> NoId, structural |-> << >>,
                      canonical |-> << >>, payoff |-> <<f>>]
        BY <3>1, <4>1 DEF Locals, Mix, Valid, Canonical, Compiled
      <4>4. IsRecord(Here) /\ IsRecord(locals)
        BY <4>2, <4>3, RecordsAreRecords
      <4>5. \A z \in Fields \ {"payoff"} : locals[z] = Here[z]
        BY <4>2, <4>3 DEF Fields
      <4>6. locals.payoff = <<f>>
        BY <4>3
      <4> HIDE DEF f, locals
      <4>7. locals = [Here EXCEPT !["payoff"] = locals["payoff"],
                                  !["payoff"] = locals["payoff"]]
        BY <4>4, <4>5, Updated DEF Fields
      <4> QED
        BY <4>4, <4>6, <4>7
    <3>3. FailureAccepted(f)
      BY <3>1, PayoffErrorsAccepted
    <3>4. locals.payoffId = NoId
      BY <3>1 DEF Locals, Mix, Compiled
    <3> QED
      BY <2>3, <3>2, <3>3, <3>4 DEF CompilationFails, Capture
  <2> QED
    BY <2>1, <2>2, <2>3
<1> HIDE DEF locals
<1>7. locals = Locals(Done(turn) \cup {pc}, Mix(a, b, Now))
  BY <1>4 DEF locals
<1> QED
  BY <1>1, <1>3, <1>6, <1>7, LearnPreserves

-----------------------------------------------------------------------------
(* Errors.                                                                 *)

Internal == {InputError, ComparisonError, MalformedError,
             "ValidationEquivalenceUnsupportedLevelError"}

\* An error keeps the invariant if it is the promised answer.
LEMMA RaisePreserves ==
  ASSUME IInv, pc \in {"config"} \cup Stages, NEW kind \in Internal, Raise(kind),
         UNCHANGED <<arguments, reports, owners>>, AnswersAsPromised'
  PROVE  IInv'
<1>1. /\ pc' = "done" /\ result' = [kind |-> kind]
      /\ UNCHANGED <<config, version, turn, sides, reportDigests, previous,
                     equality, swapped, seen, changes>>
  BY DEF Raise, arguments, reports, owners
<1>2. result'.kind \notin {"none", "report"} /\ result.kind = "none"
  BY <1>1 DEF Internal, InputError, ComparisonError, MalformedError, IInv,
     Control, Stages
<1>3. Control'
  BY <1>1, <1>2 DEF IInv, Control, Stages
<1>4. History'
  BY <1>1 DEF IInv, History
<1>5. SidesInv'
  <2>1. ASSUME NEW s \in Sides PROVE SideInv(s)'
    <3>1. SideInv(s)
      BY DEF IInv, SidesInv
    <3> QED
      BY <1>1, <1>2, <3>1 DEF SideInv
  <2> QED
    BY <1>1, <2>1 DEF IInv, SidesInv
<1>6. ResultInv'
  BY <1>2 DEF ResultInv
<1>7. EqualityInv'
  BY <1>1, <1>2 DEF IInv, EqualityInv
<1>8. PreviousInv'
  <2>1. Draft(Truth(Earlier))' = Draft(Truth(Earlier))
    BY <1>1, Steady
  <2> QED
    BY <1>1, <2>1 DEF IInv, PreviousInv, Identified
<1> QED
  BY <1>3, <1>4, <1>5, <1>6, <1>7, <1>8 DEF IInv

LEMMA RejectPreserves ==
  ASSUME IInv, RejectConfig
  PROVE  IInv'
<1>1. pc = "config" /\ UNCHANGED <<arguments, reports, owners>>
  BY DEF RejectConfig
<1>2. ConfigError \in {InputError, "ValidationEquivalenceUnsupportedLevelError"}
  BY DEF RejectConfig, ConfigError
<1>3. ConfigError' = ConfigError
  BY <1>1 DEF ConfigError, arguments
<1>4. AnswersAsPromised'
  BY <1>2, <1>3 DEF RejectConfig, Raise, AnswersAsPromised, InputError,
     ComparisonError, MalformedError
<1> QED
  BY <1>1, <1>2, <1>4, RaisePreserves DEF RejectConfig, Internal

LEMMA MismatchPreserves ==
  ASSUME IInv, CompilationMismatch
  PROVE  IInv'
<1>1. /\ pc = "payoff" /\ pc \in Stages /\ turn \in Sides
      /\ UNCHANGED <<arguments, reports, owners>> /\ Raise(MalformedError)
  BY DEF CompilationMismatch, At, Stages, IInv, Control
<1>2. PICK a, b, c \in seen[turn] :
         Here = Locals({"structural", "canonical"}, Mix(a, b, c))
  BY <1>1, Behind, DoneSoFar DEF IInv, At
<1>3. Here.contractId = b.contractId
  BY <1>2 DEF CompilationMismatch, CanonicallyValid, Locals, Mix
<1>4. Now \in seen[turn] /\ Now.contractId # b.contractId
  BY <1>1, <1>3, Behind DEF CompilationMismatch
<1>5. AnswersAsPromised'
  BY <1>1, <1>4 DEF Raise, AnswersAsPromised, ComparisonError, MalformedError, owners
<1> QED
  BY <1>1, <1>5, RaisePreserves DEF Internal

LEMMA SecondCanonicalizationPreserves ==
  ASSUME IInv, SecondCanonicalizationFails
  PROVE  IInv'
<1>1. /\ pc = "payoff" /\ pc \in Stages /\ turn \in Sides
      /\ UNCHANGED <<arguments, reports, owners>> /\ Raise(ComparisonError)
  BY DEF SecondCanonicalizationFails, At, Stages, IInv, Control
<1>2. PICK a, b, c \in seen[turn] :
         Here = Locals({"structural", "canonical"}, Mix(a, b, c))
  BY <1>1, Behind, DoneSoFar DEF IInv, At
<1>3. b.canonical = "canonical"
  BY <1>2 DEF SecondCanonicalizationFails, CanonicallyValid, Locals, Mix, Canonical
<1>4. Now \in seen[turn] /\ Now.canonical \in CanonicalErrors
  BY <1>1, Behind DEF SecondCanonicalizationFails
<1>5. Now # b
  BY <1>3, <1>4 DEF CanonicalErrors
<1>6. Cardinality(seen[turn]) > 1
  <2>1. IsFiniteSet(seen[turn])
    BY <1>1 DEF IInv, History
  <2>2. Cardinality(seen[turn]) # 0
    BY <1>4, <2>1, FS_EmptySet
  <2>3. Cardinality(seen[turn]) # 1
    BY <1>4, <1>5, <2>1, FS_Singleton
  <2>4. Cardinality(seen[turn]) \in Nat
    BY <2>1, FS_CardinalityType
  <2> QED
    BY <2>2, <2>3, <2>4
<1>7. AnswersAsPromised'
  BY <1>1, <1>4, <1>6 DEF Raise, AnswersAsPromised, ComparisonError,
     MalformedError, owners
<1> QED
  BY <1>1, <1>7, RaisePreserves DEF Internal

LEMMA BreaksPreserves ==
  ASSUME IInv, StageBreaks
  PROVE  IInv'
<1>1. /\ pc \in Stages /\ turn \in Sides
      /\ UNCHANGED <<arguments, reports, owners>> /\ Raise(ComparisonError)
  BY DEF StageBreaks, At, Stages, IInv, Control
<1>2. "PythonError" \in {Now.structural, Now.canonical, Now.payoff}
  BY DEF StageBreaks
<1>3. Now \in seen[turn]
  BY <1>1, Behind
<1>4. AnswersAsPromised'
  BY <1>1, <1>2, <1>3 DEF Raise, AnswersAsPromised, ComparisonError,
     MalformedError, owners
<1> QED
  BY <1>1, <1>4, RaisePreserves DEF Internal

-----------------------------------------------------------------------------
(* The callers and their arguments.                                        *)

LEMMA AcceptPreserves ==
  ASSUME IInv, AcceptConfig
  PROVE  IInv'
<1>1. /\ pc = "config" /\ pc' = "structural" /\ turn = "left"
      /\ UNCHANGED <<config, version, turn, sides, result, reportDigests,
                     previous, equality, swapped, seen, changes>>
  BY DEF AcceptConfig, arguments, reports, owners, IInv, Control, Stages
<1>2. result.kind = "none"
  BY <1>1 DEF IInv, Control
<1>3. config.level \in Stages
  BY LevelIsStage DEF AcceptConfig, IInv
<1>4. Control'
  BY <1>1, <1>2, <1>3 DEF AcceptConfig, ConfigError, IInv, Control, Stages,
     Requested, StageIndex
<1>5. History'
  BY <1>1 DEF IInv, History
<1>6. SidesInv'
  <2>1. ASSUME NEW s \in Sides PROVE SideInv(s)'
    <3>1. SideInv(s)
      BY DEF IInv, SidesInv
    <3>2. Done(s)' = Done(s)
      BY <1>1, <1>2 DEF Done, Stages, StageIndex, Requested
    <3> QED
      BY <1>1, <1>2, <3>1, <3>2 DEF SideInv
  <2> QED
    BY <1>1, <2>1 DEF IInv, SidesInv
<1>7. ResultInv'
  BY <1>1, <1>2 DEF ResultInv, AnswersAsPromised, ComparisonError, MalformedError
<1>8. EqualityInv'
  BY <1>1 DEF IInv, EqualityInv
<1>9. PreviousInv'
  <2>1. Draft(Truth(Earlier))' = Draft(Truth(Earlier))
    BY <1>1, Steady
  <2> QED
    BY <1>1, <2>1 DEF IInv, PreviousInv, Identified
<1> QED
  BY <1>4, <1>5, <1>6, <1>7, <1>8, <1>9 DEF IInv

LEMMA ChangePreserves ==
  ASSUME IInv, NEW changed \in SUBSET Sides \ {{}}, Change(changed)
  PROVE  IInv'
<1>1. /\ pc \in Stages /\ changes' = changes + 1 /\ changes < MaxChanges
      /\ UNCHANGED <<config, pc, turn, sides, result, reports>>
  BY DEF Change
<1>2. PICK v \in Versions :
         version' = [s \in Sides |-> IF s \in changed THEN v ELSE version[s]]
  BY DEF Change
<1>3. seen' = [s \in Sides |-> seen[s] \cup {version'[s]}]
  BY DEF Change
<1>4. result.kind = "none" /\ changes \in Nat /\ changes' \in 0..MaxChanges
  BY <1>1, ConfigAssumption DEF IInv, Control, Stages
<1>5. version' \in [Sides -> Versions]
  BY <1>2 DEF IInv, Control
<1>6. Control'
  BY <1>1, <1>4, <1>5 DEF IInv, Control, ConfigError, Requested
<1>7. History'
  <2>1. ASSUME NEW s \in Sides
        PROVE  IsFiniteSet(seen'[s]) /\ version'[s] \in seen'[s]
    <3>1. seen'[s] = seen[s] \cup {version'[s]}
      BY <1>3
    <3> QED
      BY <3>1, FS_AddElement DEF IInv, History
  <2>2. seen' \in [Sides -> SUBSET Versions]
    BY <1>3, <1>5 DEF IInv, History
  <2> QED
    BY <1>1, <1>4, <2>1, <2>2 DEF History
<1>8. SidesInv'
  <2>1. ASSUME NEW s \in Sides PROVE SideInv(s)'
    <3>1. SideInv(s)
      BY DEF IInv, SidesInv
    <3>2. Done(s)' = Done(s)
      BY <1>1 DEF Done, Requested
    <3>3. seen[s] \subseteq seen'[s]
      BY <1>3
    <3> QED
      BY <1>1, <1>4, <3>1, <3>2, <3>3 DEF SideInv
  <2> QED
    BY <1>1, <2>1 DEF IInv, SidesInv
<1>9. ResultInv'
  BY <1>1, <1>4 DEF ResultInv, AnswersAsPromised, ComparisonError,
     MalformedError, Stages
<1>10. (PreviousInv /\ EqualityInv)'
  BY <1>1, <1>4, ReportsKept
<1> QED
  BY <1>6, <1>7, <1>8, <1>9, <1>10 DEF IInv

-----------------------------------------------------------------------------
(* The report.                                                             *)

LEMMA DraftOf ==
  ASSUME NEW locals
  PROVE  LET draft == Draft(locals)
         IN  /\ draft.level = config.level /\ draft.diff = config.diff
             /\ draft.outcome = [s \in Sides |-> locals[s].outcome]
             /\ draft.canonicalStatus = Verdict("canonical",
                  locals["left"].contractId, locals["right"].contractId)
             /\ draft.canonicalReason = ReasonFor(draft.canonicalStatus)
             /\ draft.payoffStatus = Verdict("payoff",
                  locals["left"].payoffId, locals["right"].payoffId)
             /\ draft.payoffReason = ReasonFor(draft.payoffStatus)
             /\ draft.side = [s \in Sides |->
                   [contractId |-> locals[s].contractId,
                    payoffId |-> locals[s].payoffId,
                    failures |-> AllFailures(locals[s])]]
BY DEF Draft

LEMMA VerdictCoherent ==
  ASSUME NEW stage, NEW a, NEW b
  PROVE  Coherent(Verdict(stage, a, b), ReasonFor(Verdict(stage, a, b)))
<1>1. Verdict(stage, a, b) \in Statuses
  BY DEF Verdict, Statuses
<1> QED
  BY <1>1 DEF Coherent, ReasonFor, Statuses

\* A side fails once at most.
LEMMA OneFailure ==
  ASSUME NEW done, NEW v
  PROVE  LET failures == AllFailures(Locals(done, v))
         IN  /\ "structural" \in done /\ ~Valid(done, v) =>
                  failures = <<MapValidationError(v.structural)>>
             /\ Valid(done, v) /\ "canonical" \in done /\ ~Canonical(done, v) =>
                  failures = <<MapCanonicalizationError(v.canonical)>>
             /\ Canonical(done, v) /\ "payoff" \in done /\ ~Compiled(done, v) =>
                  failures = <<MapPayoffError(v.payoff)>>
             /\ \/ failures = << >>
                \/ \E f : failures = <<f>>
             /\ failures = << >> <=>
                  /\ "structural" \in done => Valid(done, v)
                  /\ Valid(done, v) /\ "canonical" \in done => Canonical(done, v)
                  /\ Canonical(done, v) /\ "payoff" \in done => Compiled(done, v)
<1> DEFINE locals == Locals(done, v)
           all == locals.structural \o locals.canonical \o locals.payoff
<1>1. AllFailures(locals) = Sorted(all)
  BY DEF AllFailures
<1>2. Sorted(<< >>) = << >>
  <2>1. << >> \in Seq({}) /\ Len(<< >>) <= 1
    OBVIOUS
  <2> QED
    BY <2>1, SortShort
<1>3. ASSUME NEW f PROVE Sorted(<<f>>) = <<f>>
  <2>1. <<f>> \in Seq({f}) /\ Len(<<f>>) <= 1
    OBVIOUS
  <2> QED
    BY <2>1, SortShort
<1>4. CASE "structural" \in done /\ ~Valid(done, v)
  <2>1. all = <<MapValidationError(v.structural)>>
    <3>1. /\ locals.structural = <<MapValidationError(v.structural)>>
          /\ locals.canonical = << >> /\ locals.payoff = << >>
      BY <1>4 DEF Locals, Canonical
    <3> HIDE DEF locals
    <3> QED
      BY <3>1
  <2> QED
    BY <1>1, <1>3, <1>4, <2>1 DEF Canonical
<1>5. CASE Valid(done, v) /\ "canonical" \in done /\ ~Canonical(done, v)
  <2>1. all = <<MapCanonicalizationError(v.canonical)>>
    <3>1. /\ locals.canonical = <<MapCanonicalizationError(v.canonical)>>
          /\ locals.structural = << >> /\ locals.payoff = << >>
      BY <1>5 DEF Locals
    <3> HIDE DEF locals
    <3> QED
      BY <3>1
  <2> QED
    BY <1>1, <1>3, <1>5, <2>1
<1>6. CASE Canonical(done, v) /\ "payoff" \in done /\ ~Compiled(done, v)
  <2>1. all = <<MapPayoffError(v.payoff)>>
    <3>1. /\ locals.payoff = <<MapPayoffError(v.payoff)>>
          /\ locals.structural = << >> /\ locals.canonical = << >>
      BY <1>6 DEF Locals, Canonical
    <3> HIDE DEF locals
    <3> QED
      BY <3>1
  <2> QED
    <3>1. Valid(done, v) /\ "structural" \in done /\ "canonical" \in done
      BY <1>6 DEF Canonical, Valid
    <3>2. AllFailures(locals) = <<MapPayoffError(v.payoff)>>
      BY <1>1, <1>3, <2>1
    <3> HIDE DEF locals
    <3>3. AllFailures(locals) # << >>
      BY <3>2
    <3> QED
      BY <1>6, <3>1, <3>2, <3>3 DEF locals
<1>7. CASE /\ "structural" \in done => Valid(done, v)
           /\ Valid(done, v) /\ "canonical" \in done => Canonical(done, v)
           /\ Canonical(done, v) /\ "payoff" \in done => Compiled(done, v)
  <2>1. all = << >>
    <3>1. /\ locals.payoff = << >>
          /\ locals.structural = << >> /\ locals.canonical = << >>
      BY <1>7 DEF Locals
    <3> HIDE DEF locals
    <3> QED
      BY <3>1
  <2> QED
    BY <1>1, <1>2, <1>7, <2>1
<1> QED
  BY <1>4, <1>5, <1>6, <1>7 DEF Canonical

LEMMA DraftAccepted ==
  ASSUME IInv, pc = "report"
  PROVE  PayloadAccepted(Draft(sides))
<1>1. config.level \in Stages /\ config.diff = "none"
  BY LevelIsStage DEF IInv, Control, Stages
<1>2. ASSUME NEW s \in Sides
      PROVE  sides[s].outcome \in Outcomes
             /\ Len(AllFailures(sides[s])) \in {0, 1}
  <2>1. PICK done \in SUBSET Stages, a \in seen[s], b \in seen[s], c \in seen[s] :
           sides[s] = Locals(done, Mix(a, b, c))
    BY DEF IInv, SidesInv, SideInv
  <2>2. sides[s].outcome \in Outcomes
    BY <2>1 DEF Locals, Outcomes
  <2>3. AllFailures(sides[s]) = << >> \/ \E f : AllFailures(sides[s]) = <<f>>
    BY <2>1, OneFailure
  <2>4. Len(AllFailures(sides[s])) \in {0, 1}
    <3>1. CASE AllFailures(sides[s]) = << >>
      BY <3>1
    <3>2. CASE \E f : AllFailures(sides[s]) = <<f>>
      <4>1. PICK f : AllFailures(sides[s]) = <<f>>
        BY <3>2
      <4> QED
        BY <4>1
    <3> QED
      BY <2>3, <3>1, <3>2
  <2> QED
    BY <2>2, <2>4
<1> DEFINE draft == Draft(sides)
<1>3. /\ draft.level = config.level /\ draft.diff = config.diff
      /\ draft.outcome = [s \in Sides |-> sides[s].outcome]
      /\ draft.canonicalStatus = Verdict("canonical",
           sides["left"].contractId, sides["right"].contractId)
      /\ draft.canonicalReason = ReasonFor(draft.canonicalStatus)
      /\ draft.payoffStatus = Verdict("payoff",
           sides["left"].payoffId, sides["right"].payoffId)
      /\ draft.payoffReason = ReasonFor(draft.payoffStatus)
      /\ draft.side = [s \in Sides |->
                   [contractId |-> sides[s].contractId,
                    payoffId |-> sides[s].payoffId,
                    failures |-> AllFailures(sides[s])]]
  BY DraftOf
<1> HIDE DEF draft
<1>4. ASSUME NEW s \in Sides
      PROVE  SideAccepted(draft.side[s]) /\ draft.outcome[s] \in Outcomes
  <2>1. Len(draft.side[s].failures) \in {0, 1} /\ draft.outcome[s] \in Outcomes
    BY <1>2, <1>3
  <2>2. \A i, j \in 1..Len(draft.side[s].failures) : ~(i < j)
    <3> DEFINE n == Len(draft.side[s].failures)
    <3>1. n \in {0, 1}
      BY <2>1
    <3> HIDE DEF n
    <3>2. \A i, j \in 1..n : ~(i < j)
      BY <3>1
    <3> QED
      BY <3>2 DEF n
  <2>3. SideAccepted(draft.side[s])
    BY <2>2, Zenon DEF SideAccepted
  <2> QED
    BY <2>1, <2>3
<1>5. /\ Coherent(draft.canonicalStatus, draft.canonicalReason)
      /\ Coherent(draft.payoffStatus, draft.payoffReason)
  BY <1>3, VerdictCoherent
<1>6. PayloadAccepted(draft)
  BY <1>1, <1>3, <1>4, <1>5 DEF PayloadAccepted, DiffAccepted
<1> QED
  BY <1>6 DEF draft

LEMMA BuildPreserves ==
  ASSUME IInv, BuildReport
  PROVE  IInv'
<1> DEFINE draft == Draft(sides)
           projection == Projection(draft)
<1>1. pc = "report" /\ result.kind = "none" /\ ConfigError = "none"
  BY DEF BuildReport, IInv, Control, Stages
<1>2. PayloadAccepted(draft)
  BY <1>1, DraftAccepted
<1>3. PICK id \in Answers(reportDigests, projection) :
        /\ reportDigests' = Extended(reportDigests, projection, id)
        /\ IF Verified(draft, id, reportDigests')
           THEN /\ result' = [kind |-> "report", report |-> Complete(draft, id)]
                /\ pc' = "done"
                /\ UNCHANGED <<turn, sides>>
           ELSE Raise("ValidationEquivalenceReportCollisionError")
  BY <1>2 DEF BuildReport
<1>4. reportDigests'[projection] = id /\ projection \in DOMAIN reportDigests'
  BY <1>3 DEF Extended
<1>5. /\ Projection(Complete(draft, id)) = projection
      /\ Complete(draft, id).reportId = id
  BY ProjectionOfComplete
<1>6. /\ result' = [kind |-> "report", report |-> Complete(draft, id)]
      /\ pc' = "done"
      /\ UNCHANGED <<turn, sides>>
  BY <1>3, <1>4, <1>5 DEF Verified
<1>7. UNCHANGED <<config, version, previous, equality, swapped, seen, changes>>
  BY DEF BuildReport, arguments, owners
<1>8. turn = "left" /\ ConfigError' = ConfigError
  BY <1>1, <1>7 DEF IInv, Control, Stages, ConfigError
<1>9. Control'
  BY <1>1, <1>6, <1>7, <1>8 DEF IInv, Control, Stages
<1>10. History'
  BY <1>7 DEF IInv, History
<1>11. SidesInv'
  <2>1. ASSUME NEW s \in Sides PROVE SideInv(s)'
    <3>1. SideInv(s)
      BY DEF IInv, SidesInv
    <3>2. Done(s)' = Done(s)
      BY <1>1, <1>6, <1>7 DEF Done, Requested
    <3> QED
      BY <1>1, <1>6, <1>7, <3>1, <3>2 DEF SideInv
  <2> QED
    BY <1>6, <2>1 DEF IInv, SidesInv
<1>12. ResultInv'
  <2>1. Draft(sides)' = draft
    BY <1>6, <1>7 DEF Draft, Verdict, Requested
  <2>2. {"side", "outcome"} \subseteq DOMAIN Complete(draft, id)
    BY DraftFields, Zenon DEF Complete
  <2>3. AnswersAsPromised'
    BY <1>1, <1>6, <1>8 DEF AnswersAsPromised, ComparisonError, MalformedError
  <2> QED
    BY <1>4, <1>5, <1>6, <2>1, <2>2, <2>3 DEF ResultInv, Identified
<1>13. EqualityInv'
  BY <1>1, <1>7 DEF IInv, EqualityInv
<1>14. PreviousInv'
  <2>1. Draft(Truth(Earlier))' = Draft(Truth(Earlier))
    BY <1>7, Steady
  <2>2. ASSUME NEW x \in DOMAIN reportDigests
        PROVE  x \in DOMAIN reportDigests' /\ reportDigests'[x] = reportDigests[x]
    BY <1>3 DEF Extended, Answers
  <2> QED
    BY <1>7, <2>1, <2>2 DEF IInv, PreviousInv, Identified
<1> QED
  BY <1>9, <1>10, <1>11, <1>12, <1>13, <1>14 DEF IInv

\* In a report, sides nobody touched know what is true of them.
LEMMA UndisturbedSides ==
  ASSUME Control, SidesInv, result.kind = "report",
         \A s \in Sides : seen[s] = {version[s]}
  PROVE  sides = Truth(version)
<1>1. ASSUME NEW s \in Sides
      PROVE  sides[s]
               = Locals(AllRequested, Mix(version[s], version[s], version[s]))
  <2>1. SideInv(s)
    BY DEF SidesInv
  <2>2. Done(s) = AllRequested
    BY DEF Done, AllRequested
  <2> QED
    BY <2>1, <2>2 DEF SideInv
<1> QED
  BY <1>1 DEF SidesInv, Truth

LEMMA CallAgainPreserves ==
  ASSUME IInv, CallAgain
  PROVE  IInv'
<1>1. /\ pc = "done" /\ result.kind = "report" /\ ConfigError = "none"
      /\ pc' = "config" /\ turn' = "left" /\ previous' = result
      /\ sides' = [s \in Sides |-> Fresh] /\ result' = NoReport
      /\ UNCHANGED <<config, reportDigests, equality, changes>>
  BY DEF CallAgain, IInv, Control
<1>2. version' = [s \in Sides |-> version[IF swapped' THEN Other(s) ELSE s]]
  BY DEF CallAgain
<1>3. seen' = [s \in Sides |-> {version'[s]}]
  BY DEF CallAgain
<1>4. result'.kind = "none" /\ ConfigError' = ConfigError
  BY <1>1, Zenon DEF NoReport, ConfigError
<1>5. version' \in [Sides -> Versions]
  BY <1>2 DEF IInv, Control, Other, Sides
<1>6. Control'
  BY <1>1, <1>4, <1>5 DEF IInv, Control, Stages, Sides
<1>7. History'
  <2>1. ASSUME NEW s \in Sides PROVE IsFiniteSet(seen'[s])
    BY <1>3, FS_Singleton
  <2> QED
    BY <1>3, <1>5, <2>1 DEF History
<1>8. SidesInv'
  <2>1. ASSUME NEW s \in Sides PROVE SideInv(s)'
    <3>1. Done(s)' = {} /\ version'[s] \in seen'[s]
      BY <1>1, <1>3, <1>4 DEF Done, Stages
    <3>2. Locals({}, Mix(version'[s], version'[s], version'[s])) = Fresh
      BY DEF Locals, Valid, Canonical, Compiled, Fresh
    <3>3. sides'[s] = Fresh /\ Fresh.payoffId = NoId
      BY <1>1 DEF Fresh
    <3> QED
      BY <3>1, <3>2, <3>3 DEF SideInv
  <2> QED
    BY <1>1, <2>1 DEF SidesInv
<1>9. ResultInv'
  BY <1>1, <1>4 DEF ResultInv, AnswersAsPromised, ComparisonError, MalformedError
<1>10. equality = "none"
  BY DEF CallAgain, NoReport, IInv, EqualityInv
<1>11. EqualityInv'
  BY <1>1, <1>10 DEF EqualityInv
<1>12. PreviousInv'
  <2>1. /\ result.report = Complete(Draft(sides), result.report.reportId)
        /\ Identified(result.report)
    BY <1>1 DEF IInv, ResultInv
  <2>2. Identified(previous.report)'
    BY <1>1, <2>1 DEF Identified
  <2>3. ASSUME changes = 0
        PROVE  (previous.report
                 = Complete(Draft(Truth(Earlier)), previous.report.reportId))'
    <3>1. Earlier' = version
      BY <1>2 DEF Earlier, Other, Sides, IInv, Control
    <3>2. AllRequested' = AllRequested
      BY <1>1 DEF AllRequested, Requested
    <3>3. Truth(Earlier)' = Truth(version)
      BY <3>1, <3>2 DEF Truth
    <3>4. Truth(version) = sides
      BY <1>1, <2>3, UndisturbedSides DEF IInv, History
    <3>5. Truth(Earlier)' = sides
      BY <3>3, <3>4
    <3> DEFINE truth == Truth(Earlier)
    <3> HIDE DEF truth
    <3>6. Draft(truth)' = Draft(sides)
      BY <1>1, <3>5 DEF Draft, Verdict, Requested, truth
    <3> QED
      BY <1>1, <2>1, <3>6 DEF truth
  <2> QED
    BY <1>1, <2>2, <2>3 DEF PreviousInv
<1> QED
  BY <1>6, <1>7, <1>8, <1>9, <1>11, <1>12 DEF IInv

LEMMA ComparePreserves ==
  ASSUME IInv, CompareReports
  PROVE  IInv'
<1>1. UNCHANGED <<config, version, pc, turn, sides, result, reportDigests,
                  previous, swapped, seen, changes>>
  BY DEF CompareReports, arguments, owners
<1>2. EqualityInv'
  BY <1>1 DEF CompareReports, EqualityInv
<1>3. (Control /\ History)'
  BY <1>1 DEF IInv, Control, History, ConfigError, Requested
<1>4. SidesInv'
  BY <1>1 DEF IInv, SidesInv, SideInv, Done, Requested
<1>5. ResultInv'
  BY <1>1 DEF IInv, ResultInv, Identified, AnswersAsPromised, ConfigError, Draft,
     Verdict, Requested
<1>6. PreviousInv'
  <2>1. Draft(Truth(Earlier))' = Draft(Truth(Earlier))
    BY <1>1, Steady
  <2> QED
    BY <1>1, <2>1 DEF IInv, PreviousInv, Identified
<1> QED
  BY <1>2, <1>3, <1>4, <1>5, <1>6 DEF IInv

-----------------------------------------------------------------------------
(* The invariant holds.                                                    *)

LEMMA InitEstablishes ==
  ASSUME Init
  PROVE  IInv
<1>1. /\ pc = "config" /\ turn = "left" /\ result.kind = "none"
      /\ previous.kind = "none" /\ equality = "none" /\ changes = 0
      /\ config \in Configs /\ version \in [Sides -> Versions]
  BY DEF Init, NoReport
<1>2. Control
  BY <1>1, ConfigAssumption DEF Control, Stages, Sides
<1>3. History
  <2>1. ASSUME NEW s \in Sides PROVE IsFiniteSet(seen[s])
    BY FS_Singleton DEF Init
  <2> QED
    BY <1>1, <2>1 DEF Init, History
<1>4. SidesInv
  <2>1. ASSUME NEW s \in Sides PROVE SideInv(s)
    <3>1. Done(s) = {} /\ version[s] \in seen[s]
      BY <1>1 DEF Init, Done, Stages
    <3>2. Locals({}, Mix(version[s], version[s], version[s])) = Fresh
      BY DEF Locals, Valid, Canonical, Compiled, Fresh
    <3>3. sides[s] = Fresh /\ Fresh.payoffId = NoId
      BY DEF Init, Fresh
    <3> QED
      BY <3>1, <3>2, <3>3 DEF SideInv
  <2> QED
    BY <2>1 DEF Init, SidesInv
<1>5. ResultInv
  BY <1>1 DEF ResultInv, AnswersAsPromised, ComparisonError, MalformedError
<1>6. PreviousInv /\ EqualityInv
  BY <1>1 DEF Init, PreviousInv, EqualityInv
<1> QED
  BY <1>2, <1>3, <1>4, <1>5, <1>6 DEF IInv

LEMMA StutterPreserves ==
  ASSUME IInv, UNCHANGED vars
  PROVE  IInv'
<1>1. UNCHANGED <<config, version, pc, turn, sides, result, reportDigests,
                  previous, equality, swapped, seen, changes>>
  BY DEF vars
<1>2. (Control /\ History /\ EqualityInv)'
  BY <1>1 DEF IInv, Control, History, EqualityInv, ConfigError, Requested
<1>3. SidesInv'
  BY <1>1 DEF IInv, SidesInv, SideInv, Done, Requested
<1>4. ResultInv'
  BY <1>1 DEF IInv, ResultInv, Identified, AnswersAsPromised, ConfigError, Draft,
     Verdict, Requested
<1>5. PreviousInv'
  <2>1. Draft(Truth(Earlier))' = Draft(Truth(Earlier))
    BY <1>1, Steady
  <2> QED
    BY <1>1, <2>1 DEF IInv, PreviousInv, Identified
<1> QED
  BY <1>2, <1>3, <1>4, <1>5 DEF IInv

\* A call of _compare_contracts keeps the invariant whatever its stages find
\* and whoever changes the contracts between them.
THEOREM InvariantHolds == Spec => []IInv
<1>1. IInv /\ [Next]_vars => IInv'
  <2> SUFFICES ASSUME IInv, [Next]_vars PROVE IInv'
    OBVIOUS
  <2>1. CASE ValidationPasses \/ ValidationFails
    BY <2>1, StructuralPreserves
  <2>2. CASE CanonicalizationSkipped \/ CanonicalizationPasses \/ CanonicalizationFails
    BY <2>2, CanonicalPreserves
  <2>3. CASE CompilationSkipped \/ CompilationPasses \/ CompilationFails
    BY <2>3, PayoffPreserves
  <2>4. CASE CompilationMismatch
    BY <2>4, MismatchPreserves
  <2>5. CASE SecondCanonicalizationFails
    BY <2>5, SecondCanonicalizationPreserves
  <2>6. CASE StageBreaks
    BY <2>6, BreaksPreserves
  <2>7. CASE RejectConfig
    BY <2>7, RejectPreserves
  <2>8. CASE AcceptConfig
    BY <2>8, AcceptPreserves
  <2>9. CASE BuildReport
    BY <2>9, BuildPreserves
  <2>10. CASE \E changed \in SUBSET Sides \ {{}} : Change(changed)
    BY <2>10, ChangePreserves
  <2>11. CASE CallAgain
    BY <2>11, CallAgainPreserves
  <2>12. CASE CompareReports
    BY <2>12, ComparePreserves
  <2>13. CASE UNCHANGED vars
    BY <2>13, StutterPreserves
  <2> QED
    BY <2>1, <2>2, <2>3, <2>4, <2>5, <2>6, <2>7, <2>8, <2>9, <2>10, <2>11, <2>12,
       <2>13 DEF Next
<1> QED
  BY <1>1, InitEstablishes, PTL DEF Spec

-----------------------------------------------------------------------------
(* What follows from it.                                                   *)

LEMMA ReportOf ==
  ASSUME NEW locals, NEW id
  PROVE  LET report == Complete(Draft(locals), id)
         IN  /\ report.outcome = [s \in Sides |-> locals[s].outcome]
             /\ report.canonicalStatus = Verdict("canonical",
                  locals["left"].contractId, locals["right"].contractId)
             /\ report.payoffStatus = Verdict("payoff",
                  locals["left"].payoffId, locals["right"].payoffId)
             /\ report.side = [s \in Sides |->
                   [contractId |-> locals[s].contractId,
                    payoffId |-> locals[s].payoffId,
                    failures |-> AllFailures(locals[s])]]
<1> DEFINE report == Complete(Draft(locals), id)
           draft == Draft(locals)
<1>1. ASSUME NEW field \in {"outcome", "canonicalStatus", "payoffStatus", "side"}
      PROVE  report[field] = draft[field]
  <2>1. Projection(report) = Projection(draft)
    BY ProjectionOfComplete
  <2>2. DOMAIN report = DOMAIN draft /\ field \in DOMAIN draft \ {"source", "reportId"}
    <3>1. DOMAIN report = DOMAIN draft
      BY Zenon DEF Complete
    <3> QED
      BY <3>1, DraftFields
  <2> HIDE DEF report, draft
  <2>3. Projection(report)[field] = report[field]
    BY <2>2 DEF Projection
  <2>4. Projection(draft)[field] = draft[field]
    BY <2>2 DEF Projection
  <2> QED
    BY <2>1, <2>3, <2>4
<1>2. /\ draft.outcome = [s \in Sides |-> locals[s].outcome]
      /\ draft.canonicalStatus = Verdict("canonical",
           locals["left"].contractId, locals["right"].contractId)
      /\ draft.payoffStatus = Verdict("payoff",
           locals["left"].payoffId, locals["right"].payoffId)
      /\ draft.side = [s \in Sides |->
            [contractId |-> locals[s].contractId,
             payoffId |-> locals[s].payoffId,
             failures |-> AllFailures(locals[s])]]
  BY DraftOf
<1> HIDE DEF report, draft
<1>3. /\ report.outcome = draft.outcome
      /\ report.canonicalStatus = draft.canonicalStatus
      /\ report.payoffStatus = draft.payoffStatus
      /\ report.side = draft.side
  BY <1>1
<1>4. /\ report.outcome = [s \in Sides |-> locals[s].outcome]
      /\ report.canonicalStatus = Verdict("canonical",
           locals["left"].contractId, locals["right"].contractId)
      /\ report.payoffStatus = Verdict("payoff",
           locals["left"].payoffId, locals["right"].payoffId)
      /\ report.side = [s \in Sides |->
            [contractId |-> locals[s].contractId,
             payoffId |-> locals[s].payoffId,
             failures |-> AllFailures(locals[s])]]
  BY <1>2, <1>3
<1> QED
  BY <1>4 DEF report

LEMMA Reported ==
  ASSUME IInv, result.kind = "report"
  PROVE  /\ result.report.outcome = [s \in Sides |-> sides[s].outcome]
         /\ result.report.canonicalStatus = Verdict("canonical",
              sides["left"].contractId, sides["right"].contractId)
         /\ result.report.payoffStatus = Verdict("payoff",
              sides["left"].payoffId, sides["right"].payoffId)
         /\ result.report.side = [s \in Sides |->
               [contractId |-> sides[s].contractId,
                payoffId |-> sides[s].payoffId,
                failures |-> AllFailures(sides[s])]]
<1> DEFINE id == result.report.reportId
<1>1. result.report = Complete(Draft(sides), id)
  BY DEF IInv, ResultInv
<1> HIDE DEF id
<1> DEFINE report == Complete(Draft(sides), id)
<1>2. /\ report.outcome = [s \in Sides |-> sides[s].outcome]
      /\ report.canonicalStatus = Verdict("canonical",
           sides["left"].contractId, sides["right"].contractId)
      /\ report.payoffStatus = Verdict("payoff",
           sides["left"].payoffId, sides["right"].payoffId)
      /\ report.side = [s \in Sides |->
            [contractId |-> sides[s].contractId,
             payoffId |-> sides[s].payoffId,
             failures |-> AllFailures(sides[s])]]
  BY ReportOf
<1> HIDE DEF report
<1>3. result.report = report
  BY <1>1 DEF report
<1> QED
  BY <1>2, <1>3

LEMMA LocalsOf ==
  ASSUME NEW done, NEW a, NEW b, NEW c
  PROVE  LET locals == Locals(done, Mix(a, b, c))
             valid == "structural" \in done /\ a.structural = "valid"
             canonical == /\ valid
                          /\ "canonical" \in done /\ b.canonical = "canonical"
             compiled == /\ canonical
                         /\ "payoff" \in done /\ c.payoff = "payoff graph"
         IN  /\ locals.outcome = IF "structural" \in done /\ ~valid
                                 THEN "invalid" ELSE "valid"
             /\ locals.contractId = IF canonical THEN b.contractId ELSE NoId
             /\ locals.payoffId = IF compiled THEN c.payoffId ELSE NoId
BY DEF Locals, Mix, Valid, Canonical, Compiled

\* In a report, a side knows what the requested stages found.
LEMMA ReportedSides ==
  ASSUME IInv, result.kind = "report", NEW s \in Sides
  PROVE  \E a, b, c \in Versions :
           /\ sides[s] = Locals(AllRequested, Mix(a, b, c))
           /\ sides[s].payoffId # NoId => c.contractId = b.contractId
<1>1. SideInv(s) /\ seen[s] \subseteq Versions
  BY DEF IInv, SidesInv, History
<1>2. Done(s) = AllRequested
  BY DEF Done, AllRequested
<1> QED
  BY <1>1, <1>2 DEF SideInv

LEMMA VerdictsAgreeInReports ==
  ASSUME IInv
  PROVE  VerdictsAgree
<1> SUFFICES ASSUME result.kind = "report", result.report.payoffStatus \in Verdicts
             PROVE  result.report.canonicalStatus = result.report.payoffStatus
  BY DEF VerdictsAgree
<1>2. /\ result.report.canonicalStatus = Verdict("canonical",
           sides["left"].contractId, sides["right"].contractId)
      /\ result.report.payoffStatus = Verdict("payoff",
           sides["left"].payoffId, sides["right"].payoffId)
  BY Reported
<1>3. /\ Requested("payoff")
      /\ sides["left"].payoffId # NoId /\ sides["right"].payoffId # NoId
  BY <1>2 DEF Verdict, Verdicts
<1>4. Requested("canonical")
  BY <1>3, LevelIsStage DEF IInv, Control, Requested, StageIndex, Stages
<1>5. ASSUME NEW s \in Sides
      PROVE  \E c \in Versions : /\ sides[s].payoffId = c.payoffId
                                /\ sides[s].contractId = c.contractId
  <2>1. PICK a, b, c \in Versions :
           /\ sides[s] = Locals(AllRequested, Mix(a, b, c))
           /\ sides[s].payoffId # NoId => c.contractId = b.contractId
    BY ReportedSides
  <2>2. sides[s].payoffId # NoId
    BY <1>3 DEF Sides
  <2> DEFINE locals == Locals(AllRequested, Mix(a, b, c))
  <2>3. /\ locals.contractId \in {b.contractId, NoId}
        /\ locals.payoffId \in {c.payoffId, NoId}
        /\ locals.payoffId # NoId => locals.contractId = b.contractId
    BY DEF Locals, Mix, Compiled
  <2> HIDE DEF locals
  <2>4. sides[s] = locals
    BY <2>1 DEF locals
  <2>5. sides[s].payoffId = c.payoffId /\ sides[s].contractId = b.contractId
    BY <2>2, <2>3, <2>4
  <2> QED
    BY <2>1, <2>2, <2>5
<1>6. PICK v \in Versions : /\ sides["left"].payoffId = v.payoffId
                           /\ sides["left"].contractId = v.contractId
  BY <1>5 DEF Sides
<1>7. PICK w \in Versions : /\ sides["right"].payoffId = w.payoffId
                           /\ sides["right"].contractId = w.contractId
  BY <1>5 DEF Sides
<1>8. /\ v.contractId # NoId /\ w.contractId # NoId
      /\ v.contractId = w.contractId <=> v.payoffId = w.payoffId
  BY VersionAssumption DEF NoId
<1> QED
  BY <1>2, <1>3, <1>4, <1>6, <1>7, <1>8 DEF Verdict

\* A report never calls two contracts equivalent at the canonical level and
\* different at the payoff level, or the reverse: _compare_contracts compares
\* payoff graphs only of the representations it compared before, for all
\* contracts and however often they change during the call.
THEOREM ReportsAgreeWithThemselves == Spec => []VerdictsAgree
BY InvariantHolds, VerdictsAgreeInReports, PTL

\* _compare_contracts answers with an internal error only when a stage breaks
\* or a contract changed during the call, and its report builder accepts all
\* that the orchestration hands it.
THEOREM CallsAnswerAsPromised == Spec => []AnswersAsPromised
<1>1. IInv => AnswersAsPromised
  BY DEF IInv, ResultInv
<1> QED
  BY <1>1, InvariantHolds, PTL

LEMMA StagesRequested ==
  ASSUME IInv, result.kind = "report"
  PROVE  /\ "structural" \in AllRequested
         /\ "canonical" \in AllRequested <=> Requested("canonical")
         /\ "payoff" \in AllRequested <=> Requested("payoff")
         /\ Requested("payoff") => Requested("canonical")
<1>1. config.level \in Stages
  BY LevelIsStage DEF IInv, Control
<1> QED
  BY <1>1 DEF AllRequested, Requested, StageIndex, Stages

\* The failures of a side say what it is missing.
Explains(locals, done) ==
  LET failures == AllFailures(locals)
      failedAt(stage) == \E i \in 1..Len(failures) : failures[i].stage = stage
  IN  /\ Len(failures) <= 1
      /\ locals.outcome = "invalid" <=> failedAt("structural")
      /\ locals.contractId # NoId <=>
           /\ "canonical" \in done
           /\ ~failedAt("structural") /\ ~failedAt("canonical")
      /\ locals.payoffId # NoId <=> "payoff" \in done /\ failures = << >>

LEMMA FailuresExplain ==
  ASSUME NEW done, "structural" \in done,
         "payoff" \in done => "canonical" \in done,
         NEW a \in Versions, NEW b \in Versions, NEW c \in Versions
  PROVE  Explains(Locals(done, Mix(a, b, c)), done)
<1> DEFINE v == Mix(a, b, c)
           locals == Locals(done, v)
           failures == AllFailures(locals)
           failedAt(stage) == \E i \in 1..Len(failures) : failures[i].stage = stage
<1> SUFFICES /\ Len(failures) <= 1
             /\ locals.outcome = "invalid" <=> failedAt("structural")
             /\ locals.contractId # NoId <=>
                  /\ "canonical" \in done
                  /\ ~failedAt("structural") /\ ~failedAt("canonical")
             /\ locals.payoffId # NoId <=> "payoff" \in done /\ failures = << >>
  BY Zenon DEF Explains
<1>1. b.contractId # NoId /\ c.payoffId # NoId
  BY VersionAssumption DEF NoId
<1>2. v.contractId # NoId /\ v.payoffId # NoId
  BY <1>1 DEF Mix
<1>3. ASSUME NEW f, failures = <<f>>
      PROVE  /\ Len(failures) <= 1 /\ failures # << >>
             /\ \A stage : failedAt(stage) <=> f.stage = stage
  <2> HIDE DEF failures
  <2> QED
    BY <1>3
<1>4. CASE ~Valid(done, v)
  <2>1. failures = <<MapValidationError(v.structural)>>
    BY <1>4, OneFailure
  <2>2. /\ Len(failures) <= 1 /\ failures # << >>
        /\ failedAt("structural") /\ ~failedAt("canonical")
    BY <1>3, <2>1 DEF MapValidationError, Failure
  <2>3. /\ locals.outcome = "invalid" /\ locals.contractId = NoId
        /\ locals.payoffId = NoId
    BY <1>4 DEF Locals, Canonical, Compiled
  <2> QED
    BY <2>2, <2>3
<1>5. CASE Valid(done, v) /\ "canonical" \in done /\ ~Canonical(done, v)
  <2>1. failures = <<MapCanonicalizationError(v.canonical)>>
    BY <1>5, OneFailure
  <2>2. /\ Len(failures) <= 1 /\ failures # << >>
        /\ ~failedAt("structural") /\ failedAt("canonical")
    BY <1>3, <2>1 DEF MapCanonicalizationError, Failure
  <2>3. /\ locals.outcome = "valid" /\ locals.contractId = NoId
        /\ locals.payoffId = NoId
    BY <1>5 DEF Locals, Compiled
  <2> QED
    BY <2>2, <2>3
<1>6. CASE Canonical(done, v) /\ "payoff" \in done /\ ~Compiled(done, v)
  <2>1. failures = <<MapPayoffError(v.payoff)>>
    BY <1>6, OneFailure
  <2>2. /\ Len(failures) <= 1 /\ failures # << >>
        /\ ~failedAt("structural") /\ ~failedAt("canonical")
    BY <1>3, <2>1 DEF MapPayoffError, Failure
  <2>3. /\ locals.outcome = "valid" /\ locals.contractId = v.contractId
        /\ locals.payoffId = NoId
    BY <1>6 DEF Locals, Canonical
  <2> QED
    BY <1>2, <1>6, <2>2, <2>3
<1>7. CASE /\ Valid(done, v)
           /\ "canonical" \in done => Canonical(done, v)
           /\ Canonical(done, v) /\ "payoff" \in done => Compiled(done, v)
  <2>1. failures = << >>
    BY <1>7, OneFailure
  <2>2. /\ Len(failures) <= 1
        /\ ~failedAt("structural") /\ ~failedAt("canonical")
    <3> HIDE DEF failures
    <3> QED
      BY <2>1
  <2>3. /\ locals.outcome = "valid"
        /\ locals.contractId = IF "canonical" \in done THEN v.contractId ELSE NoId
        /\ locals.payoffId = IF "payoff" \in done THEN v.payoffId ELSE NoId
    BY <1>7 DEF Locals, Canonical, Compiled
  <2> QED
    BY <1>2, <2>1, <2>2, <2>3
<1> QED
  BY <1>4, <1>5, <1>6, <1>7 DEF Canonical

LEMMA Explained ==
  ASSUME IInv
  PROVE  FailureExplainsMissing
<1> SUFFICES ASSUME result.kind = "report" PROVE FailureExplainsMissing
  BY DEF FailureExplainsMissing
<1>1. ASSUME NEW s \in Sides PROVE Explains(sides[s], AllRequested)
  <2>1. PICK a, b, c \in Versions : sides[s] = Locals(AllRequested, Mix(a, b, c))
    BY ReportedSides
  <2>2. Explains(Locals(AllRequested, Mix(a, b, c)), AllRequested)
    BY StagesRequested, FailuresExplain
  <2> QED
    BY <2>1, <2>2
<1>2. ASSUME NEW s \in Sides
      PROVE  /\ result.report.outcome[s] = sides[s].outcome
             /\ result.report.side[s].contractId = sides[s].contractId
             /\ result.report.side[s].payoffId = sides[s].payoffId
             /\ result.report.side[s].failures = AllFailures(sides[s])
  BY Reported
<1> QED
  BY <1>1, <1>2, StagesRequested DEF FailureExplainsMissing, Explains

\* In every report a requested representation is missing exactly when the side
\* lists the failure of the stage that stopped it, whatever became of the other
\* side: the error handling of _compare_contracts for all contracts.
THEOREM ReportsExplainThemselves == Spec => []FailureExplainsMissing
BY InvariantHolds, Explained, PTL

\* What is true of a version, in terms of what the stages say of it.
LEMMA TrueLocals ==
  ASSUME IInv, result.kind = "report", NEW v \in Versions
  PROVE  LET locals == Locals(AllRequested, Mix(v, v, v))
         IN  /\ (locals.outcome = "valid") = Reaches(v, "structural")
             /\ locals.contractId = IF Requested("canonical") /\ Reaches(v, "canonical")
                                    THEN v.contractId ELSE NoId
             /\ locals.payoffId = IF Requested("payoff") /\ Reaches(v, "payoff")
                                  THEN v.payoffId ELSE NoId
<1> DEFINE locals == Locals(AllRequested, Mix(v, v, v))
           valid == v.structural = "valid"
           canonical == /\ valid
                        /\ Requested("canonical") /\ v.canonical = "canonical"
           compiled == /\ canonical
                       /\ Requested("payoff") /\ v.payoff = "payoff graph"
<1>1. /\ locals.outcome = IF ~valid THEN "invalid" ELSE "valid"
      /\ locals.contractId = IF canonical THEN v.contractId ELSE NoId
      /\ locals.payoffId = IF compiled THEN v.payoffId ELSE NoId
  BY StagesRequested DEF Locals, Mix, Valid, Canonical, Compiled
<1>2. /\ valid <=> Reaches(v, "structural")
      /\ canonical <=> Requested("canonical") /\ Reaches(v, "canonical")
      /\ compiled <=> Requested("payoff") /\ Reaches(v, "payoff")
  BY StagesRequested DEF Reaches
<1> HIDE DEF locals, valid, canonical, compiled
<1>3. /\ (locals.outcome = "valid") = Reaches(v, "structural")
      /\ locals.contractId = IF Requested("canonical") /\ Reaches(v, "canonical")
                             THEN v.contractId ELSE NoId
      /\ locals.payoffId = IF Requested("payoff") /\ Reaches(v, "payoff")
                           THEN v.payoffId ELSE NoId
  BY <1>1, <1>2 DEF Reaches
<1> QED
  BY <1>3 DEF locals

LEMMA Truthful ==
  ASSUME IInv
  PROVE  UndisturbedReportTruthful
<1> SUFFICES ASSUME result.kind = "report", \A s \in Sides : seen[s] = {version[s]}
             PROVE  UndisturbedReportTruthful
  BY DEF UndisturbedReportTruthful
<1> DEFINE left == version["left"]
           right == version["right"]
<1>1. left \in Versions /\ right \in Versions
  BY DEF IInv, Control, Sides
<1>2. sides = Truth(version)
  BY UndisturbedSides DEF IInv
<1>3. ASSUME NEW s \in Sides
      PROVE  /\ (sides[s].outcome = "valid") = Reaches(version[s], "structural")
             /\ sides[s].contractId =
                  IF Requested("canonical") /\ Reaches(version[s], "canonical")
                  THEN version[s].contractId ELSE NoId
             /\ sides[s].payoffId =
                  IF Requested("payoff") /\ Reaches(version[s], "payoff")
                  THEN version[s].payoffId ELSE NoId
  <2> DEFINE v == version[s]
             locals == Locals(AllRequested, Mix(v, v, v))
  <2>1. v \in Versions
    BY DEF IInv, Control
  <2>2. sides[s] = locals
    BY <1>2 DEF Truth
  <2> HIDE DEF v
  <2>3. /\ (locals.outcome = "valid") = Reaches(v, "structural")
        /\ locals.contractId = IF Requested("canonical") /\ Reaches(v, "canonical")
                               THEN v.contractId ELSE NoId
        /\ locals.payoffId = IF Requested("payoff") /\ Reaches(v, "payoff")
                             THEN v.payoffId ELSE NoId
    BY <2>1, TrueLocals
  <2> HIDE DEF locals
  <2> QED
    BY <2>2, <2>3 DEF v
<1>4. /\ result.report.canonicalStatus = Verdict("canonical",
           sides["left"].contractId, sides["right"].contractId)
      /\ result.report.payoffStatus = Verdict("payoff",
           sides["left"].payoffId, sides["right"].payoffId)
      /\ \A s \in Sides : result.report.outcome[s] = sides[s].outcome
  BY Reported
<1>5. /\ left.contractId # NoId /\ right.contractId # NoId
      /\ left.payoffId # NoId /\ right.payoffId # NoId
      /\ left.contractId = right.contractId <=> left.payoffId = right.payoffId
  BY <1>1, VersionAssumption DEF NoId
<1> DEFINE both(stage) == Reaches(left, stage) /\ Reaches(right, stage)
           truth(stage) == CASE ~Requested(stage) -> "not_evaluated"
                             [] Requested(stage) /\ ~both(stage) -> "not_comparable"
                             [] OTHER -> IF left.contractId = right.contractId
                                         THEN "equivalent" ELSE "different"
<1>6. result.report.canonicalStatus = truth("canonical")
  <2>1. CASE ~Requested("canonical")
    BY <1>4, <2>1 DEF Verdict
  <2>2. CASE Requested("canonical") /\ ~both("canonical")
    <3>1. sides["left"].contractId = NoId \/ sides["right"].contractId = NoId
      BY <1>3, <2>2 DEF Sides
    <3> QED
      BY <1>4, <2>2, <3>1 DEF Verdict
  <2>3. CASE Requested("canonical") /\ both("canonical")
    <3>1. /\ sides["left"].contractId = left.contractId
          /\ sides["right"].contractId = right.contractId
      BY <1>3, <2>3 DEF Sides
    <3> QED
      BY <1>4, <1>5, <2>3, <3>1 DEF Verdict
  <2> QED
    BY <2>1, <2>2, <2>3
<1>7. result.report.payoffStatus = truth("payoff")
  <2>1. CASE ~Requested("payoff")
    BY <1>4, <2>1 DEF Verdict
  <2>2. CASE Requested("payoff") /\ ~both("payoff")
    <3>1. sides["left"].payoffId = NoId \/ sides["right"].payoffId = NoId
      BY <1>3, <2>2 DEF Sides
    <3> QED
      BY <1>4, <2>2, <3>1 DEF Verdict
  <2>3. CASE Requested("payoff") /\ both("payoff")
    <3>1. /\ sides["left"].payoffId = left.payoffId
          /\ sides["right"].payoffId = right.payoffId
      BY <1>3, <2>3 DEF Sides
    <3> QED
      BY <1>4, <1>5, <2>3, <3>1 DEF Verdict
  <2> QED
    BY <2>1, <2>2, <2>3
<1>8. \A s \in Sides :
        (result.report.outcome[s] = "valid") = Reaches(version[s], "structural")
  BY <1>3, <1>4
<1>9. \A stage : (\A s \in Sides : Reaches(version[s], stage)) <=> both(stage)
  BY DEF Sides
<1> QED
  BY <1>6, <1>7, <1>8, <1>9 DEF UndisturbedReportTruthful

\* When nobody touches the contracts, the report of _compare_contracts says of
\* each requested level what comparing the representations says, and of each
\* side what validation says.
THEOREM UndisturbedReportsAreTruthful == Spec => []UndisturbedReportTruthful
BY InvariantHolds, Truthful, PTL

\* Reports of contracts nobody touched in either call.
LEMMA TwoReports ==
  ASSUME IInv, changes = 0, previous.kind = "report", result.kind = "report"
  PROVE  /\ result.report = Complete(Draft(Truth(version)), result.report.reportId)
         /\ previous.report
              = Complete(Draft(Truth(Earlier)), previous.report.reportId)
<1>1. sides = Truth(version)
  BY UndisturbedSides DEF IInv, History
<1> QED
  BY <1>1 DEF IInv, ResultInv, PreviousInv

LEMMA Mirrors ==
  ASSUME IInv
  PROVE  SwappedCallMirrors
<1> SUFFICES ASSUME changes = 0, swapped, result.kind = "report"
             PROVE  SwappedCallMirrors
  BY DEF SwappedCallMirrors
<1> DEFINE after == Truth(version)
           before == Truth(Earlier)
<1>1. previous.kind = "report"
  BY DEF IInv, PreviousInv
<1>2. \A s \in Sides : Earlier[s] = version[Other(s)]
  BY DEF Earlier
<1>3. \A s \in Sides : after[s] = before[Other(s)] /\ Other(s) \in Sides
  BY <1>2 DEF Truth, Other, Sides
<1> DEFINE id == result.report.reportId
           oldId == previous.report.reportId
<1>4. /\ result.report = Complete(Draft(after), id)
      /\ previous.report = Complete(Draft(before), oldId)
  BY <1>1, TwoReports
<1> HIDE DEF after, before, id, oldId
<1> DEFINE r == Complete(Draft(after), id)
           q == Complete(Draft(before), oldId)
<1>5. /\ r.outcome = [s \in Sides |-> after[s].outcome]
      /\ r.canonicalStatus = Verdict("canonical",
           after["left"].contractId, after["right"].contractId)
      /\ r.payoffStatus = Verdict("payoff",
           after["left"].payoffId, after["right"].payoffId)
      /\ r.side = [s \in Sides |->
            [contractId |-> after[s].contractId, payoffId |-> after[s].payoffId,
             failures |-> AllFailures(after[s])]]
  BY ReportOf
<1>6. /\ q.outcome = [s \in Sides |-> before[s].outcome]
      /\ q.canonicalStatus = Verdict("canonical",
           before["left"].contractId, before["right"].contractId)
      /\ q.payoffStatus = Verdict("payoff",
           before["left"].payoffId, before["right"].payoffId)
      /\ q.side = [s \in Sides |->
            [contractId |-> before[s].contractId, payoffId |-> before[s].payoffId,
             failures |-> AllFailures(before[s])]]
  BY ReportOf
<1> HIDE DEF r, q
<1>7. after["left"] = before["right"] /\ after["right"] = before["left"]
  BY <1>3 DEF Sides, Other
<1>8. \A stage, x, y : Verdict(stage, x, y) = Verdict(stage, y, x)
  BY DEF Verdict
<1>9. r.canonicalStatus = q.canonicalStatus /\ r.payoffStatus = q.payoffStatus
  BY <1>5, <1>6, <1>7, <1>8
<1>10. ASSUME NEW s \in Sides
       PROVE  r.outcome[s] = q.outcome[Other(s)] /\ r.side[s] = q.side[Other(s)]
  BY <1>3, <1>5, <1>6
<1> QED
  BY <1>4, <1>9, <1>10 DEF SwappedCallMirrors, r, q

\* Comparing right with left mirrors comparing left with right: left before
\* right at every stage of _compare_contracts leaves no trace in the report.
THEOREM SwappedCallsMirror == Spec => []SwappedCallMirrors
BY InvariantHolds, Mirrors, PTL

LEMMA EqualReports ==
  ASSUME IInv
  PROVE  EqualReportsSayTheSame
<1> SUFFICES ASSUME equality # "none" PROVE EqualReportsSayTheSame
  BY DEF EqualReportsSayTheSame
<1> DEFINE a == previous.report
           b == result.report
<1>1. /\ previous.kind = "report" /\ result.kind = "report"
      /\ equality = ReportEquality(a, b)
      /\ Identified(a) /\ Identified(b)
  BY DEF IInv, EqualityInv, PreviousInv, ResultInv
<1>2. ASSUME equality = "equal" PROVE a.side = b.side /\ a.outcome = b.outcome
  <2> HIDE DEF a, b
  <2>1. Projection(a) = Projection(b)
    BY <1>1, <1>2 DEF ReportEquality
  <2>2. ASSUME NEW r, Identified(r), NEW field \in {"side", "outcome"}
        PROVE  Projection(r)[field] = r[field]
    BY <2>2 DEF Projection, Identified
  <2> QED
    BY <1>1, <2>1, <2>2
<1>3. ASSUME changes = 0, ~swapped PROVE equality = "equal"
  <2>1. Earlier = version
    BY <1>3 DEF Earlier, IInv, Control
  <2> DEFINE draft == Draft(Truth(version))
  <2>2. b = Complete(draft, b.reportId) /\ a = Complete(draft, a.reportId)
    BY <1>1, <1>3, <2>1, TwoReports
  <2>3. \A id : Projection(Complete(draft, id)) = Projection(draft)
    BY ProjectionOfComplete
  <2> HIDE DEF a, b, draft
  <2>4. Projection(a) = Projection(b)
    BY <2>2, <2>3
  <2>5. a.reportId = b.reportId
    BY <1>1, <2>4 DEF Identified
  <2> QED
    BY <1>1, <2>4, <2>5 DEF ReportEquality
<1> QED
  BY <1>2, <1>3 DEF EqualReportsSayTheSame

\* ValidationEquivalenceReport.__eq__ answers equal only for reports that say
\* the same of both sides, even when their identities collide, and repeating an
\* undisturbed comparison gives an equal report.
THEOREM EqualReportsAgree == Spec => []EqualReportsSayTheSame
BY InvariantHolds, EqualReports, PTL

LEMMA FailuresTyped ==
  ASSUME NEW e
  PROVE  /\ IsFailureList(<<MapValidationError(e)>>, "structural")
         /\ IsFailureList(<<MapCanonicalizationError(e)>>, "canonical")
         /\ IsFailureList(<<MapPayoffError(e)>>, "payoff")
         /\ \A stage : IsFailureList(<< >>, stage)
<1>1. ASSUME NEW f, NEW stage, f.stage = stage, f.classification \in Classifications
      PROVE  IsFailureList(<<f>>, stage)
  BY <1>1 DEF IsFailureList
<1>2. /\ MapValidationError(e).stage = "structural"
      /\ MapValidationError(e).classification \in Classifications
  BY DEF MapValidationError, Failure, Classifications
<1>3. /\ MapCanonicalizationError(e).stage = "canonical"
      /\ MapCanonicalizationError(e).classification \in Classifications
  BY DEF MapCanonicalizationError, Failure, Classifications
<1>4. /\ MapPayoffError(e).stage = "payoff"
      /\ MapPayoffError(e).classification \in Classifications
  BY DEF MapPayoffError, Failure, Classifications
<1>5. \A stage : IsFailureList(<< >>, stage)
  BY DEF IsFailureList
<1> QED
  BY <1>1, <1>2, <1>3, <1>4, <1>5

LEMMA Typed ==
  ASSUME IInv
  PROVE  TypeOK
<1>1. ASSUME NEW s \in Sides
      PROVE  /\ sides[s].outcome \in Outcomes
             /\ sides[s].contractId \in Nat /\ sides[s].payoffId \in Nat
             /\ IsFailureList(sides[s].structural, "structural")
             /\ IsFailureList(sides[s].canonical, "canonical")
             /\ IsFailureList(sides[s].payoff, "payoff")
  <2>1. PICK done \in SUBSET Stages, a \in seen[s], b \in seen[s], c \in seen[s] :
           sides[s] = Locals(done, Mix(a, b, c))
    BY DEF IInv, SidesInv, SideInv
  <2>2. b \in Versions /\ c \in Versions
    BY DEF IInv, History
  <2>3. b.contractId \in Nat /\ c.payoffId \in Nat
    BY <2>2, VersionAssumption
  <2> DEFINE v == Mix(a, b, c)
             locals == Locals(done, v)
  <2>4. /\ locals.outcome \in Outcomes
        /\ locals.contractId \in {b.contractId, NoId}
        /\ locals.payoffId \in {c.payoffId, NoId}
    BY DEF Locals, Mix, Outcomes
  <2>5. /\ locals.structural \in {<<MapValidationError(v.structural)>>, << >>}
        /\ locals.canonical \in {<<MapCanonicalizationError(v.canonical)>>, << >>}
        /\ locals.payoff \in {<<MapPayoffError(v.payoff)>>, << >>}
    BY DEF Locals
  <2> HIDE DEF locals, v
  <2>6. sides[s] = locals
    BY <2>1 DEF locals, v
  <2>7. /\ IsFailureList(locals.structural, "structural")
        /\ IsFailureList(locals.canonical, "canonical")
        /\ IsFailureList(locals.payoff, "payoff")
    BY <2>5, FailuresTyped, Zenon
  <2>8. locals.contractId \in Nat /\ locals.payoffId \in Nat
    BY <2>3, <2>4 DEF NoId
  <2> QED
    BY <2>4, <2>6, <2>7, <2>8
<1>2. ConfigError \in {"none", InputError, "ValidationEquivalenceUnsupportedLevelError"}
  BY DEF ConfigError
<1>3. result.kind \in {"none", "report", InputError, ComparisonError, MalformedError,
                      "ValidationEquivalenceUnsupportedLevelError",
                      "ValidationEquivalenceReportCollisionError"}
  BY <1>2 DEF IInv, ResultInv, AnswersAsPromised
<1> QED
  BY <1>1, <1>3 DEF TypeOK, IInv, Control, History, PreviousInv

\* The variables of _compare_contracts keep their types; a side lists at most
\* one failure of each stage, with that stage's name and a known classification.
THEOREM ComparisonTyped == Spec => []TypeOK
BY InvariantHolds, Typed, PTL
=============================================================================
