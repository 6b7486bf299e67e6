# DerivaTrace in TLA+

DerivaTrace is a pure, in-process Python library for financial contracts. A
contract is an immutable graph of AST nodes; three stages work on it: structural
**validation**, **canonicalization** to a content-addressed document with an
identity, and **compilation** to a payoff graph; a **comparison** layer runs the
stages on two contracts and reports. There are no threads, no messages and no
persistence. What is hard is elsewhere: iterative traversals of shared graphs
with explicit stacks and colours, limits that must be exact under sharing,
rewriting by digest order, digest collisions, exact numbers at their bounds, and
checks that are written twice.

Line references are to `src/` of the repository.

## 1. Inventory

| component | source | state it keeps | operations |
|---|---|---|---|
| contract algebra | `contracts/_values.py`, `_expressions.py`, `_contracts.py` | frozen value objects and 20 node classes holding children by reference; every field can be overwritten with `object.__setattr__` | constructors that check operands and derive units |
| validation | `contracts/_validation.py` | per call: stack of (node, depth, path, leaving), explored, ancestors, counted ids, greatest depth per id, counters | `validate_contract` |
| exact decimals | `canonical/_encoding.py` | none | encode, fold, exact `+ - *`, compare |
| canonicalization | `canonical/_normalization.py`, `_schema.py`, `_identity.py` | per call: stack, memo object id -> canonical id, table canonical id -> payload, prune stack and reachable set | `canonicalize_contract` |
| structural equivalence | `canonical/_equivalence.py` | two results | `structurally_equivalent` |
| canonical JSON | `canonical/_encoding.py`, `_serialization.py` | none | bytes of a payload or document |
| payoff graph | `payoffgraph/_compiler.py` and its schema, result, identity | per call: colours, payoff id, bytes, unit per canonical id, payload and type per payoff id, collision table; second traversal with colours | `compile_payoff_graph` |
| comparison | `validation_equivalence/_orchestration.py` | per side: outcome, identities, captured failures | `_compare_contracts` |
| report | `validation_equivalence/_records.py`, `_report.py`, `_schema.py` | frozen records that validate themselves | `_build_report` |
| metadata | `_metadata.py` | constants | none |

**Interactions.** All are synchronous calls. `canonicalize_contract` calls
`validate_contract` and translates its exceptions; `structurally_equivalent`
calls `canonicalize_contract` twice; `compile_payoff_graph` calls
`canonicalize_contract` and decodes the bytes it returns; `_compare_contracts`
calls validation, then canonicalization, then the compiler (which validates and
canonicalizes again) for each side and captures what they raise. The only thing
two calls share is SHA-256.

**What is hard, and what makes each component correct.**

- *Validation*: a node shared at unequal depths must be revisited when it is met
  deeper (its descendants get deeper too) but counted once; a back edge must be
  told from sharing; a node's rules read units stored by its children, so the
  children come first; errors must carry a path to the defect. Correct: metrics
  only for a well-formed DAG within the limits, with exactly its node count and
  depth; an error only for a defect of its kind; work bounded by the limits.
- *Canonicalization*: payloads are built once per object, after their children;
  a fold, a flattening or a collapsed branch changes what the parent sees;
  operands are sorted by digest; leftover nodes are pruned. Correct: the table is
  sound even when digests collide, the document is exactly what its root reaches,
  nothing is left to normalize, and the document means what the contract means.
- *Equivalence*: author order and sharing do not matter; no wrong "equal".
- *Exact decimals*: no rounding, one encoding per value, folding decided by the
  value and not by how it was written. The digits are counted on `str()` of an int,
  which raises for more than 4300 of them.
- *Payoff graph*: the same questions once more for a second id space; the payoff
  identity depends on the canonical document only.
- *Comparison*: a side that failed takes no part in deeper levels, the other side
  goes on; the two canonicalizations of a side agree; statuses say what was done.

`PROJECT.json` lists every hazard at its line with the properties that watch it.

## 2. Modules

```
OneShotCall                abstract: a call answers at most once, as promised
ContractGraph              the object graph, the local rules of every node class
  ValidationPromise        what validate_contract promises, on the graph alone
    ContractValidation     the walk              (implements OneShotCall)
      MCValidationShapes
      AcceptedContracts      what acceptance means beyond the promise
                             (uses ContractConstruction, ContractSemantics)
        ContractValidationProofs    types, the inductive invariant, the refinement,
                                    the paths of errors, the two copies of the rules,
                                    the meaning of what is accepted
        MCForgedContracts
    Canonicalization       gates, payloads, traversal, prune, limits
                           (uses ValidationPromise, CanonicalDocument,
                            DigestOracle; implements OneShotCall)
      CanonicalMeaning         what it means that a document is right
                               (uses DocumentSemantics)
        MCCanonical
        StructuralEquivalence    two canonicalizations and a comparison
          CanonicalizationProofs    the traversal, the table, the documents and
                                    their meaning, for both calls
          MCEquivalence
  ContractConstruction     the checks of the constructors
    ContractLemmas         lemmas: when the checks of a class pass, here and there;
                           rational numbers in lowest terms, folds of operands
  ContractSemantics        a reference meaning of contract graphs
  ContractExamples         constructors for the model-checked examples
ExactDecimal               exact decimal arithmetic
  DecimalLemmas              least counterexamples, worth, stripping, bounds
  DecimalChain               chains of folds, and what they promise
    DecimalChainProofs       exactness, completeness, one encoding, the order
    MCExactDecimal
  CanonicalDocument        payloads, documents and what is normal
    DocumentSemantics      what documents and payoff graphs mean
                           (uses ContractSemantics)
    PayoffGraph            gates, mapping, compilation, second traversal, limits
                           (uses DigestOracle)
      PayoffEquality       two compilations and a comparison
        PayoffMeaning        a payoff graph read as a contract again
                             (uses DocumentSemantics)
          PayoffGraphProofs         the table, the two walks, what is returned and
                                    what it means
          MCPayoff
DigestOracle               SHA-256 as an oracle
  DocumentLemmas           lemmas: stacks of frames, the table filled from the
                           oracle, sorting, operand lists and their sums, what
                           merging and folding do to a meaning
  ComparisonReport         failures, sides, reports and the checks they make
    ContractComparison     two sides through three levels, and the callers
      ContractComparisonProofs      the inductive invariant, all properties
      MCComparison
```

**ContractGraph.** A graph maps object identities (`id(node)`) to records: the
exact class, the children in the order `_iter_children` yields them, the state of
the child fields, the stored unit, a value, a comparison operator and `sound`,
one flag for "the other stored value objects satisfy their invariants".
`NodeError` is the first error `_validate_node_invariants` raises for a node.
Records are arbitrary: a node may have been forged after construction, as the
repository's own tests do, which is why the validator revalidates everything.

**ContractConstruction.** The rules of the twenty classes a second time, as their
constructors state them. A constructor asks `isinstance` (`_expressions.py:110`,
`_contracts.py:56`), the validator wants the exact class of nodes and value objects
(`_validation.py:192`, `226`, `240`, `265`, `334`, `344`), so the constructors accept
more: the repository's tests build nodes over instances of subclasses and over forged
value objects and expect the validator to refuse them
(`test_value_object_invariants.py:253-257`, `278-282`, `314-318`, `388-394`,
`test_supported_node_policy.py:72-75`, `93-102`). What such an object answers is its own
affair: a subclass of a currency may call itself equal to any other. So
`ConstructorChecks` takes the answer of `isinstance` as a parameter, `InstanceAnswers`
says which answers the stored values allow, and `Constructible` says that some
constructor call may have stored a record. `ExactlyTyped` is what the validator
asks beyond that, and on purpose: the exact-type policy.

**ContractValidation.** State: the variables of `validate_contract`, the
arguments (fixed after `Init`), `pc`, `result`, and one history variable
(`expansions`). One action per outcome of an iteration of the `while` loop:
`Leave`/`LeaveInvalid` pop a post-order marker, `DetectCycle`, `SkipExplored`,
and the four ends of a first or deeper visit (`VisitTooComplex`,
`VisitUnsupported`, `VisitOpaque`, `Expand`), plus the entry checks and
`Return`. Paths are sequences of child positions; the names of the segments are
left out.

**Canonicalization.** State: the variables of `_canonicalize_core`, the
arguments, `pc`, `result`, and the history variable `builds`. A payload is a node
record whose children are canonical ids, so a document can be read as a graph
again; `BuildPayload` is `_build_payload`, type by type. Validation appears by its
promise (`Verdicts`): any verdict that keeps it, which theorem `ImplementsPromise`
justifies. `FoldEscapes` is the one way out of the traversal that no clause catches:
the `ValueError` of `str()` for a sum, a difference or a product of literals that is
too long to be written. The paths in errors and the traversal depth (computed but never read by
the code) are left out.

**DigestOracle.** SHA-256 is external and modelled as an oracle in variables of
its users (`digests`, `contractDigests`, `graphDigests`, `reportDigests`): a digest
is drawn when something is first hashed and never changes. With `Oracle = "any"` it
is an old digest, which makes a collision, or a fresh one in any gap between the
digests so far (ids are only compared, so one representative per relative order
covers all digest functions); with `"one order"` it is the next one.
`ContentAddressed` says of a table of payloads that each id is the digest of its
entry.

**CanonicalDocument.** What canonicalization and payoff compilation share: the
record of a payload, sorting by id (by ranks, so that the provers can follow it), a
document as a root and a table, `IsWellFormed` (the graph of a contract again:
`IsReach`, closed under references and nothing else than what the root reaches;
`IsAcyclic`; `IsTyped`, operands of the classes and units that the constructors
require; no payload twice), `Normal` (no law applies), and `ByteLength`, which stands
in for the number of bytes by nodes plus references.

**StructuralEquivalence.** Two calls in sequence, the second starting from empty
tables (`Restart`) but the same digest function.

**PayoffGraph.** `canonicalize_contract` is taken by its outcome, an argument of
the call: an error, or a document with an identity. State: the frames and colours
of the compilation, the tables by canonical id (`idOf`, `unitOf`), the one by
payoff id (`payoffs`: `pg_id_seen`, `pg_payload_by_pgid` and `pg_type_by_pgid` hold
the same keys and are one function here), the frames, colours and records of the
second traversal, `result`, and the history variable `compiles`. `MapNode` is
`map_node`, type by type, with its category and unit checks; it is a function of
the node and of what its children compiled to (`KidsOf`), the only place where the
tables are read. One action per
iteration of each of the two loops, one per early exit. The checks on the shape of
single fields of a canonical record, which the same call has just produced, are
taken together as `Decodable`. The document limit counts one more than the
structural bytes: the provenance block.

**PayoffEquality.** Two compilations in sequence under one digest function, and
`PayoffGraph.__eq__`: a self-composition, so that "the payoff identity depends on
the contract only" is an invariant. `SameContract` says of two documents, without
any digest, that they are one contract: their nodes correspond one to one, with the
same payload and corresponding references.

**ComparisonReport.** `CapturedFailure`, `ReportSide` and the report as records,
with the checks their constructors make; the report identity as the digest of a
projection; report equality. Error codes are the sequences of their dotted parts,
since two checks look at their prefix and their suffix.

**ContractComparison.** State: the locals of the two sides, whose turn it is, the
result. One action per stage call and outcome, `BuildReport` for the verdicts and
the construction of the report. A stage call is atomic and is taken by what it
does with a *version* of the contract. `Change` is the environment: dataclasses are
frozen but `object.__setattr__` overwrites their fields, and children are shared
by reference, so between two stage calls the owner can put another version in the
place of one side, or of both when both are the same contract. A change in the middle of a stage call
is not modelled: the call would have seen a mixture, for which there is a version
too if it is one the stages can treat like that. `CallAgain` and `CompareReports` are callers that repeat
a comparison, in either order of the sides, and compare the reports.
`VersionAssumption` states what ties the two ids of a version together: equal
contract ids go with equal payoff ids and conversely, which `PayoffEquality`
shows of the compiler up to collisions of graph digests.

**ExactDecimal, DecimalChain.** Sign, coefficient, exponent; the operators of
`_encoding.py` with `MAX_COEFF_DIGITS`, `EXP_MIN`, `EXP_MAX` as parameters. A chain
is what nested operator nodes compute: the left operand is what the inner node folded
to, or a literal again when it could not fold. `_safe_number_payload` writes a number out
(`str(working)`, line 121) before it counts the digits, and CPython does not write an int
of more than 4300 digits (`MaxStrDigits`). So `FoldOutcome` has three answers: folds,
declines, raises; a chain ends where it raises.

## 3. Runs

All configurations set `CHECK_DEADLOCK FALSE`: a call that has answered stops.

| run | question | bounds |
|---|---|---|
| `validation_shapes` | is the walk right on every graph shape? | 4 objects, out-degree <= 2, the four kinds of leaf end, four limits below, at and above the graph's size: chains, diamonds, sharing at unequal depths, self-loops and longer cycles |
| `validation_forged` | are the local rules right? | 7 contracts of 5 objects that use all 20 classes, every single forgery of a node, every assignment of units; values in {-1,0,2} for each observable |
| `canonical` | does a document mean its contract, fully normalized and nothing else? | about 100 contracts of <= 7 objects, in which each law fires alone and nested; one digit, exponents 0..1 and two digits that `str()` writes, so sums, products and factors cross the bounds and one family gets beyond what can be written; every relative order and collision of digests; limits tight and loose; refused arguments |
| `equivalence` | which contracts are equivalent? | pairs set apart only by order, grouping, sharing; pairs different in one place; every relative order and every collision of digests, within and across the two calls |
| `exact_decimals` | are chains of folds exact? | two digits, exponents -1..1, three digits that `str()` writes, six operand coefficients, all values reached by chains of `+ - *` |
| `payoff` | is a payoff graph its canonical document, and equal exactly when the contracts are? | 14 contracts of <= 6 nodes that use all 20 types, share nodes and have operands to reorder; each spelled with the canonical ids in both orders; every relative order and collision of payoff digests, within and across two calls; limits loose for all, tight for contracts on both sides of them; refused arguments; failing canonicalizations |
| `comparison` | does a report say what the stages found, whatever fails and whoever interferes? | 12 versions: two sound contracts, each stage failing with each kind of code, a stage that breaks; every level, 9 sets of arguments; one change of a contract at any moment of one or two calls; report ids that collide or not |
| `reexpansion`, `forged_escape`, `regrouped_literals`, `zero_denominator`, `long_folds` | statements of the documentation that the code does not meet | see section 6 |

What the properties say:

- `KeepsPromise` (validation): the walk refines `OneShotCall` with
  `ValidationPromised`: reachability as the least closed set, depth as the least
  increasing labelling, a cycle as a set nobody leaves. None of them mentions the
  walk. `WorkBounded`, `ChildrenValidatedFirst`, `AncestorsArePending` are the
  reasons it works; `DiagnosticsLocated` says an error's path leads to its defect.
- `AcceptedContractsHaveMeaning`, `ValidatorMatchesConstructors`: what is accepted
  has a meaning in the reference semantics for all observables and stores the
  right units; what a walk accepts, constructor calls could have stored, and is exactly
  typed; and a walk that meets exactly typed nodes only rejects one of them by its rules
  only if no constructor call could have stored it.
- `TableSound`: every memoized object stands for the payload it would be given
  now, every id for the payload that hashes to it, references never dangle, also
  under collisions. `BuiltOnce`: once per object, after its children, and exactly
  the reachable objects, although the traversal keeps no ancestors and leaves cycles
  to validation.
- `DocumentIsWellFormed`, `DocumentIsNormal`, `DocumentKeepsMeaning`: the document is
  the graph of a contract again, and just what its root reaches, whatever was merged,
  folded or left behind; no law applies to it any more; it pays what the contract
  pays, for all observables (division by zero included).
- `KeepsPromise` (canonicalization): a document only for a contract that
  validates, within the limits, every error only for its reason. For a bare Python
  error of a contract that validates there is one reason: a sum, difference or product
  in it is worth an integer that `str()` does not write, whatever the observables are
  (`HasOverlongConstant`, stated on the meaning of the contract). It also shows that
  canonicalization never makes more nodes than there were objects, and that the
  references of a document are bounded by the contract counted once per path
  (not once per object: flattening copies operand lists).
- `SymbolicOrderIrrelevant`: contracts equal up to order and grouping (`LawEqual`,
  defined on the graphs, without digests) are equivalent unless a collection may fold
  to a literal before the collection of its class around it merges it
  (`GroupsLiterals`). `EquivalenceSound`: equivalent contracts pay the same,
  unless two contract digests collide.
- `PayoffTableSound`: every payoff id stands for the payload that hashes to it, and
  every compiled node for the payload and the unit it would be given now.
  `CompiledOnce`: a node is compiled once however it is shared, and every node of
  the document before the second traversal starts. `NodesStayApart`: no two
  canonical nodes get one payoff id, none is lost, although types are renamed
  (`Zero` and `Both` both become `PGCombine`) and operands sorted again.
  `PayoffGraphIsReach`: the second traversal, which reads other field names than the
  first, finds every node and nothing else.
- `PayoffKeepsMeaning`: the payoff graph, read as a contract again, pays what the
  canonical document pays.
- `AnswersAsPromised` (payoff): errors of canonicalization come through unchanged, a
  limit error only for a document too large, and none of the compiler's internal
  checks ever fires on a canonical document.
- `EqualIffSameContract`: payoff graphs are equal iff the contracts are the same,
  although the two documents list commutative operands in different orders.
  `Answered`: both calls end.
- `VerdictsAgree`: a report never says one thing of the canonical representations
  and another of the payoff graphs, even if contracts change during the call.
  This is why the orchestration compares the identities of its two
  canonicalizations.
- `FailureExplainsMissing`: a representation is missing exactly when one failure of
  the same side says why, at the first stage that failed.
- `AnswersAsPromised` (comparison): internal errors need a broken stage or a
  contract that changed; the report builder accepts all that is handed to it.
- `UndisturbedReportTruthful`, `SwappedCallMirrors`, `EqualReportsSayTheSame`: what a
  report says when nobody interferes; comparing right with left says the same with
  the sides exchanged; equal reports agree on both sides even if their ids collide.
- `ExactWorth`, `FoldsWhatLiteralsCanSay`, `OneEncodingPerValue`, `ComparesWorth`:
  results are exact; a node folds iff a canonical literal has its value, and only a
  value too long to be written raises; a value has one encoding; comparison orders
  values.

Every property of a passing run has a mutant in `PROJECT.json`: a plausible bug in
the modelled code that makes TLC find the property violated. The mutated forms
stand in the modules, each right before the definition it replaces and marked
"Mutant"; no specification uses them.

**Why the bounds are enough.** The walk compares depths, counts and colours only;
four objects give every way two paths can meet at different depths below a cycle
or a limit, and the theorems below hold for any number. Normalization looks at a
node and its children; families nest the laws two deep, the most that one law can
expose to another. Digests are only compared, so their relative orders are all
there is. The compiler looks at a node, the ids and the units of its children; one
contract per node type with every order of its operands covers that, six nodes
leave room for sharing. A comparison looks at one version at a time; two calls and
one change reach every pair of stages, and the proofs cover any number of changes
and any set of versions.

**Fairness.** `FairSpec` (validation) and `Fairness` (two compilations) are weak
fairness of the whole next-state relation: the loops are ordinary sequential code
that runs until it returns or raises. `Terminates` and `Answered` need nothing else.
The traversal of canonicalization has no liveness property of its own: `BuiltOnce`
bounds what it can do, and deciding whether its steps are enabled, which fairness
asks of every state, is too slow with `BuildPayload` as it is.

## 4. Proofs

### Validation

Checked by TLAPS for every finite set of objects, every graph and every limits
argument, from the assumptions in `ContractGraph` and `ContractValidation`: objects
are finitely many, exact limits are positive, "none" is no currency code, a child
field can be iterable without being a tuple only if it is an operand collection, and
an object of another class has as many children as its class has fields (the fields
are slots of a dataclass and `_iter_children` reads them one by one):

| theorem | statement |
|---|---|
| `TypeCorrect` | `Spec => []TypeOK` |
| `PostOrder` | `Spec => []ChildrenValidatedFirst` |
| `Colouring` | `Spec => []AncestorsArePending` |
| `WorkIsBounded` | `Spec => []WorkBounded` |
| `ImplementsPromise` | `Spec => KeepsPromise` |
| `DiagnosticsAreLocated` | `Spec => []DiagnosticsLocated` |
| `ConstructorsAgree` | `Spec => []ValidatorMatchesConstructors` |
| `AcceptedHaveMeaning` | `Spec => []AcceptedContractsHaveMeaning` |

The promise is not inductive. `IInv` (in `ContractValidationProofs`) adds what
the walk maintains:

1. *StackShape*: the stack mirrors a path. Each frame hangs below the marker of
   one of its parents, and the markers below a frame are one per level. Hence a
   child found among the ancestors closes a cycle (`CycleFound`).
2. *GreyInv*: ancestors are the marked nodes, one marker each, readable and
   within the depth limit.
3. *PendingInv*: each child of a marked node is explored deep enough or still
   on the stack above the marker. When the marker surfaces, all children are done:
   this is `ChildrenValidatedFirst`.
4. *BlackInv*: explored nodes are accepted, closed under children, and each child
   was expanded deeper than its parent. At the end explored is all that is
   reachable, and the recorded depths are an increasing labelling: no cycle.
5. *CountInv*, *LeastInv*: counters measure the sets, and every recorded depth is a
   lower bound of every increasing labelling, so the maximum is the depth.

`InvInit`, `InvStep` and `Invariance` establish `IInv`, one lemma per action
group; the refinement then follows because every step of the walk is a stutter of
`OneShotCall` or its one `Answer`.

Paths are a matter of their own. `PathInv` says that the path of every frame on the
stack leads from the root to the node of the frame, one child position per step, and
passes every node that has a marker below the frame. The last part is what makes the
path of a cycle error lead to the node met twice. An error raised with the path of a
frame is then located, whether the defect is the type, the fields, the rules or the
depth of that node.

The rules of the twenty classes are written twice in the code, and differently: the
constructor of a collection checks its operands in one loop, the validator checks
class and unit in a loop and the stored unit after it; the constructors derive the
unit that the validator compares. `ContractLemmas` says of each class what both lists of
checks come to: a list passes if every check in it holds (`PassesIff`), a loop if the
checks of every operand hold (`LoopPasses`, `OperandsPass`). `RulesAgree` follows class
by class: an object of a supported class whose fields can be iterated passes the
validator only if it is exactly typed and a constructor call could have stored it; and
if it and its children are exactly typed and a call could have stored it, it passes. The
second half has to ask this of the children, since a forged unit below may compare
equal to anything when the constructor looks (`MayMatch`). Both directions need the assumptions above: without the first one a
product of two money units would have the unit "none" and construct; without the
second one an arithmetic node could hold its operands in a list, which the validator
would never notice. `ConstructorsAgree` lifts this to the walk with `IInv`: when it
returns, every counted node is black, hence accepted; when it raises over a node, the
node and its children have been counted.

`AcceptedHaveMeaning` is the soundness of the unit rules, for every graph, all limits and
whatever values the observables have. The reference semantics is a recursion over the
graph. It has a solution on what an accepted walk has counted, because the depths it
recorded increase from parents to children (`DenotationExists`, from `BlackInv` and
`CountInv`). Class by class, an object whose checks pass and whose children have meanings
of their classes and stored units has a meaning of its class and stored unit
(`NodeMeans`, from `ContractLemmas`); a collection by following the fold of its operands
(`ReduceNumbers`). No object is then the deepest one without a meaning (`GraphMeans`).
Division by zero is a meaning here ("undefined"): validation does not promise more.

### Exact decimals

For every number of digits and every range of exponents that `DecimalAssumption`
allows, and whatever the operands are:

| theorem | statement |
|---|---|
| `FoldingIsExact` | `Spec => []ExactWorth` |
| `FoldingIsComplete` | `Spec => []FoldsWhatLiteralsCanSay` |
| `EncodingIsUnique` | `Spec => []OneEncodingPerValue` |
| `ComparisonIsByWorth` | `Spec => []ComparesWorth` |

The invariant `ChainInv` says that both operands are canonical literals again.
`FoldingIsComplete` has three cases: a worth that a literal has is folded; for any other
the node stays; and `FoldOutcome` raises only for what has at least `10^MaxStrDigits`
smallest units, which no literal has. The
rest are lemmas about the operators: aligning keeps the worth, `Canonical` strips
trailing zeros and stops (`StrippedUnique`: two stripped decimals of one worth are
the same), and a value fits the bounds iff its stripped form does. The recursive
functions of `ExactDecimal` (powers of ten, stripping) are dealt with by least
counterexamples (`LeastOf`, `Climb`), not by the induction theorems of the library.

### Canonicalization

For every graph, every accepted contract and every digest function, from
`CanonicalAssumption` (roots are objects, children are sequences of objects, and the
arguments are of the kinds the gates distinguish), `NodeAssumption` and
`OracleAssumption`; the theorem about meanings also from `DecimalAssumption`,
`EnvironmentsAssumption` (an environment gives every observable an integer value) and
`OperatorsAssumption` (the operator of a comparison that passes revalidation is a
`ComparisonOperator`: `_validation.py:471` checks its type):

| theorem | statement |
|---|---|
| `CanonicalizedOnce` | `Spec => []BuiltOnce` |
| `TableIsSound` | `Spec => []TableSound` |
| `DocumentsAreWellFormed` | `Spec => []DocumentIsWellFormed` |
| `DocumentsAreNormal` | `Spec => []DocumentIsNormal` |
| `CanonicalTypes` | `Spec => []TypeOK` |
| `CanonicalizationKeepsPromise` | `Spec => KeepsPromise` |
| `DocumentsKeepMeaning` | `Spec => []DocumentKeepsMeaning` |
| `EquivalenceIsSound` | `EqSpec => []EquivalenceSound` |
| `AuthorOrderIsIrrelevant` | `EqSpec => []SymbolicOrderIrrelevant` |

The traversal of `_canonicalize_core` has a memo but no set of ancestors: met inside
a cycle it would run forever. That it does not rests on validation, so the invariant
(`WalkInv` of `CanonicalizationProofs`) carries the labelling that `ValidationPromise`
gives for an accepted graph, increasing from parent to child. Labels increase from a
marker to every frame above it, so no object lies above its own marker; objects with
a marker are unfinished; a child of a marked object is finished or scheduled above
the marker; the root is finished or still awaited. `BuiltOnce` follows: a marker is
popped once, when all children are finished.

`TableInv` adds what the table holds. Each id is the digest of its payload;
`register` raises rather than let a collision in, whatever the digests are. Each
payload refers to ids of the table only and nothing is left to normalize at it
(`PayloadIn`). Each finished object has in the table the payload that
`_build_payload` would give it now (`Accounted`): growing the table changes no such
payload, because it is a function of the payloads of its children, which are there
already (`Grows`). What `BuildPayload` makes of sound operands is shown type by type:
merging the operands of operands of the same type leaves a sorted list without any
such operand, a fold leaves a literal within the bounds, a collapsed branch gives the
branch, and a node that does not fold is one no law applies to.

`PruneInv` is about the second traversal, which keeps no markers: what has been
visited is closed except for what is on the stack, and lies in every closed set that
contains the root. When the stack is empty, what was visited is a document: closed,
and nothing else than what the root reaches. Normality comes along, since it looks at
a node and its children only.

`KindInv` says that the table is typed although its payloads are not those the
caller built: there is a unit for every id such that each payload has the operands and
units its constructor requires (`TableTyped`), and the payload of each finished object
is of the object's class and has the unit the object states (`KindsMatch`). What is
known of an object is that validation accepted it: its check list (`NodeError`) passed,
which `ContractLemmas` and `Accepted` turn into what it says of the children, constructor
by constructor. `PayloadStands` then goes through
`_build_payload`: an operator that stays has the operands of its object, a product in
either order has the same unit, a literal has the unit of the object it replaces, a
branch is of the class of the conditional, and the operands merged into a collection
are as suitable as those they replace. Every new payload refers to old ids, so the
table is acyclic; that the units are those `UnitsOf` computes from the document alone
follows from that, by the first node on which two solutions would differ
(`UnitsAreUnique`).

`CanonicalizationKeepsPromise` is the refinement: every step is a stutter of
`OneShotCall` or its one `Answer`, and that answer is one the arguments justify
(`AnswerPromised`). `PromiseInv` carries what the gates have established, that no answer
is there before the end, that every payload in the table belongs to a finished object,
and that an oracle which never repeats itself has not collided. Two errors have reasons that
take work. One is `CanonicalizationComplexityError`: canonicalization must not fail
on a limit that the contract itself is within.

- Nodes: a document has no more of them than there are objects, since each stands for
  an object (`PromiseInv`), and different ones for different objects.
- Bytes: merging operands of operands copies operand lists, so a document may be larger
  than the object graph; the promise bounds it by `UnfoldedSize`, which counts the
  objects below each object once per path. That weight exists because an accepted graph
  has no cycle (`Grounded`, `WeightsExist`), it is at least one more than the width of
  the payload (`PayloadWidth`, `NoWider`), and so the payloads together are no larger than
  the weights together (`BytesFit`). The library has no theory of sums; a sum of
  natural numbers is the size of a disjoint union here (`Cells` in `DocumentLemmas`).

The other is the bare `ValueError`. `EscapesAreOverlong` shows what is behind it: the
object has operands that are literals in the table, so it is worth the same whatever
the observables are, and that worth is an integer longer than `str()` writes. That the
literals of the table are whole numbers is an invariant of its own (`WholeInv`; the model
gives a `Number` an integer). That they mean what the objects mean is `DocumentsKeepMeaning`
in the middle of the traversal: the finished objects, all of whose children are finished,
already mean what their payloads mean (`FinishedFacts`, `ObjectsKeepMeaning`), before all is
built and before anything is pruned.

The proof corrected `UnfoldedSize`. It was a recursion over all objects, which has no
solution, and so no meaning, when objects that the root does not reach form a cycle; it is
now one over the objects the root reaches.

`DocumentsKeepMeaning` says that normalization preserves meaning: the document pays what
the contract pays, whatever the observables are. The meaning of a contract is a recursion
over the objects it reaches, that of a document one over its nodes; the proof relates
both to the meanings of the payloads in the table.

1. The table has a meaning (`MeaningsExist`, since references go down), and its numbers
   are fractions in lowest terms (`MeaningsAreNormal`).
2. `PayloadMeans`, type by type: the payload that `_build_payload` gives an object means
   what the object would mean if its children meant what their payloads mean. An operand
   of the same type is replaced by its own operands (`MergedMeaning`), which is right
   since sums, products, extremes and connectives are associative on what validation
   admits (`CombineAssociates`, `FlattenFolded`); sorting is a rearrangement
   (`CollectionShuffled`). Arithmetic on literals is that of the fractions they stand for
   (`LiteralSums`, `LiteralProduct`, `LiteralCompares`), which starts from the lemmas on
   exact decimals. A constant branch is the meaning of the conditional, an extreme of
   equal literals is any of them.
3. Merging would not be right for operands that have no meaning of their class: folding
   part of a list first could hide an error or make one. `ContractDenotes` rules them out:
   validation has accepted the contract, so all its objects have a meaning of their class
   and unit (`GraphMeans`, shared with validation).
4. By the deepest object whose payload would mean something else, there is none
   (`ObjectsKeepMeaning`). Pruning leaves the meanings of the nodes it keeps
   (`PrunedMeaning`).

Division by zero needs no exception: both sides have the meaning "undefined", which an
operation passes on unless it belongs to the branch that is not taken. For the proof, `DocumentKeepsMeaning` speaks of the objects the root
reaches (`ContractMeaning`): a recursion over all of them would have no solution where
unreachable objects form a cycle.

`EquivalenceIsSound` is about the two calls of `structurally_equivalent`, on contracts
that may share objects, and needs `RootPairsAssumption` as well. The second call starts
from nothing but the answers of SHA-256 (`Fresh`), and everything above is proved from
`Fresh` and not from `Init`, so it holds of both calls (`CallInv`). What the first one
returned keeps its identity, since a digest never changes, and its meaning, since objects
do not change (`MeansContract`, `StaysIdentified`). Equal identities are then of one
document, or of two with one digest.

`AuthorOrderIsIrrelevant` is the converse, where the code keeps it: contracts that the laws
of commutativity and associativity call equal (`LawEqual`, on the graphs alone) get one
identity. Its premise was once that no collection of literals only is nested in another;
looking for a proof showed that this is too little, since what is nested may fold later: in
`Add(Add(Negate(1), 2), x)` the inner sum becomes a literal because `Negate(1)` does.
`Foldable` now says what may.

1. What an object may become is known from the graph: one outside `Foldable` stays a
   collection of its class (`CondensedFolds`, `StaysCollection`), so where nothing foldable
   is nested, merging payloads merges the operands that the law of associativity shows
   (`OpenedUp`): the operands of a payload are those of the object, each in place of
   the run it stands for, and sorted (`AllCovered`).
2. Two equal collections match their operands in some order (`Matches`). By the deepest
   pair that would disagree, matched operands have equal payloads under equal ids
   (`EqualAgree`), because one digest function serves both calls. Rearranged operands, each
   replaced by equal runs, are the same when sorted (`CollectionsAgree`,
   `SameCountRuns`): a sorted list is determined by how often each id occurs in it
   (`SortedByCount`). For the other classes the payload is a function of the fields and of
   what is below (`OperatorsAgree`), a product being sorted.
3. Equal roots then have one id. The proof carries along that it is in the largest part
   of the two tables that both hold with all it refers to (`Common`, `CommonJoins`), so
   the two calls return one document (`SameDocument`), hence one identity. Nothing is
   assumed of collisions: a call that met one has raised and not answered "different".
4. `RecordsInv` keeps what is known of the document of the first call while the second
   one runs.

### Payoff graph

For every set of canonicalization outcomes, all arguments, every digest function, and
both calls of a comparison, from `OutcomesAssumption`, `PairsAssumption` and
`OracleAssumption`; the theorem about meanings also from `DecimalAssumption` and
`EnvironmentsAssumption` (an environment gives every observable an integer value).
`OutcomesAssumption` is what the compiler is given: the outcome is
of a known kind, and a document satisfies `IsWellFormed` and is normal, which is what
`DocumentsAreWellFormed` and `DocumentsAreNormal` prove of canonicalization.

| theorem | statement |
|---|---|
| `NodesCompiledOnce` | `EqSpec => []CompiledOnce` |
| `PayoffTableIsSound` | `EqSpec => []PayoffTableSound` |
| `PayoffGraphIsWhatRootReaches` | `EqSpec => []PayoffGraphIsReach` |
| `PayoffNodesStayApart` | `EqSpec => []NodesStayApart` |
| `CompilerKeepsPromise` | `EqSpec => []AnswersAsPromised` |
| `PayoffTypes` | `EqSpec => []TypeOK` |
| `PayoffGraphKeepsMeaning` | `EqSpec => []PayoffKeepsMeaning` |
| `EqualPayoffsAreOneContract` | `EqSpec => []EqualIffSameContract` |

The invariant (`IInv` of `PayoffGraphProofs`):

1. *CoreOK*, *TableOK*: the payoff table is content-addressed; references stay in it;
   a compiled node stands for what `map_node` would make of it with the tables as
   they are now. Growing the tables changes none of that, because `map_node` looks
   at its children only and those are compiled (`KidsStable`, `TableGrows`). Sorting
   by ranks is a permutation (`SortedFacts`), so sorted operands stay in the table.
2. *CompileOK*, *TraverseOK*: both loops keep `WalkInv`: no id has two
   markers, marked ids are "visiting", children of a marked id are visited or
   scheduled above it, visited ids are closed under references, the root is awaited.
   Unlike canonicalization this needs no acyclicity: met on a cycle, the code
   raises. That it never does is part of the promise, below.
3. When a stack is empty, what was visited contains the root and is closed. After the
   compilation that is the whole document, since the document is what its root
   reaches; after the second traversal it is what the payoff root reaches.

`CompilerInvariant` gives the invariant for two calls: `RestartKeeps` shows that the
second one starts with nothing but the answers of SHA-256.

`PayoffNodesStayApart` needs that `map_node` can be undone (`SameNode`): for a canonical
node, the payoff type and the number of references give the type (`PGTypeApart`; only
`Zero` and `Both` share one, and `Both` has children), and the payoff ids of the
children, sorted or not, give the children. Sorted lists are the difficulty: both the
canonical and the payoff operands are in the order of their digests, so one sorted list
is all that is left of the other. Sorting is a permutation and an ascending rearrangement
is unique (`AscendingIsUnique`, `SortedSame` in `DocumentLemmas`), so equal sorted payoff
operands come from equal sorted canonical ones as long as the children are kept apart,
which is the invariant itself. The count of returned nodes follows by a bijection
(`RecordsCounted`).

`CompilerKeepsPromise` says, error by error, that nothing but its reason raises it. The
invariant (`PromiseInv`) holds on top of the other two:

1. *UnitsRight*: the units compilation finds are those of the document. With the types of
   the payoff children, which are renamings of the document's, `map_node` then has what
   its checks ask for, case by case (`MappingPasses`, `NodePasses`): a canonical document
   is typed, so no node is rejected.
2. *WalkPaths*: up to the next marker, the frames above a marker are children of its id,
   and an id is "visiting" because of its marker (`PathInv`). If the frame
   on top were one of an id being visited, the ids between would refer to each other
   around a cycle (`NeverVisiting`), but references of the document go down, and so do
   those of the payoff table, which are their images (`TableGoesDown`).
3. *NoClash*: where the oracle never repeats itself, no collision is detected.
4. The returned graph is exactly as large as the document, node by node and operand by
   operand (`SameSizes`, by `PayoffNodesStayApart`), so a limit error means that the
   document was too large.

`PayoffTypes` follows from these invariants, apart from what a failed call leaves behind;
that every node has a stated unit is shown by the first node that had none
(`DocumentUnitsTyped`).

`PayoffGraphKeepsMeaning` says that the graph pays what the document pays, whatever the
observables are. Compilation could change a meaning in two ways: by renaming a node to
the wrong type, field or child, and by sorting the operands of a commutative node by
other digests.

1. A payoff node can be read back (`TypeRecovered`, `ReadBack`): as a contract node it
   says what its canonical node says, about the images of its children, in order or,
   for a commutative node, rearranged (`RefersToImages`).
2. The order of such operands does not matter. Numbers are fractions in lowest terms,
   and a fraction has one such form, so sums, extremes, products and the Boolean
   connectives are commutative and associative as records, not just as numbers
   (`CombineLaws` in `ContractLemmas`). A fold may then exchange two steps (`Exchange`)
   and, by the shortest list for which it could not, all of them (`FoldedRearranged`,
   `CollectionShuffled`). `Both` is not sorted and need not commute.
3. The semantics is a recursion over the document. It has a solution because references
   go down (`MeaningsExist`), and all its numbers are in lowest terms, which 2 needs
   (`PayloadIsNormal`, type by type, and `MeaningsAreNormal`).
4. The returned nodes are the image of the document under the table of compilation
   (`RecordsReadBack`). By the first node that would mean something else than its image,
   none does (`ImageMeansSame`).

The proof corrected two definitions. `Rational` searched for the greatest common divisor;
it now takes the least denominator that will do, which is the same number and says what
makes the form unique. A literal of a normal document is now said to be a decimal, and its
meaning is that fraction (`LiteralMeaning`), where it used to be cut to an integer.

`EqualPayoffsAreOneContract` is about both calls of `PayoffGraph.__eq__`. Two documents
are of one contract (`SameContract`) if a bijection of their ids takes the nodes of one
to those of the other, commutative operands sorted again by the other ids; `PayoffEquality`
states that, and the run finds the bijection for the pairs that are one contract by
construction and for no others. `ComparedInv` keeps, of each result, that it is the image
of its document under the payoff ids (`IsCompilation`), every payload under the id that
the shared oracle answered. Then:

1. Documents of one contract get equal graphs (`SameSpelling`): take the first node whose
   image has another payoff id. The ids of its children agree, so its operands do,
   since sorting first by canonical and then by payoff id is sorting by payoff id
   (`SortedAgain`); so the payload is the same, and the oracle answers it alike.
2. Equal graphs come from one contract (`SameGraph`): each node leads over its payoff id to
   a node of the other document, which has its class and fields (`SameClass`) and whose
   operands, being sorted, are the ones that the bijection gives (`ImagesBack`).

So equal identities of different contracts need two graphs with one digest.

### Comparison

All seven properties of the run `comparison` hold for every set of versions, every
set of arguments, any number of changes and every digest function, from
`VersionAssumption`, `ConfigAssumption` (the arguments are of the kinds the gates
distinguish) and `OracleAssumption`:

| theorem | statement |
|---|---|
| `ComparisonTyped` | `Spec => []TypeOK` |
| `ReportsAgreeWithThemselves` | `Spec => []VerdictsAgree` |
| `ReportsExplainThemselves` | `Spec => []FailureExplainsMissing` |
| `CallsAnswerAsPromised` | `Spec => []AnswersAsPromised` |
| `UndisturbedReportsAreTruthful` | `Spec => []UndisturbedReportTruthful` |
| `SwappedCallsMirror` | `Spec => []SwappedCallMirrors` |
| `EqualReportsAgree` | `Spec => []EqualReportsSayTheSame` |

The invariant of `ContractComparisonProofs` says where every local comes from:

1. *Control*, *History*: where the call stands, and that every version a side has
   or had is in `seen`.
2. *SidesInv*: what a side knows is `Mix(a, b, c)`, what the three stages make of
   three versions the side had. If compilation succeeded, canonicalization and
   compilation saw versions of the same contract identity: the consistency check
   of the code, and the one fact that survives interference. Stages not yet
   reached have left nothing.
3. *ResultInv*: a finished report is `Complete(Draft(sides), id)`, so every
   property of a report becomes one of `Mix`. *PreviousInv*: the same of the
   earlier report, with the versions it was about.
4. *EqualityInv*: reports that are equal have equal projections.

`VerdictsAgree` then follows from 2 and `VersionAssumption`;
`UndisturbedReportTruthful` because an untouched side has a = b = c; the swapped and
repeated call because `Draft` is a function of the sides.

## 5. What is only model-checked, and what is not modelled

Only model-checked: `Terminates` and `Answered` (liveness is out of the prover's reach).
Every other property of a passing run is a theorem, except that the recomputation of a
report's identity (`Verified`) cannot fail in the model, where one oracle answers both.

Not modelled:

- the value objects below a node: parsing of decimal and date strings, currency
  codes, identifiers (one `sound` flag per node stands for their invariants);
- the byte layout of canonical JSON (equal payloads have equal bytes and
  conversely) and failing encoders (`PayoffEncodingError` and the like);
- of a report, the diff records, which this version never fills, the exact-type
  checks of the limits and metadata records, and the arguments it repeats;
- package metadata.

One hazard has no property: the cost of aligning very different exponents
(`_encoding.py:151`), since TLC checks values, not the memory an integer takes. The byte
limit (`_normalization.py:478`) is covered in part: `KeepsPromise` bounds the document by
the contract counted once per path, and says nothing of the operand lists that are copied
before the check.

## 6. Where documentation and code disagree

- `reexpansion`: a shared node is expanded again when it is met deeper; the
  threat model says traversed once. Counting once does hold.
- `forged_escape`: a forged operand field that cannot be iterated leaves
  `validate_contract` as a bare `TypeError`.
- `regrouped_literals`: (1 + 2) + x and 1 + (2 + x) have different identities,
  since a literal-only inner collection folds before it can be merged.
- `zero_denominator`: x / (5 - 5) canonicalizes to a division by the literal 0.
- `long_folds`: where the exact result has more digits than `str()` writes, the fold is
  not declined, as `canonicalization-spec.md:352-354` says, but `canonicalize_contract`
  ends in a bare `ValueError`. In the code: six nested squares of 1E100 fold to 1E6400,
  which is one digit and an exponent; adding 1 makes an integer of 6401 digits. The run has
  it as 50 + 5 + 50 with two digits.

Three more disagreements met while modelling have no run of their own; in the last two
the documents contradict each other as well:

- `_multiply_unit` (`_validation.py:165`) rejects a forged money x money product without
  a path, unlike every other check of a node; `contract-api.md:381-384` says that errors
  carry one.
- `validation-equivalence-spec.md` 3.18, in the row for one validation level that
  succeeds alone, calls the deeper levels `not_evaluated`; the code, like the other
  rows, answers `not_comparable` when the level was requested.
- `payoff-graph-spec.md` 3.3 sorts the operands of `PGAllOf` and `PGAnyOf` "by
  canonical node id", its table of node types "by id". The code sorts by payoff id
  (`_compiler.py:508`), and has to: with the ids of canonicalization, the mutant
  `MapCollectionCanonicalOrder`, `EqualIffSameContract` fails.

## 7. Plan

1. (done) `ContractGraph`, `ContractValidation`, its promise, its proofs.
2. (done) `ExactDecimal`, `Canonicalization`, `StructuralEquivalence`.
3. (done) `PayoffGraph`, `PayoffEquality`.
4. (done) `ComparisonReport`, `ContractComparison` and its proofs.
5. (done) Invariants of the traversals of `Canonicalization` and `PayoffGraph`.
6. (done) Exact decimals, the whole of `TableSound`, `DocumentIsWellFormed`,
   `DocumentIsNormal` and `DiagnosticsLocated` for every contract.
7. (done) `NodesStayApart`, the types and the promise about errors of the payoff graph
   for every document.
8. (done) `KeepsPromise` of canonicalization for every contract.
9. (done) The agreement of validator and constructors for every graph.
10. (done) The meaning of every accepted contract.
11. (done) The meaning of every payoff graph.
12. (done) Equality of payoff graphs for every pair of contracts.
13. (done) The meaning of every canonical document.
14. (done) Soundness of structural equivalence for every pair of contracts.
15. (done) Irrelevance of author order for every pair of contracts; what a fold that
    cannot be written is worth.
