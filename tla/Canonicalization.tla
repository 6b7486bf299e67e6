-------------------------- MODULE Canonicalization --------------------------
(***************************************************************************)
(* canonicalize_contract: gate the arguments, validate the graph, then     *)
(* build content-addressed payloads bottom-up with an explicit stack and a *)
(* memo per object, keep what the root's payload reaches, and check the    *)
(* limits.  One action per loop iteration or early exit.                   *)
(*                                                                         *)
(* Payloads and documents are those of CanonicalDocument, digests those of *)
(* DigestOracle.                                                           *)
(***************************************************************************)
EXTENDS ValidationPromise, CanonicalDocument, DigestOracle

CONSTANTS Graphs,    \* the object graphs a caller may pass
          Roots,     \* the root objects
          Configs    \* the schema, limits and validation_limits arguments

\* References are references; a node class has its fields; a stored ExactNumber
\* that passes revalidation is within the bounds of its constructor.
WellTyped(rec) ==
  /\ rec.kids \in Seq(Node) /\ rec.sound \in BOOLEAN
  /\ rec.type \in DOMAIN Arity /\ IsIterable(rec) => Len(rec.kids) = Arity[rec.type]
  /\ rec.type = "Number" =>
       rec.val \in Int /\ (rec.sound => InBounds(IntegerDec(rec.val)))

ASSUME CanonicalAssumption ==
  /\ Roots \subseteq Node
  /\ \A g \in Graphs :
       DOMAIN g = Node /\ \A n \in Node : WellTyped(g[n])
  /\ \A c \in Configs :
       /\ c.schema \in {"supported", "other"}
       /\ c.form \in {"exact", "forged"}
       /\ c.nodes \in Nat /\ c.bytes \in Nat
       /\ c.validation \in [form : {"exact", "forged", "foreign"},
                            depth : Nat, nodes : Nat]

VARIABLES
  graph, root, config,  \* the arguments
  pc,          \* "config", "validate", "walk", "prune", "done"
  stack,       \* frames [node, leaving], the last on top
  memo,        \* object -> canonical id
  canonNodes,  \* canonical id -> payload
  digests,     \* the node oracle: payload -> id
  contractDigests, \* the contract oracle: document -> id
  pruneStack, reachable,  \* the prune traversal
  result,
  builds       \* history: how often a payload was computed for each object

callArgs == <<graph, root, config>>
oracle == <<digests, contractDigests>>
core == <<memo, canonNodes, builds>>
prune == <<pruneStack, reachable>>
vars == <<graph, root, config, pc, stack, memo, canonNodes, digests,
          contractDigests, pruneStack, reachable, result, builds>>

NoDocument == [root |-> 0, nodes |-> << >>]
NoResult == [kind |-> "none", document |-> NoDocument, identity |-> 0]
CanonicalizationErrors ==
  {"CanonicalizationInputError", "CanonicalizationCycleError",
   "CanonicalizationComplexityError", "CanonicalizationNotValidatedError",
   "CanonicalizationCollisionError", "CanonicalizationError", "PythonError"}

Init ==
  /\ graph \in Graphs
  /\ root \in Roots
  /\ config \in Configs
  /\ pc = "config"
  /\ stack = << >>
  /\ memo = << >>
  /\ canonNodes = << >>
  /\ digests = << >>
  /\ contractDigests = << >>
  /\ pruneStack = << >>
  /\ reachable = {}
  /\ result = NoResult
  /\ builds = [n \in Node |-> 0]

\* A second call in the same process: nothing is left of the first one.
Restart(nextRoot) ==
  /\ root' = nextRoot
  /\ pc' = "config"
  /\ stack' = << >>
  /\ memo' = << >>
  /\ canonNodes' = << >>
  /\ pruneStack' = << >>
  /\ reachable' = {}
  /\ result' = NoResult
  /\ builds' = [n \in Node |-> 0]
  /\ UNCHANGED <<graph, config, digests, contractDigests>>

Raise(kind) ==
  /\ pc' = "done"
  /\ result' = [NoResult EXCEPT !.kind = kind]

-----------------------------------------------------------------------------
(* The gates of canonicalize_contract.                                     *)

RejectConfig ==
  /\ pc = "config"
  /\ config.schema = "other" \/ config.form = "forged" \/ ~IsContract(graph[root])
  /\ Raise("CanonicalizationInputError")
  /\ UNCHANGED <<callArgs, stack, oracle, core, prune>>

AcceptConfig ==
  /\ pc = "config"
  /\ config.schema = "supported" /\ config.form = "exact"
  /\ IsContract(graph[root])
  /\ pc' = "validate"
  /\ UNCHANGED <<callArgs, stack, oracle, core, prune, result>>

\* Mutant: the clause of the base class comes first.
TranslationGeneric(kind) ==
  IF kind = "PythonError" THEN kind ELSE "CanonicalizationNotValidatedError"

\* The except clauses around validate_contract, most specific first.
Translation(kind) ==
  CASE kind = "ContractCycleError" -> "CanonicalizationCycleError"
    [] kind = "ContractComplexityError" -> "CanonicalizationComplexityError"
    [] kind \in {Invalid, Mismatch} -> "CanonicalizationNotValidatedError"
    [] kind = "PythonError" -> "PythonError"

\* validate_contract by its promise: any verdict that keeps it.  The metrics
\* it returns are not used.
Failures == {"ContractCycleError", "ContractComplexityError", Invalid, Mismatch,
             "PythonError"}
Verdicts ==
  {v \in {"metrics"} : Acceptable(graph, root, config.validation)}
  \cup {v \in Failures : RejectionPromised(graph, root, config.validation, v)}

ValidationFails ==
  /\ pc = "validate"
  /\ \E kind \in Verdicts \ {"metrics"} : Raise(Translation(kind))
  /\ UNCHANGED <<callArgs, stack, oracle, core, prune>>

ValidationPasses ==
  /\ pc = "validate"
  /\ "metrics" \in Verdicts
  /\ pc' = "walk"
  /\ stack' = << [node |-> root, leaving |-> FALSE] >>
  /\ UNCHANGED <<callArgs, oracle, core, prune, result>>

-----------------------------------------------------------------------------
(* _build_payload.  lookup(child) gives the id and the payload of a child: *)
(* here ids and kids are those of all children.                            *)

\* Mutant: nested operands stay where they are.
FlattenedNever(type, ids, kids) == ids

\* Operands of the same type are merged into the collection.
Flattened(type, ids, kids) ==
  FlattenSeq([i \in 1..Len(ids) |->
                IF kids[i].type = type THEN kids[i].kids ELSE << ids[i] >>])

\* The greatest (side = 1) or least (side = -1) number of the literals kids.
ExtremeOf(side, kids) ==
  LET best[i \in 1..Len(kids)] ==
        IF i = 1 THEN kids[1].num
        ELSE IF ExactCmp(kids[i].num, best[i - 1]) = side THEN kids[i].num
        ELSE best[i - 1]
  IN  best[Len(kids)]

\* The operator is folded into a literal if the result is within bounds; what
\* is too long to be written out never gets here (FoldEscapes).
Fold(rec, num, kept) ==
  IF InBounds(num) THEN NumberPayload(rec.unit, num) ELSE kept

\* ids are the sorted operands, kids their payloads.
CollectionPayload(rec, ids, kids) ==
  LET kept == Payload(rec.type, ids, "none", 0, DecZero, "")
      I == 1..Len(kids)
  IN  CASE rec.type = "Add" ->
             IF AllLiterals(kids) THEN Fold(rec, SumOf(kids), kept) ELSE kept
        [] rec.type \in {"Maximum", "Minimum"} ->
             IF AllLiterals(kids)
             THEN NumberPayload(rec.unit,
                    ExtremeOf(IF rec.type = "Maximum" THEN 1 ELSE -1, kids))
             ELSE kept
        [] rec.type = "AllOf" ->
             IF AllConstants(kids)
             THEN BooleanPayload(\A i \in I : kids[i].val = 1) ELSE kept
        [] rec.type = "AnyOf" ->
             IF AllConstants(kids)
             THEN BooleanPayload(\E i \in I : kids[i].val = 1) ELSE kept

\* Mutant: the operands of a product stay in author order.
FactorsAsWritten(ids) == ids

Factors(ids) ==
  IF ids[1] <= ids[2] THEN << ids[1], ids[2] >> ELSE << ids[2], ids[1] >>

OperatorPayload(rec, ids, kids) ==
  LET kept == Payload(rec.type, ids, "none", 0, DecZero, "")
      product == Payload(rec.type, Factors(ids), "none", 0, DecZero, "")
      literals == AllLiterals(kids)
      branch == IF ~IsConstant(kids[1]) THEN kept
                ELSE IF kids[1].val = 1 THEN kids[2] ELSE kids[3]
  IN  CASE rec.type = "Number" -> NumberPayload(rec.unit, IntegerDec(rec.val))
        [] rec.type \in {"Observable", "Payment"} ->
             Payload(rec.type, ids, rec.unit, rec.val, DecZero, "")
        [] rec.type = "BooleanConstant" -> BooleanPayload(rec.val = 1)
        [] rec.type \in {"Zero", "Divide", "Both", "Scale"} -> kept
        [] rec.type = "Negate" ->
             IF literals THEN NumberPayload(rec.unit, ExactNeg(kids[1].num)) ELSE kept
        [] rec.type = "Subtract" ->
             IF literals THEN Fold(rec, ExactSub(kids[1].num, kids[2].num), kept)
             ELSE kept
        [] rec.type = "Multiply" ->
             IF literals THEN Fold(rec, ExactMul(kids[1].num, kids[2].num), product)
             ELSE product
        [] rec.type \in {"ConditionalValue", "ConditionalContract"} -> branch
        [] rec.type = "Comparison" ->
             IF literals
             THEN BooleanPayload(CompareBy(rec.op, kids[1].num, kids[2].num))
             ELSE Payload(rec.type, ids, "none", 0, DecZero, rec.op)
        [] rec.type = "Not" ->
             IF IsConstant(kids[1]) THEN BooleanPayload(kids[1].val = 0) ELSE kept

PayloadOf(rec, ids, table) ==
  LET kids == PayloadsOf(ids, table)
      operands == SortedIds(Flattened(rec.type, ids, kids))
  IN  IF rec.type \in MergedTypes
      THEN CollectionPayload(rec, operands, PayloadsOf(operands, table))
      ELSE OperatorPayload(rec, ids, kids)

\* The number rec would be folded into is too long for _safe_number_payload.
TooLongToFold(rec, ids, table) ==
  LET kids == PayloadsOf(ids, table)
      operands == PayloadsOf(SortedIds(Flattened(rec.type, ids, kids)), table)
      raises(num) == FoldOutcome(num) = "raises"
  IN  \/ /\ rec.type = "Add" /\ AllLiterals(operands)
         /\ raises(SumOf(operands))
      \/ /\ rec.type = "Subtract" /\ AllLiterals(kids)
         /\ raises(ExactSub(kids[1].num, kids[2].num))
      \/ /\ rec.type = "Multiply" /\ AllLiterals(kids)
         /\ raises(ExactMul(kids[1].num, kids[2].num))

\* lookup(child), for every child of n
ChildIds(n) == LET kids == graph[n].kids
               IN  [i \in 1..Len(kids) |-> memo[kids[i]]]

BuildPayload(n) == PayloadOf(graph[n], ChildIds(n), canonNodes)
BuildRaises(n) == TooLongToFold(graph[n], ChildIds(n), canonNodes)

-----------------------------------------------------------------------------
(* The traversal of _canonicalize_core.                                    *)

Top == stack[Len(stack)]
Rest == SubSeq(stack, 1, Len(stack) - 1)
CFrame(n, leaving) == [node |-> n, leaving |-> leaving]

Popping(leaving) ==
  /\ pc = "walk"
  /\ stack # << >>
  /\ Top.leaving = leaving

SkipMemoized ==
  /\ Popping(FALSE)
  /\ Top.node \in DOMAIN memo
  /\ stack' = Rest
  /\ UNCHANGED <<callArgs, pc, oracle, core, prune, result>>

\* Mutant: every visit of a shared node expands it again.
EnterAlways ==
  /\ Popping(FALSE)
  /\ LET kids == graph[Top.node].kids
     IN  stack' = Append(Rest, CFrame(Top.node, TRUE))
                  \o [i \in 1..Len(kids) |-> CFrame(kids[Len(kids) + 1 - i], FALSE)]
  /\ UNCHANGED <<callArgs, pc, oracle, core, prune, result>>

Enter ==
  /\ Popping(FALSE)
  /\ Top.node \notin DOMAIN memo
  /\ LET kids == graph[Top.node].kids
     IN  stack' = Append(Rest, CFrame(Top.node, TRUE))
                  \o [i \in 1..Len(kids) |-> CFrame(kids[Len(kids) + 1 - i], FALSE)]
  /\ UNCHANGED <<callArgs, pc, oracle, core, prune, result>>

\* register: the marker is popped, the payload computed and hashed.
Register(payload, id) ==
  /\ digests' = Extended(digests, payload, id)
  /\ stack' = Rest
  /\ builds' = [builds EXCEPT ![Top.node] = @ + 1]
  /\ UNCHANGED <<callArgs, contractDigests, prune>>

Build ==
  /\ Popping(TRUE)
  /\ ~BuildRaises(Top.node)
  /\ LET payload == BuildPayload(Top.node)
     IN  \E id \in Answers(digests, payload) :
           /\ Register(payload, id)
           /\ id \in DOMAIN canonNodes => canonNodes[id] = payload
           /\ canonNodes' = Extended(canonNodes, id, payload)
           /\ memo' = Extended(memo, Top.node, id)
  /\ UNCHANGED <<pc, result>>

\* Mutant: a colliding payload is taken for the one registered before.
CollisionMerged ==
  /\ Popping(TRUE)
  /\ ~BuildRaises(Top.node)
  /\ LET payload == BuildPayload(Top.node)
     IN  \E id \in Answers(digests, payload) :
           /\ Register(payload, id)
           /\ id \in DOMAIN canonNodes /\ canonNodes[id] # payload
           /\ memo' = Extended(memo, Top.node, id)
  /\ UNCHANGED <<pc, result, canonNodes>>

DetectCollision ==
  /\ Popping(TRUE)
  /\ ~BuildRaises(Top.node)
  /\ LET payload == BuildPayload(Top.node)
     IN  \E id \in Answers(digests, payload) :
           /\ Register(payload, id)
           /\ id \in DOMAIN canonNodes /\ canonNodes[id] # payload
  /\ Raise("CanonicalizationCollisionError")
  /\ UNCHANGED <<memo, canonNodes>>

\* The ValueError of str() is nobody's concern: it leaves canonicalize_contract
\* before anything was hashed.
FoldEscapes ==
  /\ Popping(TRUE)
  /\ BuildRaises(Top.node)
  /\ Raise("PythonError")
  /\ UNCHANGED <<callArgs, stack, oracle, core, prune>>

BeginPrune ==
  /\ pc = "walk"
  /\ stack = << >>
  /\ pc' = "prune"
  /\ pruneStack' = << memo[root] >>
  /\ UNCHANGED <<callArgs, stack, oracle, core, reachable, result>>

-----------------------------------------------------------------------------
(* Pruning and assembly.                                                   *)

\* Mutant: a field that is no reference is taken for one.
RefsAndValue(payload) == Append(payload.kids, payload.val)

\* _SINGLE_REF_FIELDS and _LIST_REF_FIELDS: every reference of a payload.
Refs(payload) == payload.kids

PruneTop == pruneStack[Len(pruneStack)]
PruneRest == SubSeq(pruneStack, 1, Len(pruneStack) - 1)

PruneSeen ==
  /\ pc = "prune"
  /\ pruneStack # << >>
  /\ PruneTop \in reachable
  /\ pruneStack' = PruneRest
  /\ UNCHANGED <<callArgs, pc, stack, oracle, core, reachable, result>>

PruneVisit ==
  /\ pc = "prune"
  /\ pruneStack # << >>
  /\ PruneTop \notin reachable
  /\ IF PruneTop \in DOMAIN canonNodes
     THEN /\ reachable' = reachable \cup {PruneTop}
          /\ pruneStack' = PruneRest \o Refs(canonNodes[PruneTop])
          /\ UNCHANGED <<pc, result>>
     ELSE /\ Raise("CanonicalizationError")
          /\ UNCHANGED prune
  /\ UNCHANGED <<callArgs, stack, oracle, core>>

\* Mutant: the whole table is serialized.
DocumentUnpruned == [root |-> memo[root], nodes |-> canonNodes]
Document == [root |-> memo[root],
             nodes |-> [id \in reachable |-> canonNodes[id]]]

WithinBounds(document) ==
  /\ Cardinality(DOMAIN document.nodes) <= config.nodes
  /\ ByteLength(document) <= config.bytes

AssembleTooComplex ==
  /\ pc = "prune"
  /\ pruneStack = << >>
  /\ ~WithinBounds(Document)
  /\ Raise("CanonicalizationComplexityError")
  /\ UNCHANGED <<callArgs, stack, oracle, core, prune>>

Assemble ==
  /\ pc = "prune"
  /\ pruneStack = << >>
  /\ WithinBounds(Document)
  /\ \E id \in Answers(contractDigests, Document) :
       /\ contractDigests' = Extended(contractDigests, Document, id)
       /\ result' = [kind |-> "canonical", document |-> Document, identity |-> id]
  /\ pc' = "done"
  /\ UNCHANGED <<callArgs, stack, digests, core, prune>>

Next ==
  \/ RejectConfig \/ AcceptConfig
  \/ ValidationFails \/ ValidationPasses
  \/ SkipMemoized \/ Enter \/ Build \/ DetectCollision \/ FoldEscapes
  \/ BeginPrune \/ PruneSeen \/ PruneVisit
  \/ AssembleTooComplex \/ Assemble

Spec == Init /\ [][Next]_vars

-----------------------------------------------------------------------------
(* Properties.                                                             *)

PayloadOK(p) ==
  /\ p.type \in SupportedTypes
  /\ Seq2Set(p.kids) \subseteq Ids
  /\ p.num \in Decimals

\* Every variable keeps its type.
TypeOK ==
  /\ graph \in Graphs /\ root \in Roots /\ config \in Configs
  /\ pc \in {"config", "validate", "walk", "prune", "done"}
  /\ stack \in Seq([node : Node, leaving : BOOLEAN])
  /\ DOMAIN memo \subseteq Node /\ DOMAIN canonNodes \subseteq Ids
  /\ \A n \in DOMAIN memo : memo[n] \in Ids
  /\ \A id \in DOMAIN canonNodes : PayloadOK(canonNodes[id])
  /\ \A p \in DOMAIN digests : digests[p] \in Ids
  /\ \A d \in DOMAIN contractDigests : contractDigests[d] \in Ids
  /\ pruneStack \in Seq(Ids) /\ reachable \subseteq Ids
  /\ result.kind \in {"none", "canonical"} \cup CanonicalizationErrors
  /\ builds \in [Node -> Nat]

\* The content-addressed table is sound while it grows: every id stands for
\* the payload that hashes to it, every memoized object stands for the payload
\* it would be given now, and every reference of a payload in the table is in
\* the table (so the prune traversal can never miss a node).
TableSound ==
  /\ ContentAddressed(canonNodes, digests)
  /\ \A id \in DOMAIN canonNodes :
       Seq2Set(canonNodes[id].kids) \subseteq DOMAIN canonNodes
  /\ \A n \in DOMAIN memo :
       memo[n] \in DOMAIN canonNodes /\ canonNodes[memo[n]] = BuildPayload(n)

\* However objects are shared, each is canonicalized once, after all of its
\* children, and in the end exactly the reachable ones have been: although the
\* traversal remembers finished objects only, and leaves cycles to validation.
BuiltOnce ==
  /\ \A n \in Node :
       /\ builds[n] <= 1
       /\ n \in DOMAIN memo => ChildSet(graph, n) \subseteq DOMAIN memo
  /\ pc = "prune" /\ reachable = {} => DOMAIN memo = Reach(graph, root)

\* The document is the graph of a contract again: closed under references and
\* nothing else than what its root reaches, acyclic, operands of the classes
\* and the units that the constructors require, and no node twice; whatever
\* was folded, merged, collapsed or left behind in the table.
DocumentIsWellFormed ==
  result.kind = "canonical" => IsWellFormed(result.document)

\* Nothing is left to normalize in a document: no nested collection, no
\* unsorted operands, no foldable literals, no branch on a constant.
DocumentIsNormal ==
  result.kind = "canonical" => IsNormal(result.document.nodes)

\* canonicalization-spec.md:352-354: if the result "would exceed the" bounds,
\* "the fold is not applied and the node is retained unchanged": no contract
\* that validates makes canonicalization end in a bare ValueError.
LongFoldsRetained ==
  result.kind = "PythonError" =>
    RejectionPromised(graph, root, config.validation, "PythonError")

\* canonicalization-spec.md:382-385: after canonicalization "the denominator
\* is a non-zero dimensionless literal when literals are present".
DenominatorsNonZero ==
  result.kind = "canonical" =>
    LET nodes == result.document.nodes
    IN  \A id \in DOMAIN nodes :
          nodes[id].type = "Divide" =>
            LET denominator == nodes[nodes[id].kids[2]]
            IN  IsLiteral(denominator) => denominator.num # DecZero
=============================================================================
