---------------------------- MODULE PayoffGraph ----------------------------
(***************************************************************************)
(* compile_payoff_graph: gate the arguments, canonicalize the contract,    *)
(* compile the canonical document node by node in post-order into payoff   *)
(* payloads addressed by their own digests, collect what the payoff root   *)
(* reaches in a second traversal, and check the limits.  One action per    *)
(* loop iteration or early exit.                                           *)
(*                                                                         *)
(* canonicalize_contract is taken by its outcome: an argument of the call  *)
(* (Canonicalization models how it comes about).  A payoff payload is a    *)
(* payload of CanonicalDocument with a PG type and payoff ids as children. *)
(***************************************************************************)
EXTENDS CanonicalDocument, DigestOracle

CONSTANTS Outcomes,  \* what canonicalize_contract may do with the contract
          Configs    \* the schema and limits arguments

ASSUME PayoffAssumption ==
  \A c \in Configs :
    /\ c.schema \in {"supported", "other"}
    /\ c.form \in {"exact", "forged"}           \* of payoff_limits
    /\ c.canonical \in {"supported", "other"}   \* canonical schema and limits
    /\ c.nodes \in Nat /\ c.structural \in Nat /\ c.document \in Nat

CanonicalizationErrors ==
  {"CanonicalizationInputError", "CanonicalizationCycleError",
   "CanonicalizationComplexityError", "CanonicalizationNotValidatedError",
   "CanonicalizationCollisionError", "CanonicalizationError", "PythonError"}

\* What canonicalize_contract promises of a document (DocumentIsWellFormed and
\* DocumentIsNormal of Canonicalization).
ASSUME OutcomesAssumption ==
  \A o \in Outcomes :
    /\ o.kind \in {"canonical", "not a contract"} \cup CanonicalizationErrors
    /\ o.kind = "canonical" =>
         IsWellFormed(o.document) /\ IsNormal(o.document.nodes)

VARIABLES
  outcome, config,  \* the arguments
  pc,          \* "config", "canonicalize", "compile", "traverse", "done"
  stack,       \* frames [id, leaving] over canonical ids, the last on top
  colour,      \* state: canonical id -> "visiting" or "visited"
  idOf,        \* pg_id_by_canon: canonical id -> payoff id
  unitOf,      \* pg_unit_by_canon
  payoffs,     \* pg_id_seen, pg_payload_by_pgid, pg_type_by_pgid
  digests,     \* the payoff node oracle: payload -> id
  graphDigests,    \* the payoff graph oracle: structural document -> id
  walk, walkColour, records,  \* _traverse_payoff_graph
  result,
  compiles     \* history: how many nodes were compiled

callArgs == <<outcome, config>>
oracle == <<digests, graphDigests>>
core == <<colour, idOf, unitOf, payoffs, compiles>>
traversal == <<walk, walkColour, records>>
vars == <<outcome, config, pc, stack, colour, idOf, unitOf, payoffs, digests,
          graphDigests, walk, walkColour, records, result, compiles>>

NoGraph == [root |-> 0, nodes |-> << >>]
NoResult == [kind |-> "none", graph |-> NoGraph, identity |-> 0]
PayoffGraphErrors ==
  {"PayoffGraphInputError", "PayoffGraphComplexityError",
   "PayoffGraphCollisionError", "PayoffGraphCompilationError"}

Init ==
  /\ outcome \in Outcomes
  /\ config \in Configs
  /\ pc = "config"
  /\ stack = << >>
  /\ colour = << >> /\ idOf = << >> /\ unitOf = << >> /\ payoffs = << >>
  /\ digests = << >>
  /\ graphDigests = << >>
  /\ walk = << >> /\ walkColour = << >> /\ records = << >>
  /\ result = NoResult
  /\ compiles = 0

\* A second call in the same process: nothing is left of the first one.
Restart(nextOutcome) ==
  /\ outcome' = nextOutcome
  /\ pc' = "config"
  /\ stack' = << >>
  /\ colour' = << >> /\ idOf' = << >> /\ unitOf' = << >> /\ payoffs' = << >>
  /\ walk' = << >> /\ walkColour' = << >> /\ records' = << >>
  /\ result' = NoResult
  /\ compiles' = 0
  /\ UNCHANGED <<config, oracle>>

Raise(kind) ==
  /\ pc' = "done"
  /\ result' = [NoResult EXCEPT !.kind = kind]

-----------------------------------------------------------------------------
(* The gates of compile_payoff_graph, in their order.                      *)

\* _validate_payoff_schema_version and _validate_payoff_graph_limits, the
\* canonical pair of them, and the class of the contract
ConfigError ==
  CASE config.schema = "other" -> "PayoffGraphInputError"
    [] config.form = "forged" -> "PayoffGraphInputError"
    [] config.nodes = 0 \/ config.structural = 0 \/ config.document = 0 ->
         "PayoffGraphInputError"
    [] config.structural > config.document -> "PayoffGraphInputError"
    [] config.canonical = "other" -> "CanonicalizationInputError"
    [] outcome.kind = "not a contract" -> "PayoffGraphInputError"
    [] OTHER -> "none"

RejectConfig ==
  /\ pc = "config"
  /\ ConfigError # "none"
  /\ Raise(ConfigError)
  /\ UNCHANGED <<callArgs, stack, oracle, core, traversal>>

AcceptConfig ==
  /\ pc = "config"
  /\ ConfigError = "none"
  /\ pc' = "canonicalize"
  /\ UNCHANGED <<callArgs, stack, oracle, core, traversal, result>>

\* The errors of canonicalize_contract propagate unchanged.
CanonicalizationFails ==
  /\ pc = "canonicalize"
  /\ outcome.kind # "canonical"
  /\ Raise(outcome.kind)
  /\ UNCHANGED <<callArgs, stack, oracle, core, traversal>>

Frame(id, leaving) == [id |-> id, leaving |-> leaving]

BeginCompile ==
  /\ pc = "canonicalize"
  /\ outcome.kind = "canonical"
  /\ pc' = "compile"
  /\ stack' = << Frame(outcome.document.root, FALSE) >>
  /\ UNCHANGED <<callArgs, oracle, core, traversal, result>>

-----------------------------------------------------------------------------
(* map_node.                                                               *)

PGType == [Number |-> "PGConstant", Observable |-> "PGObservable",
           BooleanConstant |-> "PGBooleanConstant", Zero |-> "PGCombine",
           Add |-> "PGAdd", Maximum |-> "PGMaximum", Minimum |-> "PGMinimum",
           AllOf |-> "PGAllOf", AnyOf |-> "PGAnyOf", Both |-> "PGCombine",
           Subtract |-> "PGSubtract", Multiply |-> "PGMultiply",
           Divide |-> "PGDivide", Negate |-> "PGNegate",
           Comparison |-> "PGComparison", Not |-> "PGNot",
           Payment |-> "PGPayment", Scale |-> "PGScale",
           ConditionalValue |-> "PGConditionalValue",
           ConditionalContract |-> "PGConditionalContract"]

ValueCategory == {PGType[t] : t \in ScalarTypes}
BooleanCategory == {PGType[t] : t \in BooleanTypes}
ContractCategory == {PGType[t] : t \in ContractTypes}

\* What map_node looks up of a compiled child.
TypeOf(id) == IF id \in DOMAIN payoffs THEN payoffs[id].type ELSE "none"
Kid(c) == [id |-> idOf[c], unit |-> unitOf[c], type |-> TypeOf(idOf[c])]
KidsOf(node) == [i \in 1..Len(node.kids) |-> Kid(node.kids[i])]

IdsOf(kids) == [i \in 1..Len(kids) |-> kids[i].id]

\* require_category, of every child
AllIn(kids, category) == \A i \in 1..Len(kids) : kids[i].type \in category

\* The payload, the unit of its value, and whether every check was passed.
Mapped(node, ids, unit, allowed) ==
  [payload |-> Payload(PGType[node.type], ids, node.unit, node.val, node.num,
                       node.op),
   unit |-> unit, allowed |-> allowed]

\* Mutant: the second key of an observable, its time, is dropped.
MapLeafTimeless(node) ==
  Mapped([node EXCEPT !.val = 0], << >>, node.unit, TRUE)

MapLeaf(node) ==
  Mapped(node, << >>, IF node.type \in ScalarTypes THEN node.unit ELSE "none", TRUE)

Collected(node, kids, ids) ==
  IF node.type \in BooleanTypes
  THEN Mapped(node, ids, "none", AllIn(kids, BooleanCategory))
  ELSE Mapped(node, ids, kids[1].unit,
              /\ AllIn(kids, ValueCategory)
              /\ \A i \in 1..Len(kids) : kids[i].unit = kids[1].unit)

\* Mutant: the operands keep the order of the canonical digests.
MapCollectionCanonicalOrder(node, kids) == Collected(node, kids, IdsOf(kids))

\* map_collection: sorted by payoff id, of one category, of one unit
MapCollection(node, kids) == Collected(node, kids, SortedIds(IdsOf(kids)))

MapBoth(node, kids) ==
  Mapped(node, IdsOf(kids), "none", AllIn(kids, ContractCategory))

\* A product is ordered by payoff id (_canonical_multiply_order) and has the
\* money unit of its factors; the other operators keep the order of fields.
MapArithmetic(node, kids) ==
  LET ids == IdsOf(kids)
      unit(i) == kids[i].unit
      values == AllIn(kids, ValueCategory)
  IN  CASE node.type = "Subtract" ->
             Mapped(node, ids, unit(1), values /\ unit(1) = unit(2))
        [] node.type = "Multiply" ->
             Mapped(node, SortedIds(ids), MultiplyUnit(unit(1), unit(2)),
                    values /\ ~(IsMoney(unit(1)) /\ IsMoney(unit(2))))
        [] node.type = "Divide" ->
             Mapped(node, ids, unit(1), values /\ unit(2) = "scalar")
        [] node.type = "Negate" -> Mapped(node, ids, unit(1), values)

MapCondition(node, kids) ==
  Mapped(node, IdsOf(kids), "none",
         AllIn(kids, IF node.type = "Not" THEN BooleanCategory ELSE ValueCategory))

MapPayment(node, kids) ==
  Mapped(node, IdsOf(kids), "none",
         /\ AllIn(kids, ValueCategory)
         /\ IsMoney(kids[1].unit) /\ kids[1].unit = node.unit)

MapScale(node, kids) ==
  Mapped(node, IdsOf(kids), "none",
         /\ kids[1].type \in ValueCategory /\ kids[1].unit = "scalar"
         /\ kids[2].type \in ContractCategory)

\* Mutant: true_payoff is read from the false branch.
MapConditionalSwapped(node, kids) ==
  Mapped(node, <<kids[1].id, kids[3].id, kids[2].id>>, kids[2].unit, TRUE)

MapConditional(node, kids) ==
  LET isValue == node.type = "ConditionalValue"
      branch == IF isValue THEN ValueCategory ELSE ContractCategory
  IN  Mapped(node, IdsOf(kids), IF isValue THEN kids[2].unit ELSE "none",
             /\ kids[1].type \in BooleanCategory
             /\ kids[2].type \in branch /\ kids[3].type \in branch
             /\ isValue => kids[2].unit = kids[3].unit)

MapNode(node, kids) ==
  CASE node.type \in {"Number", "Observable", "BooleanConstant", "Zero"} ->
         MapLeaf(node)
    [] node.type \in {"Add", "Maximum", "Minimum", "AllOf", "AnyOf"} ->
         MapCollection(node, kids)
    [] node.type = "Both" -> MapBoth(node, kids)
    [] node.type \in {"Subtract", "Multiply", "Divide", "Negate"} ->
         MapArithmetic(node, kids)
    [] node.type \in {"Comparison", "Not"} -> MapCondition(node, kids)
    [] node.type = "Payment" -> MapPayment(node, kids)
    [] node.type = "Scale" -> MapScale(node, kids)
    [] node.type \in {"ConditionalValue", "ConditionalContract"} ->
         MapConditional(node, kids)

\* The canonical node, mapped with what its children compiled to.
Compiled(node) == MapNode(node, KidsOf(node))

-----------------------------------------------------------------------------
(* The compilation walk.                                                   *)

Top == stack[Len(stack)]
Rest == SubSeq(stack, 1, Len(stack) - 1)
TopNode == outcome.document.nodes[Top.id]

Popping(leaving) ==
  /\ pc = "compile"
  /\ stack # << >>
  /\ Top.leaving = leaving

\* _decode_canonical_record: the id resolves to a payload of a known type
\* with enough operands
Decodable(id) ==
  /\ id \in DOMAIN outcome.document.nodes
  /\ LET node == outcome.document.nodes[id]
     IN  /\ node.type \in SupportedTypes
         /\ node.type \in CollectionTypes => Len(node.kids) >= 2

\* Mutant: only the nodes on the path are remembered.
VisitedNever(id) == FALSE

Visited(id) == id \in DOMAIN colour /\ colour[id] = "visited"
Visiting(id) == id \in DOMAIN colour /\ colour[id] = "visiting"

\* Mutant: the frame of a visited node is read and not popped.
SkipVisitedPeeking ==
  /\ Popping(FALSE)
  /\ Visited(Top.id)
  /\ UNCHANGED vars

SkipVisited ==
  /\ Popping(FALSE)
  /\ Visited(Top.id)
  /\ stack' = Rest
  /\ UNCHANGED <<callArgs, pc, oracle, core, traversal, result>>

\* The children are pushed in the order of the fields: the last is compiled
\* first.  Meeting a node that is being visited would be a cycle.
Schedule ==
  /\ Popping(FALSE)
  /\ ~Visited(Top.id)
  /\ IF Visiting(Top.id) \/ ~Decodable(Top.id)
     THEN /\ Raise("PayoffGraphCompilationError")
          /\ UNCHANGED <<stack, colour>>
     ELSE /\ stack' = Append(Rest, Frame(Top.id, TRUE))
                \o [i \in 1..Len(TopNode.kids) |-> Frame(TopNode.kids[i], FALSE)]
          /\ colour' = Extended(colour, Top.id, "visiting")
          /\ UNCHANGED <<pc, result>>
  /\ UNCHANGED <<callArgs, oracle, idOf, unitOf, payoffs, compiles, traversal>>

\* Mutant: a node without a value leaves no entry in pg_unit_by_canon.
RecordUnitsOfValues(node, id) ==
  /\ payoffs' = Extended(payoffs, id, node.payload)
  /\ idOf' = Extended(idOf, Top.id, id)
  /\ unitOf' = IF node.unit = "none" THEN unitOf
               ELSE Extended(unitOf, Top.id, node.unit)
  /\ stack' = Rest
  /\ colour' = Extended(colour, Top.id, "visited")
  /\ compiles' = compiles + 1

Record(node, id) ==
  /\ payoffs' = Extended(payoffs, id, node.payload)
  /\ idOf' = Extended(idOf, Top.id, id)
  /\ unitOf' = Extended(unitOf, Top.id, node.unit)
  /\ stack' = Rest
  /\ colour' = Extended(colour, Top.id, "visited")
  /\ compiles' = compiles + 1

\* Mutant: pg_id_seen is not consulted, the later payload takes the id over.
CompileOverwriting ==
  /\ Popping(TRUE)
  /\ LET node == Compiled(TopNode)
     IN  \E id \in Answers(digests, node.payload) :
           /\ digests' = Extended(digests, node.payload, id)
           /\ Record(node, id)
  /\ UNCHANGED <<callArgs, pc, graphDigests, traversal, result>>

CompileNode ==
  /\ Popping(TRUE)
  /\ LET node == Compiled(TopNode)
     IN  IF ~node.allowed
         THEN /\ Raise("PayoffGraphInputError")
              /\ UNCHANGED <<stack, digests, core>>
         ELSE \E id \in Answers(digests, node.payload) :
                /\ digests' = Extended(digests, node.payload, id)
                /\ id \in DOMAIN payoffs => payoffs[id] = node.payload
                /\ Record(node, id)
                /\ UNCHANGED <<pc, result>>
  /\ UNCHANGED <<callArgs, graphDigests, traversal>>

DetectCollision ==
  /\ Popping(TRUE)
  /\ LET node == Compiled(TopNode)
     IN  /\ node.allowed
         /\ \E id \in Answers(digests, node.payload) :
              /\ digests' = Extended(digests, node.payload, id)
              /\ id \in DOMAIN payoffs /\ payoffs[id] # node.payload
  /\ Raise("PayoffGraphCollisionError")
  /\ UNCHANGED <<callArgs, stack, graphDigests, core, traversal>>

-----------------------------------------------------------------------------
(* _traverse_payoff_graph and the result.                                  *)

BeginTraversal ==
  /\ pc = "compile"
  /\ stack = << >>
  /\ pc' = "traverse"
  /\ walk' = << Frame(idOf[outcome.document.root], FALSE) >>
  /\ UNCHANGED <<callArgs, stack, oracle, core, walkColour, records, result>>

WalkTop == walk[Len(walk)]
WalkRest == SubSeq(walk, 1, Len(walk) - 1)
WalkVisited == WalkTop.id \in DOMAIN walkColour /\ walkColour[WalkTop.id] = "visited"
WalkVisiting ==
  WalkTop.id \in DOMAIN walkColour /\ walkColour[WalkTop.id] = "visiting"

Walking(leaving) ==
  /\ pc = "traverse"
  /\ walk # << >>
  /\ WalkTop.leaving = leaving

\* Mutant: the branches of a conditional are missing from _PG_SINGLE_REF.
RefsOfCondition(payload) ==
  IF payload.type = "PGConditionalContract" THEN << payload.kids[1] >>
  ELSE payload.kids

\* _PG_SINGLE_REF and _PG_LIST_REF
Refs(payload) == payload.kids

TraverseSkip ==
  /\ Walking(FALSE)
  /\ WalkVisited
  /\ walk' = WalkRest
  /\ UNCHANGED <<callArgs, pc, stack, oracle, core, walkColour, records, result>>

TraverseVisit ==
  /\ Walking(FALSE)
  /\ ~WalkVisited
  /\ IF WalkVisiting \/ WalkTop.id \notin DOMAIN payoffs
     THEN /\ Raise("PayoffGraphCompilationError")
          /\ UNCHANGED <<walk, walkColour>>
     ELSE LET refs == Refs(payoffs[WalkTop.id])
          IN  /\ walk' = Append(WalkRest, Frame(WalkTop.id, TRUE))
                           \o [i \in 1..Len(refs) |-> Frame(refs[i], FALSE)]
              /\ walkColour' = Extended(walkColour, WalkTop.id, "visiting")
              /\ UNCHANGED <<pc, result>>
  /\ UNCHANGED <<callArgs, stack, oracle, core, records>>

TraverseLeave ==
  /\ Walking(TRUE)
  /\ walk' = WalkRest
  /\ walkColour' = Extended(walkColour, WalkTop.id, "visited")
  /\ records' = Extended(records, WalkTop.id, payoffs[WalkTop.id])
  /\ UNCHANGED <<callArgs, pc, stack, oracle, core, result>>

Structural == [root |-> idOf[outcome.document.root], nodes |-> records]

\* What the provenance block adds to the structural bytes.
ProvenanceLength == 1

\* Mutant: the document limit bounds the structural bytes.
WithinLimitsStructuralTwice(graph) ==
  /\ Cardinality(DOMAIN graph.nodes) <= config.nodes
  /\ ByteLength(graph) <= config.structural
  /\ ByteLength(graph) <= config.document

WithinLimits(graph) ==
  /\ Cardinality(DOMAIN graph.nodes) <= config.nodes
  /\ ByteLength(graph) <= config.structural
  /\ ByteLength(graph) + ProvenanceLength <= config.document

TooComplex ==
  /\ pc = "traverse"
  /\ walk = << >>
  /\ ~WithinLimits(Structural)
  /\ Raise("PayoffGraphComplexityError")
  /\ UNCHANGED <<callArgs, stack, oracle, core, traversal>>

Return ==
  /\ pc = "traverse"
  /\ walk = << >>
  /\ WithinLimits(Structural)
  /\ \E id \in Answers(graphDigests, Structural) :
       /\ graphDigests' = Extended(graphDigests, Structural, id)
       /\ result' = [kind |-> "payoff graph", graph |-> Structural, identity |-> id]
  /\ pc' = "done"
  /\ UNCHANGED <<callArgs, stack, digests, core, traversal>>

Next ==
  \/ RejectConfig \/ AcceptConfig \/ CanonicalizationFails
  \/ BeginCompile \/ SkipVisited \/ Schedule \/ CompileNode \/ DetectCollision
  \/ BeginTraversal \/ TraverseSkip \/ TraverseVisit \/ TraverseLeave
  \/ TooComplex \/ Return

Spec == Init /\ [][Next]_vars

-----------------------------------------------------------------------------
(* Properties.                                                             *)

Colours == {"visiting", "visited"}
CanonicalIds == DOMAIN outcome.document.nodes

\* Every variable keeps its type.
TypeOK ==
  /\ outcome \in Outcomes /\ config \in Configs
  /\ pc \in {"config", "canonicalize", "compile", "traverse", "done"}
  /\ stack \in Seq([id : CanonicalIds, leaving : BOOLEAN])
  /\ DOMAIN colour \subseteq CanonicalIds
  /\ \A c \in DOMAIN colour : colour[c] \in Colours
  /\ DOMAIN idOf \subseteq CanonicalIds /\ DOMAIN unitOf = DOMAIN idOf
  /\ \A c \in DOMAIN idOf : /\ idOf[c] \in Ids
                            /\ unitOf[c] \in ValidUnits \cup {"none"}
  /\ DOMAIN payoffs \subseteq Ids
  /\ \A p \in DOMAIN digests : digests[p] \in Ids
  /\ \A g \in DOMAIN graphDigests : graphDigests[g] \in Ids
  /\ walk \in Seq([id : Ids, leaving : BOOLEAN])
  /\ DOMAIN walkColour \subseteq Ids /\ DOMAIN records \subseteq DOMAIN walkColour
  /\ result.kind \in {"none", "payoff graph"} \cup PayoffGraphErrors
                     \cup CanonicalizationErrors
  /\ compiles \in Nat

\* The payoff table is sound while it grows, whatever the digests are: every
\* payoff id stands for the payload that hashes to it, and every compiled
\* canonical node stands for the payload and the unit it would be given now,
\* so the second traversal, which reads the table by payoff id only, finds
\* what the compiler put there.
PayoffTableSound ==
  /\ ContentAddressed(payoffs, digests)
  /\ \A id \in DOMAIN payoffs :
       Seq2Set(payoffs[id].kids) \subseteq DOMAIN payoffs
  /\ \A c \in DOMAIN idOf :
       LET node == outcome.document.nodes[c]
       IN  /\ Seq2Set(node.kids) \subseteq DOMAIN idOf
           /\ idOf[c] \in DOMAIN payoffs
           /\ payoffs[idOf[c]] = Compiled(node).payload
           /\ unitOf[c] = Compiled(node).unit

\* A shared canonical node is compiled once, however many references lead to
\* it, and every node of the document is compiled before the second traversal.
CompiledOnce ==
  /\ compiles = Cardinality(DOMAIN idOf)
  /\ pc = "traverse" => DOMAIN idOf = CanonicalIds

\* Compilation never makes one payoff node of two canonical ones, nor loses
\* one, although it renames types and sorts operands again.
NodesStayApart ==
  /\ \A c, d \in DOMAIN idOf : idOf[c] = idOf[d] => c = d
  /\ result.kind = "payoff graph" =>
       Cardinality(DOMAIN result.graph.nodes) = Cardinality(CanonicalIds)

\* The payoff graph is closed under references and holds nothing else than
\* what its root reaches, in the reference fields of the second traversal.
PayoffGraphIsReach ==
  result.kind = "payoff graph" => IsReach(result.graph)

\* What a caller is promised: a graph within the limits; an error only for its
\* reason, the errors of canonicalization as they are, and never one of the
\* internal checks on the canonical document.
AnswersAsPromised ==
  CASE result.kind = "none" -> pc # "done"
    [] result.kind = "payoff graph" ->
         /\ ConfigError = "none" /\ outcome.kind = "canonical"
         /\ Cardinality(DOMAIN result.graph.nodes) <= config.nodes
         /\ ByteLength(result.graph) < config.document
    [] result.kind = "PayoffGraphComplexityError" ->
         /\ outcome.kind = "canonical"
         /\ \/ Cardinality(CanonicalIds) > config.nodes
            \/ ByteLength(outcome.document) > config.structural
            \/ ByteLength(outcome.document) >= config.document
    [] result.kind = "PayoffGraphCollisionError" ->
         Oracle = "any" /\ outcome.kind = "canonical"
    [] OTHER -> result.kind \in {ConfigError, outcome.kind}
=============================================================================
