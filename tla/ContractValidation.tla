------------------------- MODULE ContractValidation -------------------------
(***************************************************************************)
(* validate_contract: the iterative depth-first walk over the object graph *)
(* with an explicit stack, an ancestor set (grey nodes), an explored set   *)
(* (black nodes) and the greatest depth each node was expanded at.  One    *)
(* action per outcome of a loop iteration.  The graph, the root and the    *)
(* limits are chosen in Init and never change: the walk runs no callback.  *)
(***************************************************************************)
EXTENDS ValidationPromise

CONSTANTS Graphs,        \* the graphs a caller may pass
          Roots,         \* the root objects a caller may pass
          LimitChoices,  \* the limits arguments a caller may pass
          DefaultLimits  \* ValidationLimits.default()

(***************************************************************************)
(* A limits argument is a record [form, depth, nodes].  form is "exact",   *)
(* "forged" (a ValidationLimits whose stored fields break its invariants,  *)
(* or a subclass of it), "foreign" (another class) or "none" (omitted).    *)
(***************************************************************************)
LimitsForms == {"exact", "forged", "foreign", "none"}
LimitsArgument == [form : LimitsForms, depth : Nat, nodes : Nat]

NodeRecord == [type : STRING, kids : Seq(Node), slots : STRING, unit : STRING,
               val : Int, op : STRING, sound : BOOLEAN]

ASSUME GraphsAssumption == Graphs \subseteq [Node -> NodeRecord]
\* The fields of a class are its slots; only an operand collection can be
\* iterable without being a tuple.
ASSUME FieldsAssumption ==
  \A g \in Graphs : \A n \in Node :
    /\ g[n].slots \in {"tuple", "list", "opaque"}
    /\ g[n].type \in DOMAIN Arity =>
         g[n].slots # "list" /\ (IsIterable(g[n]) => Len(g[n].kids) = Arity[g[n].type])
ASSUME RootsAssumption == Roots \subseteq Node
ASSUME LimitsAssumption ==
  /\ LimitChoices \subseteq LimitsArgument
  /\ DefaultLimits \in LimitsArgument
  /\ DefaultLimits.form = "exact"
  /\ \A l \in LimitChoices \cup {DefaultLimits} :
       l.form = "exact" => l.depth > 0 /\ l.nodes > 0

VARIABLES
  graph, root, limitsArg, \* the arguments
  pc,          \* "entry", "walk" or "done"
  stack,       \* frames; the last element is the top
  explored, ancestors, counted, bestDepth, nodeCount, maxDepth,
  result,      \* what the call returned or raised
  expansions   \* history: how often each node was entered

args == <<graph, root, limitsArg>>
walkVars == <<explored, ancestors, counted, bestDepth, nodeCount, maxDepth,
              expansions>>
vars == <<graph, root, limitsArg, pc, stack, explored, ancestors, counted,
          bestDepth, nodeCount, maxDepth, result, expansions>>

Limits == IF limitsArg.form = "none" THEN DefaultLimits ELSE limitsArg

NoPath == <<0>>    \* an error raised without a structural path
\* Mutant: the root counts as depth 0.
FrameFromZero(n, d, p, l) ==
  [node |-> n, depth |-> d - 1, path |-> p, leaving |-> l]
Frame(n, d, p, l) == [node |-> n, depth |-> d, path |-> p, leaving |-> l]
FrameType == [node : Node, depth : Nat \ {0}, path : Seq(Nat),
              leaving : BOOLEAN]

NoResult == [kind |-> "none", path |-> NoPath, nodeCount |-> 0, maxDepth |-> 0]
ErrorKinds == {"ContractCycleError", "ContractComplexityError", Invalid,
               Mismatch, "PythonError"}

Init ==
  /\ graph \in Graphs
  /\ root \in Roots
  /\ limitsArg \in LimitChoices
  /\ pc = "entry"
  /\ stack = << >>
  /\ explored = {}
  /\ ancestors = {}
  /\ counted = {}
  /\ bestDepth = [n \in Node |-> 0]
  /\ nodeCount = 0
  /\ maxDepth = 0
  /\ result = NoResult
  /\ expansions = [n \in Node |-> 0]

Raise(kind, path) ==
  /\ pc' = "done"
  /\ result' = [kind |-> kind, path |-> path, nodeCount |-> 0, maxDepth |-> 0]

-----------------------------------------------------------------------------
(* Entry checks.                                                           *)

RejectLimits ==
  /\ pc = "entry"
  /\ \/ Limits.form = "foreign" /\ Raise(Mismatch, NoPath)
     \/ Limits.form = "forged" /\ Raise(Invalid, << >>)
  /\ UNCHANGED <<args, stack, walkVars>>

RejectRoot ==
  /\ pc = "entry"
  /\ Limits.form = "exact"
  /\ ~IsContract(graph[root])
  /\ Raise(Invalid, << >>)
  /\ UNCHANGED <<args, stack, walkVars>>

Begin ==
  /\ pc = "entry"
  /\ Limits.form = "exact"
  /\ IsContract(graph[root])
  /\ pc' = "walk"
  /\ stack' = << Frame(root, 1, << >>, FALSE) >>
  /\ UNCHANGED <<args, walkVars, result>>

-----------------------------------------------------------------------------
(* Popping a frame.                                                        *)

Top == stack[Len(stack)]
Rest == SubSeq(stack, 1, Len(stack) - 1)

Popping(leaving) ==
  /\ pc = "walk"
  /\ stack # << >>
  /\ Top.leaving = leaving

\* Mutants: the node stays an ancestor; its invariants are not checked.
LeaveStaysGrey ==
  /\ Popping(TRUE)
  /\ NodeError(graph, Top.node) = Pass
  /\ explored' = explored \cup {Top.node}
  /\ stack' = Rest
  /\ UNCHANGED <<args, pc, ancestors, counted, bestDepth, nodeCount, maxDepth,
                 result, expansions>>

LeaveUnchecked ==
  /\ Popping(TRUE)
  /\ explored' = explored \cup {Top.node}
  /\ ancestors' = ancestors \ {Top.node}
  /\ stack' = Rest
  /\ UNCHANGED <<args, pc, counted, bestDepth, nodeCount, maxDepth, result,
                 expansions>>

\* The post-order marker: the node's own invariants hold, it turns black.
Leave ==
  /\ Popping(TRUE)
  /\ NodeError(graph, Top.node) = Pass
  /\ explored' = explored \cup {Top.node}
  /\ ancestors' = ancestors \ {Top.node}
  /\ stack' = Rest
  /\ UNCHANGED <<args, pc, counted, bestDepth, nodeCount, maxDepth, result,
                 expansions>>

\* ... or they do not, and the call raises.
LeaveInvalid ==
  /\ Popping(TRUE)
  /\ \/ /\ NodeError(graph, Top.node) = InvalidNoPath
        /\ Raise(Invalid, NoPath)
     \/ \E error \in {Invalid, Mismatch} :
          NodeError(graph, Top.node) = error /\ Raise(error, Top.path)
  /\ stack' = Rest
  /\ UNCHANGED <<args, walkVars>>

DetectCycle ==
  /\ Popping(FALSE)
  /\ Top.node \in ancestors
  /\ Raise("ContractCycleError", Top.path)
  /\ stack' = Rest
  /\ UNCHANGED <<args, walkVars>>

\* Mutants: skip only what was explored deeper; skip whatever was explored.
ExploredDeeper(f) == f.node \in explored /\ bestDepth[f.node] > f.depth
ExploredEver(f) == f.node \in explored

AlreadyExplored(f) == f.node \in explored /\ bestDepth[f.node] >= f.depth

\* Mutant: the skipped frame is read but not popped.
SkipWithoutPop ==
  /\ Popping(FALSE)
  /\ Top.node \notin ancestors
  /\ AlreadyExplored(Top)
  /\ UNCHANGED vars

SkipExplored ==
  /\ Popping(FALSE)
  /\ Top.node \notin ancestors
  /\ AlreadyExplored(Top)
  /\ stack' = Rest
  /\ UNCHANGED <<args, pc, walkVars, result>>

\* The bookkeeping every entered node gets before any check on it.
Visit(f) ==
  /\ Popping(FALSE)
  /\ f.node \notin ancestors
  /\ ~AlreadyExplored(f)
  /\ ancestors' = ancestors \cup {f.node}
  /\ counted' = counted \cup {f.node}
  /\ nodeCount' = IF f.node \in counted THEN nodeCount ELSE nodeCount + 1
  /\ bestDepth' = [bestDepth EXCEPT ![f.node] = IF @ >= f.depth THEN @
                                                ELSE f.depth]
  /\ maxDepth' = IF f.depth > maxDepth THEN f.depth ELSE maxDepth
  /\ expansions' = [expansions EXCEPT ![f.node] = @ + 1]
  /\ UNCHANGED <<args, explored>>

WithinLimits(f) == f.depth <= Limits.depth /\ nodeCount' <= Limits.nodes

VisitTooComplex ==
  /\ Visit(Top)
  /\ ~WithinLimits(Top)
  /\ Raise("ContractComplexityError", Top.path)
  /\ stack' = Rest

VisitUnsupported ==
  /\ Visit(Top)
  /\ WithinLimits(Top)
  /\ ~IsSupported(graph[Top.node])
  /\ Raise(Invalid, Top.path)
  /\ stack' = Rest

\* _iter_children reads a field that is missing or not iterable: the Python
\* error is not caught, and it carries no structural path.  The marker has
\* been pushed by then.
VisitOpaque ==
  /\ Visit(Top)
  /\ WithinLimits(Top)
  /\ IsSupported(graph[Top.node])
  /\ ~IsIterable(graph[Top.node])
  /\ Raise("PythonError", NoPath)
  /\ stack' = Append(Rest, [Top EXCEPT !.leaving = TRUE])

\* Mutant: the path counts the children in the reversed order.
ChildFramesMisnumbered(f) ==
  LET kids == graph[f.node].kids
  IN  [i \in 1..Len(kids) |->
         Frame(kids[Len(kids) + 1 - i], f.depth + 1, Append(f.path, i), FALSE)]

\* The marker, then the children in reverse: the first child is on top.
ChildFrames(f) ==
  LET kids == graph[f.node].kids
  IN  [i \in 1..Len(kids) |->
         LET k == Len(kids) + 1 - i
         IN  Frame(kids[k], f.depth + 1, Append(f.path, k), FALSE)]

\* Mutant: the marker goes on top of the children (pre-order).
ExpandPreOrder ==
  /\ Visit(Top)
  /\ WithinLimits(Top)
  /\ IsSupported(graph[Top.node])
  /\ IsIterable(graph[Top.node])
  /\ stack' = Rest \o ChildFrames(Top) \o << [Top EXCEPT !.leaving = TRUE] >>
  /\ UNCHANGED <<pc, result>>

Expand ==
  /\ Visit(Top)
  /\ WithinLimits(Top)
  /\ IsSupported(graph[Top.node])
  /\ IsIterable(graph[Top.node])
  /\ stack' = Append(Rest, [Top EXCEPT !.leaving = TRUE]) \o ChildFrames(Top)
  /\ UNCHANGED <<pc, result>>

Return ==
  /\ pc = "walk"
  /\ stack = << >>
  /\ pc' = "done"
  /\ result' = [kind |-> "metrics", path |-> << >>,
                nodeCount |-> nodeCount, maxDepth |-> maxDepth]
  /\ UNCHANGED <<args, stack, walkVars>>

Next ==
  \/ RejectLimits \/ RejectRoot \/ Begin
  \/ Leave \/ LeaveInvalid
  \/ DetectCycle \/ SkipExplored
  \/ VisitTooComplex \/ VisitUnsupported \/ VisitOpaque \/ Expand
  \/ Return

Spec == Init /\ [][Next]_vars

\* The loop runs until it returns or raises.
FairSpec == Spec /\ WF_vars(Next)

-----------------------------------------------------------------------------
(* Properties.                                                             *)

\* Every variable keeps its type.
TypeOK ==
  /\ graph \in [Node -> NodeRecord]
  /\ root \in Roots
  /\ limitsArg \in LimitChoices
  /\ pc \in {"entry", "walk", "done"}
  /\ stack \in Seq(FrameType)
  /\ explored \subseteq Node
  /\ ancestors \subseteq Node
  /\ counted \subseteq Node
  /\ bestDepth \in [Node -> Nat]
  /\ nodeCount \in Nat
  /\ maxDepth \in Nat
  /\ expansions \in [Node -> Nat]
  /\ result.kind \in {"none", "metrics"} \cup ErrorKinds
  /\ result.path \in Seq(Nat)
  /\ result.nodeCount \in Nat
  /\ result.maxDepth \in Nat

\* validate_contract implements its promise: metrics only for a well-formed
\* DAG within the limits, measured correctly; an error only for a defect of
\* its kind; one answer, the arguments untouched.
Call == INSTANCE OneShotCall
          WITH Inputs <- [graph : [Node -> NodeRecord], root : Node,
                          limits : LimitsArgument],
               Pending <- NoResult,
               Promised <- ValidationPromised,
               input <- [graph |-> graph, root |-> root, limits |-> Limits],
               answer <- result

KeepsPromise == Call!Spec

\* Post-order: when a node's own invariants are checked (they read .unit and
\* .value of its children) every child has passed validation before.
ChildrenValidatedFirst ==
  (pc = "walk" /\ stack # << >> /\ Top.leaving)
     => ChildSet(graph, Top.node) \subseteq explored

\* Colouring: the ancestor set is exactly the set of nodes whose post-order
\* marker is pending, each pending once, and a node stays explored.
AncestorsArePending ==
  pc = "walk" =>
    LET markers == {i \in 1..Len(stack) : stack[i].leaving}
    IN  /\ ancestors = {stack[i].node : i \in markers}
        /\ Cardinality(ancestors) = Cardinality(markers)
        /\ counted = explored \cup ancestors

\* Work bound: a shared node is entered again only at a strictly greater
\* depth, so at most once per level and never beyond the depth limit by more
\* than the step that is rejected.
WorkBounded ==
  \A n \in Node : /\ expansions[n] <= bestDepth[n]
                  /\ bestDepth[n] <= Limits.depth + 1

\* The structural path a diagnostic carries leads from the root to a node
\* that has the reported defect; for a cycle, its last node was on the path.
Walks(p) ==
  {w \in [1..(Len(p) + 1) -> Node] :
     /\ w[1] = root
     /\ \A i \in 1..Len(p) : /\ p[i] \in 1..Len(graph[w[i]].kids)
                             /\ w[i + 1] = graph[w[i]].kids[p[i]]}

HasDefect(w, kind) ==
  LET last == w[Len(w)]
  IN  CASE kind = "ContractCycleError" -> \E i \in 1..(Len(w) - 1) : w[i] = last
        [] kind = "ContractComplexityError" ->
             Len(w) > Limits.depth \/ Cardinality(counted) > Limits.nodes
        [] kind = Mismatch -> NodeError(graph, last) = Mismatch
        [] kind = Invalid -> \/ ~IsSupported(graph[last])
                             \/ NodeError(graph, last) = Invalid
                             \/ last = root /\ ~IsContract(graph[last])
                             \/ last = root /\ Limits.form = "forged"

DiagnosticsLocated ==
  (result.kind \in ErrorKinds /\ result.path # NoPath) =>
     \E w \in Walks(result.path) : HasDefect(w, result.kind)

\* The walk always ends, on cyclic graphs too.
Terminates == <>(pc = "done")

\* threat-model.md:129-130: a shared sub-expression "must be traversed once
\* per shared node without double-counting or re-expansion".
NoReExpansion == \A n \in Node : expansions[n] <= 1

\* contract-api.md:88: "All errors derive from `DerivaTraceError` and carry a
\* stable `.code`": no other exception leaves validate_contract.
OnlyContractErrors == result.kind # "PythonError"
=============================================================================
