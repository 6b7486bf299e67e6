---------------------- MODULE ContractValidationProofs ----------------------
(***************************************************************************)
(* Proofs about validate_contract for every graph, root and limits.        *)
(***************************************************************************)
EXTENDS AcceptedContracts, ContractLemmas, FiniteSetTheorems

-----------------------------------------------------------------------------
(* The stack.                                                              *)

LEMMA PopFacts ==
  ASSUME NEW s \in Seq(FrameType), s # << >>
  PROVE  /\ Len(s) \in Nat \ {0}
         /\ s[Len(s)] \in FrameType
         /\ SubSeq(s, 1, Len(s) - 1) \in Seq(FrameType)
         /\ Len(SubSeq(s, 1, Len(s) - 1)) = Len(s) - 1
         /\ \A i \in 1..(Len(s) - 1) : SubSeq(s, 1, Len(s) - 1)[i] = s[i]
<1>1. Len(s) \in Nat \ {0}
  BY EmptySeq
<1>2. s[Len(s)] \in FrameType
  BY <1>1, ElementOfSeq
<1>3. \A i \in 1..(Len(s) - 1) : s[i] \in FrameType
  BY <1>1, ElementOfSeq
<1>4. Len(s) - 1 \in Int /\ 1 \in Int
  BY <1>1
<1>5. /\ SubSeq(s, 1, Len(s) - 1) \in Seq(FrameType)
      /\ Len(SubSeq(s, 1, Len(s) - 1))
           = IF 1 <= Len(s) - 1 THEN (Len(s) - 1) - 1 + 1 ELSE 0
      /\ \A i \in 1..((Len(s) - 1) - 1 + 1) :
           SubSeq(s, 1, Len(s) - 1)[i] = s[1 + i - 1]
  BY ONLY <1>3, <1>4, SubSeqProperties
<1>6. Len(SubSeq(s, 1, Len(s) - 1)) = Len(s) - 1
  <2> DEFINE r == SubSeq(s, 1, Len(s) - 1)
  <2>1. /\ r \in Seq(FrameType)
        /\ Len(r) = IF 1 <= Len(s) - 1 THEN (Len(s) - 1) - 1 + 1 ELSE 0
    BY <1>5
  <2> HIDE DEF r
  <2>2. PICK n \in Nat \ {0} : n = Len(s)
    BY <1>1
  <2>3. PICK m : m = Len(r)
    OBVIOUS
  <2>4. m = IF 1 <= n - 1 THEN (n - 1) - 1 + 1 ELSE 0
    BY <2>1, <2>2, <2>3
  <2>5. m = n - 1
    BY <2>4
  <2>6. QED
    BY <2>2, <2>3, <2>5 DEF r
<1>7. ASSUME NEW i \in 1..(Len(s) - 1)
      PROVE  SubSeq(s, 1, Len(s) - 1)[i] = s[i]
  <2>1. i \in 1..((Len(s) - 1) - 1 + 1) /\ 1 + i - 1 = i
    BY <1>1
  <2>2. SubSeq(s, 1, Len(s) - 1)[i] = s[1 + i - 1]
    BY <2>1, <1>5
  <2>3. QED
    BY <2>1, <2>2
<1>8. QED
  BY <1>1, <1>2, <1>5, <1>6, <1>7

\* The child frames of f, without the state they are read from.
Children(f, kids) ==
  [i \in 1..Len(kids) |-> LET k == Len(kids) + 1 - i
                          IN  Frame(kids[k], f.depth + 1, Append(f.path, k), FALSE)]

Pushed(s, f, kids) ==
  Append(SubSeq(s, 1, Len(s) - 1), [f EXCEPT !.leaving = TRUE]) \o Children(f, kids)

LEMMA FrameFacts ==
  ASSUME NEW f \in FrameType
  PROVE  /\ f.node \in Node /\ f.depth \in Nat \ {0} /\ f.path \in Seq(Nat)
         /\ f.leaving \in BOOLEAN
         /\ [f EXCEPT !.leaving = TRUE] \in FrameType
         /\ [f EXCEPT !.leaving = TRUE].node = f.node
         /\ [f EXCEPT !.leaving = TRUE].depth = f.depth
         /\ [f EXCEPT !.leaving = TRUE].path = f.path
         /\ [f EXCEPT !.leaving = TRUE].leaving = TRUE
BY DEF FrameType

LEMMA ChildrenFacts ==
  ASSUME NEW f \in FrameType, NEW kids \in Seq(Node)
  PROVE  /\ Children(f, kids) \in Seq(FrameType)
         /\ Len(Children(f, kids)) = Len(kids)
         /\ \A i \in 1..Len(kids) :
              /\ Children(f, kids)[i].node = kids[Len(kids) + 1 - i]
              /\ Children(f, kids)[i].depth = f.depth + 1
              /\ Children(f, kids)[i].leaving = FALSE
              /\ Children(f, kids)[i].path = Append(f.path, Len(kids) + 1 - i)
<1>1. Len(kids) \in Nat
  BY LenProperties
<1>2. ASSUME NEW i \in 1..Len(kids)
      PROVE  /\ Children(f, kids)[i] \in FrameType
             /\ Children(f, kids)[i].node = kids[Len(kids) + 1 - i]
             /\ Children(f, kids)[i].depth = f.depth + 1
             /\ Children(f, kids)[i].leaving = FALSE
             /\ Children(f, kids)[i].path = Append(f.path, Len(kids) + 1 - i)
  <2> DEFINE k == Len(kids) + 1 - i
  <2>1. k \in 1..Len(kids) /\ k \in Nat
    BY <1>1
  <2>2. kids[k] \in Node
    BY <2>1, ElementOfSeq
  <2>3. Append(f.path, k) \in Seq(Nat)
    BY <2>1, FrameFacts, AppendProperties
  <2>4. f.depth + 1 \in Nat \ {0}
    <3>1. f.depth \in Nat \ {0}
      BY FrameFacts
    <3>2. QED
      BY <3>1
  <2>5. Children(f, kids)[i] = Frame(kids[k], f.depth + 1, Append(f.path, k), FALSE)
    BY DEF Children
  <2>6. QED
    BY <2>2, <2>3, <2>4, <2>5 DEF Frame, FrameType
<1>3. Children(f, kids) \in [1..Len(kids) -> FrameType]
  BY <1>2 DEF Children
<1>4. Children(f, kids) \in Seq(FrameType)
  BY <1>1, <1>3, SeqDef
<1>5. Len(Children(f, kids)) = Len(kids)
  BY <1>1, <1>3, <1>4, LenProperties
<1>6. QED
  BY <1>2, <1>4, <1>5

\* Below the top frame nothing moves; the top frame becomes a marker; above
\* it stands one frame per child.
LEMMA PushFacts ==
  ASSUME NEW s \in Seq(FrameType), s # << >>, NEW kids \in Seq(Node)
  PROVE  LET f == s[Len(s)]
             t == Pushed(s, f, kids)
         IN  /\ t \in Seq(FrameType)
             /\ Len(t) = Len(s) + Len(kids)
             /\ \A i \in 1..(Len(s) - 1) : t[i] = s[i]
             /\ t[Len(s)] = [f EXCEPT !.leaving = TRUE]
             /\ \A i \in (Len(s) + 1)..Len(t) :
                  /\ t[i].node = kids[Len(kids) + 1 - (i - Len(s))]
                  /\ t[i].depth = f.depth + 1
                  /\ t[i].leaving = FALSE
                  /\ t[i].path = Append(f.path, Len(kids) + 1 - (i - Len(s)))
             /\ \A k \in 1..Len(kids) :
                  t[Len(s) + Len(kids) + 1 - k].node = kids[k]
<1> DEFINE f == s[Len(s)]
           low == SubSeq(s, 1, Len(s) - 1)
           marker == [f EXCEPT !.leaving = TRUE]
           base == Append(low, marker)
           t == Pushed(s, f, kids)
<1>0. Len(kids) \in Nat
  BY LenProperties
<1>1. /\ Len(s) \in Nat \ {0} /\ f \in FrameType
      /\ low \in Seq(FrameType) /\ Len(low) = Len(s) - 1
      /\ \A i \in 1..(Len(s) - 1) : low[i] = s[i]
  BY PopFacts
<1>2. marker \in FrameType
  BY <1>1, FrameFacts
<1>3. /\ base \in Seq(FrameType) /\ Len(base) = Len(s)
      /\ base[Len(s)] = marker
      /\ \A i \in 1..(Len(s) - 1) : base[i] = s[i]
  <2>1. /\ base \in Seq(FrameType) /\ Len(base) = Len(low) + 1
        /\ \A i \in 1..Len(low) : base[i] = low[i]
        /\ base[Len(low) + 1] = marker
    BY <1>1, <1>2, AppendProperties
  <2>2. QED
    BY <2>1, <1>1
<1>4. /\ Children(f, kids) \in Seq(FrameType)
      /\ Len(Children(f, kids)) = Len(kids)
      /\ \A i \in 1..Len(kids) :
           /\ Children(f, kids)[i].node = kids[Len(kids) + 1 - i]
           /\ Children(f, kids)[i].depth = f.depth + 1
           /\ Children(f, kids)[i].leaving = FALSE
           /\ Children(f, kids)[i].path = Append(f.path, Len(kids) + 1 - i)
  BY <1>1, ChildrenFacts
<1>5. t = base \o Children(f, kids)
  BY DEF Pushed
<1> HIDE DEF f, low, marker, base, t
<1>6. /\ t \in Seq(FrameType)
      /\ Len(t) = Len(base) + Len(Children(f, kids))
      /\ \A i \in 1..(Len(base) + Len(Children(f, kids))) :
           t[i] = IF i <= Len(base) THEN base[i]
                                    ELSE Children(f, kids)[i - Len(base)]
  <2>1. base \in Seq(FrameType) /\ Children(f, kids) \in Seq(FrameType)
    BY <1>3, <1>4
  <2>2. QED
    BY <2>1, <1>5, ConcatProperties
<1>7. \A i \in 1..(Len(s) - 1) : t[i] = s[i]
  <2>1. SUFFICES ASSUME NEW i \in 1..(Len(s) - 1) PROVE t[i] = s[i]
    OBVIOUS
  <2>2. i \in 1..(Len(base) + Len(Children(f, kids))) /\ i <= Len(base)
    BY <1>0, <1>1, <1>3, <1>4
  <2>3. t[i] = base[i]
    BY <1>6, <2>2
  <2>4. QED
    BY <2>3, <1>3
<1>8. t[Len(s)] = marker
  <2>1. Len(s) \in 1..(Len(base) + Len(Children(f, kids)))
    BY <1>0, <1>1, <1>3, <1>4
  <2>2. t[Len(s)] = base[Len(s)]
    BY <1>1, <1>3, <1>6, <2>1
  <2>3. QED
    BY <2>2, <1>3
<1>9. ASSUME NEW i \in (Len(s) + 1)..Len(t)
      PROVE  /\ t[i].node = kids[Len(kids) + 1 - (i - Len(s))]
             /\ t[i].depth = f.depth + 1
             /\ t[i].leaving = FALSE
             /\ t[i].path = Append(f.path, Len(kids) + 1 - (i - Len(s)))
  <2>1. i - Len(s) \in 1..Len(kids) /\ t[i] = Children(f, kids)[i - Len(s)]
    BY <1>0, <1>1, <1>3, <1>4, <1>6
  <2>2. QED
    BY <2>1, <1>4
<1>10. ASSUME NEW k \in 1..Len(kids)
       PROVE  t[Len(s) + Len(kids) + 1 - k].node = kids[k]
  <2> DEFINE i == Len(s) + Len(kids) + 1 - k
  <2>1. i \in (Len(s) + 1)..Len(t) /\ Len(kids) + 1 - (i - Len(s)) = k
    BY <1>0, <1>1, <1>3, <1>4, <1>6
  <2> HIDE DEF i
  <2>2. t[i].node = kids[k]
    BY <2>1, <1>9
  <2>3. QED
    BY <2>2 DEF i
<1>11. Len(t) = Len(s) + Len(kids)
  BY <1>3, <1>4, <1>6
<1>12. QED
  BY <1>6, <1>7, <1>8, <1>9, <1>10, <1>11 DEF f, marker, t

-----------------------------------------------------------------------------
(* Types.                                                                  *)

LEMMA KidsType ==
  ASSUME NEW g \in [Node -> NodeRecord], NEW n \in Node
  PROVE  /\ g[n].kids \in Seq(Node)
         /\ \A i \in 1..Len(g[n].kids) : g[n].kids[i] \in Node
         /\ ChildSet(g, n) \subseteq Node
<1>1. g[n].kids \in Seq(Node)
  BY DEF NodeRecord
<1>2. \A i \in 1..Len(g[n].kids) : g[n].kids[i] \in Node
  BY <1>1, ElementOfSeq
<1>3. QED
  BY <1>1, <1>2 DEF ChildSet, Seq2Set

LEMMA LimitsType ==
  ASSUME limitsArg \in LimitChoices
  PROVE  /\ Limits \in LimitsArgument
         /\ Limits.depth \in Nat /\ Limits.nodes \in Nat
         /\ Limits.form = "exact" => Limits.depth > 0 /\ Limits.nodes > 0
<1>1. Limits \in LimitChoices \cup {DefaultLimits}
  BY DEF Limits
<1>2. Limits \in LimitsArgument
  BY <1>1, LimitsAssumption
<1>3. Limits.depth \in Nat /\ Limits.nodes \in Nat
  BY <1>2 DEF LimitsArgument
<1>4. QED
  BY <1>1, <1>2, <1>3, LimitsAssumption

LEMMA TopType ==
  ASSUME TypeOK, stack # << >>
  PROVE  /\ Top \in FrameType
         /\ Rest \in Seq(FrameType)
         /\ Len(stack) \in Nat \ {0}
         /\ Len(Rest) = Len(stack) - 1
         /\ \A i \in 1..(Len(stack) - 1) : Rest[i] = stack[i]
BY PopFacts DEF TypeOK, Top, Rest

LEMMA RaiseType ==
  ASSUME NEW kind \in ErrorKinds, NEW path \in Seq(Nat), Raise(kind, path)
  PROVE  /\ pc' = "done"
         /\ result'.kind = kind /\ result'.kind \in {"none", "metrics"} \cup ErrorKinds
         /\ result'.path \in Seq(Nat)
         /\ result'.nodeCount \in Nat /\ result'.maxDepth \in Nat
BY DEF Raise

LEMMA NoPathType == NoPath \in Seq(Nat) /\ << >> \in Seq(Nat)
BY DEF NoPath

LEMMA VisitType ==
  ASSUME TypeOK, Visit(Top)
  PROVE  /\ stack # << >> /\ pc = "walk" /\ Top \in FrameType
         /\ graph' \in [Node -> NodeRecord] /\ root' \in Roots
         /\ limitsArg' \in LimitChoices
         /\ explored' \subseteq Node /\ ancestors' \subseteq Node
         /\ counted' \subseteq Node
         /\ bestDepth' \in [Node -> Nat] /\ nodeCount' \in Nat
         /\ maxDepth' \in Nat /\ expansions' \in [Node -> Nat]
<1>1. stack # << >> /\ pc = "walk"
  BY DEF Visit, Popping
<1>2. Top \in FrameType /\ Top.node \in Node /\ Top.depth \in Nat
  BY <1>1, TopType, FrameFacts
<1>3. nodeCount' \in Nat /\ maxDepth' \in Nat
  BY <1>2 DEF Visit, TypeOK
<1>4. bestDepth' \in [Node -> Nat] /\ expansions' \in [Node -> Nat]
  BY <1>2 DEF Visit, TypeOK
<1>5. QED
  BY <1>1, <1>2, <1>3, <1>4 DEF Visit, TypeOK, args

LEMMA TypeStep == TypeOK /\ [Next]_vars => TypeOK'
<1> SUFFICES ASSUME TypeOK, [Next]_vars PROVE TypeOK'
  OBVIOUS
<1> USE NoPathType
<1>1. CASE RejectLimits
  <2>1. Mismatch \in ErrorKinds /\ Invalid \in ErrorKinds
    BY DEF ErrorKinds
  <2>2. QED
    BY <1>1, <2>1, RaiseType DEF RejectLimits, TypeOK, args, walkVars
<1>2. CASE RejectRoot
  <2>1. Invalid \in ErrorKinds
    BY DEF ErrorKinds
  <2>2. QED
    BY <1>2, <2>1, RaiseType DEF RejectRoot, TypeOK, args, walkVars
<1>3. CASE Begin
  <2>1. root \in Node
    BY RootsAssumption DEF TypeOK
  <2>2. Frame(root, 1, << >>, FALSE) \in FrameType
    BY <2>1 DEF Frame, FrameType
  <2>3. stack' \in Seq(FrameType)
    <3>1. \A f \in FrameType : << f >> \in Seq(FrameType)
      OBVIOUS
    <3>2. stack' = << Frame(root, 1, << >>, FALSE) >>
      BY <1>3 DEF Begin
    <3>3. QED
      BY <2>2, <3>1, <3>2
  <2>4. QED
    BY <1>3, <2>3 DEF Begin, TypeOK, args, walkVars
<1>4. CASE Leave
  <2>1. stack # << >>
    BY <1>4 DEF Leave, Popping
  <2>2. Top.node \in Node
    BY <2>1, TopType, FrameFacts
  <2>3. Rest \in Seq(FrameType)
    BY <2>1, TopType
  <2>4. QED
    BY <1>4, <2>2, <2>3 DEF Leave, TypeOK, args
<1>5. CASE LeaveInvalid
  <2>1. stack # << >>
    BY <1>5 DEF LeaveInvalid, Popping
  <2>2. Top.path \in Seq(Nat) /\ Rest \in Seq(FrameType)
    BY <2>1, TopType, FrameFacts
  <2>3. Mismatch \in ErrorKinds /\ Invalid \in ErrorKinds
    BY DEF ErrorKinds
  <2>4. PICK kind \in ErrorKinds, path \in Seq(Nat) : Raise(kind, path)
    BY <1>5, <2>2, <2>3 DEF LeaveInvalid
  <2>5. QED
    BY <1>5, <2>2, <2>4, RaiseType DEF LeaveInvalid, TypeOK, args, walkVars
<1>6. CASE DetectCycle
  <2>1. stack # << >>
    BY <1>6 DEF DetectCycle, Popping
  <2>2. Top.path \in Seq(Nat) /\ Rest \in Seq(FrameType)
    BY <2>1, TopType, FrameFacts
  <2>3. "ContractCycleError" \in ErrorKinds
    BY DEF ErrorKinds
  <2>4. QED
    BY <1>6, <2>2, <2>3, RaiseType DEF DetectCycle, TypeOK, args, walkVars
<1>7. CASE SkipExplored
  <2>1. stack # << >>
    BY <1>7 DEF SkipExplored, Popping
  <2>2. QED
    BY <1>7, <2>1, TopType DEF SkipExplored, TypeOK, args, walkVars
<1>8. CASE VisitTooComplex
  <2>1. Visit(Top) /\ stack # << >>
    BY <1>8 DEF VisitTooComplex, Visit, Popping
  <2>2. Top.path \in Seq(Nat) /\ Rest \in Seq(FrameType)
    BY <2>1, TopType, FrameFacts
  <2>3. "ContractComplexityError" \in ErrorKinds
    BY DEF ErrorKinds
  <2>4. QED
    BY <1>8, <2>1, <2>2, <2>3, VisitType, RaiseType DEF VisitTooComplex, TypeOK
<1>9. CASE VisitUnsupported
  <2>1. Visit(Top) /\ stack # << >>
    BY <1>9 DEF VisitUnsupported, Visit, Popping
  <2>2. Top.path \in Seq(Nat) /\ Rest \in Seq(FrameType)
    BY <2>1, TopType, FrameFacts
  <2>3. Invalid \in ErrorKinds
    BY DEF ErrorKinds
  <2>4. QED
    BY <1>9, <2>1, <2>2, <2>3, VisitType, RaiseType DEF VisitUnsupported, TypeOK
<1>10. CASE VisitOpaque
  <2>1. Visit(Top) /\ stack # << >>
    BY <1>10 DEF VisitOpaque, Visit, Popping
  <2>2. Rest \in Seq(FrameType) /\ [Top EXCEPT !.leaving = TRUE] \in FrameType
    BY <2>1, TopType, FrameFacts
  <2>3. stack' \in Seq(FrameType)
    BY <1>10, <2>2, AppendProperties DEF VisitOpaque
  <2>4. "PythonError" \in ErrorKinds
    BY DEF ErrorKinds
  <2>5. QED
    BY <1>10, <2>1, <2>3, <2>4, VisitType, RaiseType DEF VisitOpaque, TypeOK
<1>11. CASE Expand
  <2>1. Visit(Top) /\ stack # << >>
    BY <1>11 DEF Expand, Visit, Popping
  <2>2. Top \in FrameType /\ Top.node \in Node /\ stack \in Seq(FrameType)
    BY <2>1, TopType, FrameFacts DEF TypeOK
  <2>3. graph[Top.node].kids \in Seq(Node)
    BY <2>2, KidsType DEF TypeOK
  <2>4. stack' = Pushed(stack, stack[Len(stack)], graph[Top.node].kids)
    <3>1. ChildFrames(Top) = Children(Top, graph[Top.node].kids)
      BY DEF ChildFrames, Children
    <3>2. stack' = Pushed(stack, Top, graph[Top.node].kids)
      BY <1>11, <3>1 DEF Expand, Pushed, Rest
    <3>3. QED
      BY <3>2 DEF Top
  <2>5. stack' \in Seq(FrameType)
    BY <2>1, <2>2, <2>3, <2>4, PushFacts
  <2>6. QED
    BY <1>11, <2>1, <2>5, VisitType DEF Expand, TypeOK
<1>12. CASE Return
  BY <1>12 DEF Return, TypeOK, args, walkVars
<1>13. CASE UNCHANGED vars
  BY <1>13 DEF vars, TypeOK
<1>14. QED
  BY <1>1, <1>2, <1>3, <1>4, <1>5, <1>6, <1>7, <1>8, <1>9, <1>10, <1>11,
     <1>12, <1>13 DEF Next

LEMMA TypeInit == Init => TypeOK
<1> SUFFICES ASSUME Init PROVE TypeOK
  OBVIOUS
<1>1. graph \in [Node -> NodeRecord]
  BY GraphsAssumption DEF Init
<1>2. stack \in Seq(FrameType)
  BY EmptySeq DEF Init
<1>3. QED
  BY <1>1, <1>2, NoPathType DEF Init, TypeOK, NoResult

\* Every variable of the walk keeps its type, for every graph, root and limits.
THEOREM TypeCorrect == Spec => []TypeOK
<1>1. QED
  BY TypeInit, TypeStep, PTL DEF Spec

-----------------------------------------------------------------------------
(* The inductive invariant.  The promise speaks of what the walk returns   *)
(* and is not inductive.  What is: how the stack mirrors a path of the     *)
(* graph, what black and grey nodes have been checked for, and that the    *)
(* graph forces every recorded depth.                                      *)

Idx == 1..Len(stack)
Marker(i) == stack[i].leaving
NodeAt(i) == stack[i].node
DepthAt(i) == stack[i].depth
Reached == Reach(graph, root)

-----------------------------------------------------------------------------
(* The stack: reachable nodes, the root at the bottom; each frame hangs    *)
(* below the marker of one of its parents, and the markers below a frame   *)
(* are one per level.                                                      *)

InReach == \A i \in Idx : NodeAt(i) \in Reached

RootAtBottom == stack # << >> => NodeAt(1) = root /\ DepthAt(1) = 1

Hanging ==
  \A j \in Idx : j > 1 =>
    \E i \in Idx : /\ i < j /\ Marker(i)
                   /\ NodeAt(j) \in ChildSet(graph, NodeAt(i))
                   /\ DepthAt(j) = DepthAt(i) + 1

Descending ==
  \A i, j \in Idx : i < j /\ Marker(i) => DepthAt(i) < DepthAt(j)

Levelled ==
  \A j \in Idx : \A k \in 1..(DepthAt(j) - 1) :
    \E i \in Idx : i < j /\ Marker(i) /\ DepthAt(i) = k

StackShape == InReach /\ RootAtBottom /\ Hanging /\ Descending /\ Levelled

\* The ancestor set is the set of marked nodes.
GreyMarked ==
  \A i \in Idx : Marker(i) =>
    /\ NodeAt(i) \in ancestors
    /\ IsSupported(graph[NodeAt(i)]) /\ IsIterable(graph[NodeAt(i)])
    /\ bestDepth[NodeAt(i)] = DepthAt(i)
    /\ DepthAt(i) <= Limits.depth

GreyOnStack == \A n \in ancestors : \E i \in Idx : Marker(i) /\ NodeAt(i) = n

GreyOnce ==
  \A i, j \in Idx : Marker(i) /\ Marker(j) /\ NodeAt(i) = NodeAt(j) => i = j

GreyInv == GreyMarked /\ GreyOnStack /\ GreyOnce

\* A child of a marked node is explored deep enough, or still on the stack.
PendingInv ==
  \A i \in Idx : Marker(i) =>
    \A k \in ChildSet(graph, NodeAt(i)) :
      \/ k \in explored /\ bestDepth[k] > DepthAt(i)
      \/ \E j \in Idx : i < j /\ NodeAt(j) = k /\ DepthAt(j) = DepthAt(i) + 1

\* Explored nodes are accepted, and so is everything below them.
BlackInv ==
  /\ stack = << >> => root \in explored
  /\ counted = explored \cup ancestors
  /\ counted \subseteq Reached
  /\ \A n \in explored : NodeAccepted(graph, n)
  /\ \A n \in explored : ChildSet(graph, n) \subseteq explored
  /\ \A n \in explored \ ancestors :
       \A k \in ChildSet(graph, n) : bestDepth[k] > bestDepth[n]

CountInv ==
  /\ nodeCount = Cardinality(counted)
  /\ nodeCount <= Limits.nodes
  /\ maxDepth <= Limits.depth
  /\ \A n \in counted : bestDepth[n] >= 1 /\ bestDepth[n] <= maxDepth
  /\ \A n \in Node \ counted : bestDepth[n] = 0
  /\ counted = {} => maxDepth = 0
  /\ counted # {} => \E n \in counted : bestDepth[n] = maxDepth

\* Every recorded depth is a lower bound of every increasing labelling.
Labelling(L, m) ==
  L \in [Reached -> 1..m] /\ IncreasingLabels(graph, Reached, L)

LeastInv ==
  \A m \in Nat : \A L : Labelling(L, m) =>
    /\ \A i \in Idx : DepthAt(i) <= L[NodeAt(i)]
    /\ \A n \in counted : bestDepth[n] <= L[n]

-----------------------------------------------------------------------------

\* Nothing has happened before the entry checks.
EntryInv ==
  pc = "entry" =>
    /\ explored = {} /\ ancestors = {} /\ counted = {}
    /\ nodeCount = 0 /\ maxDepth = 0
    /\ bestDepth = [n \in Node |-> 0]

WalkInv ==
  pc = "walk" =>
    /\ IsContract(graph[root]) /\ Limits.form = "exact"
    /\ StackShape /\ GreyInv /\ PendingInv /\ BlackInv /\ CountInv /\ LeastInv

CallInput == [graph |-> graph, root |-> root, limits |-> Limits]

ResultInv ==
  /\ pc # "done" => result = NoResult
  /\ pc = "done" => result # NoResult /\ ValidationPromised(CallInput, result)

IInv == TypeOK /\ EntryInv /\ WalkInv /\ ResultInv /\ WorkBounded

-----------------------------------------------------------------------------
(* Reachability.                                                           *)

LEMMA ReachFacts ==
  ASSUME NEW g \in [Node -> NodeRecord], NEW r \in Node
  PROVE  /\ r \in Reach(g, r)
         /\ Reach(g, r) \subseteq Node
         /\ \A n \in Reach(g, r) : ChildSet(g, n) \subseteq Reach(g, r)
<1>1. r \in Reach(g, r) /\ Reach(g, r) \subseteq Node
  BY DEF Reach
<1>2. ASSUME NEW n \in Reach(g, r), NEW k \in ChildSet(g, n)
      PROVE  k \in Reach(g, r)
  <2>1. k \in Node
    BY <1>1, <1>2, KidsType
  <2>2. ASSUME NEW S \in SUBSET Node, r \in S, ClosedUnderChildren(g, S)
        PROVE  k \in S
    <3>1. n \in S
      BY <1>2, <2>2 DEF Reach
    <3>2. QED
      BY <3>1, <1>2, <2>2 DEF ClosedUnderChildren
  <2>3. QED
    BY <2>1, <2>2 DEF Reach
<1>3. QED
  BY <1>1, <1>2

LEMMA ReachLeast ==
  ASSUME NEW g, NEW r, NEW S \in SUBSET Node, r \in S,
         ClosedUnderChildren(g, S)
  PROVE  Reach(g, r) \subseteq S
BY DEF Reach

-----------------------------------------------------------------------------
(* What each way of moving the stack does to its frames.                   *)

LEMMA IdxFacts ==
  ASSUME TypeOK
  PROVE  /\ Len(stack) \in Nat
         /\ Idx = 1..Len(stack)
         /\ \A i \in Idx : NodeAt(i) \in Node /\ DepthAt(i) \in Nat \ {0}
         /\ stack = << >> <=> Len(stack) = 0
         /\ stack # << >> =>
              /\ Len(stack) \in Idx /\ Len(stack) >= 1
              /\ NodeAt(Len(stack)) = Top.node
              /\ DepthAt(Len(stack)) = Top.depth
              /\ Marker(Len(stack)) = Top.leaving
<1>1. stack \in Seq(FrameType)
  BY DEF TypeOK
<1>2. Len(stack) \in Nat /\ (stack = << >> <=> Len(stack) = 0)
  BY <1>1, EmptySeq, LenProperties
<1>3. \A i \in Idx : stack[i] \in FrameType
  BY <1>1, ElementOfSeq DEF Idx
<1>4. \A i \in Idx : NodeAt(i) \in Node /\ DepthAt(i) \in Nat \ {0}
  BY <1>3 DEF FrameType, NodeAt, DepthAt
<1>5. Idx = 1..Len(stack)
  BY DEF Idx
<1>6. ASSUME stack # << >> PROVE Len(stack) \in Idx /\ Len(stack) >= 1
  <2>1. PICK n \in Nat : n = Len(stack)
    BY <1>2
  <2>2. n # 0
    BY <1>2, <1>6, <2>1
  <2>3. n \in 1..n /\ n >= 1
    BY <2>2
  <2>4. QED
    BY <2>1, <2>3, <1>5
<1>7. QED
  BY <1>2, <1>4, <1>5, <1>6 DEF NodeAt, DepthAt, Marker, Top

LEMMA PopStep ==
  ASSUME TypeOK, stack # << >>, stack' = Rest
  PROVE  /\ Idx' = 1..(Len(stack) - 1)
         /\ \A i \in 1..(Len(stack) - 1) :
              NodeAt(i)' = NodeAt(i) /\ DepthAt(i)' = DepthAt(i)
              /\ Marker(i)' = Marker(i)
         /\ stack' = << >> <=> Len(stack) = 1
<1>1. /\ Len(stack) \in Nat \ {0} /\ Len(stack') = Len(stack) - 1
      /\ stack' \in Seq(FrameType)
      /\ \A i \in 1..(Len(stack) - 1) : stack'[i] = stack[i]
  BY TopType
<1>2. stack' = << >> <=> Len(stack) = 1
  <2>1. stack' = << >> <=> Len(stack') = 0
    BY <1>1, EmptySeq
  <2>2. PICK n \in Nat \ {0} : n = Len(stack)
    BY <1>1
  <2>3. Len(stack') = n - 1
    BY <1>1, <2>2
  <2>4. n - 1 = 0 <=> n = 1
    OBVIOUS
  <2>5. QED
    BY <2>1, <2>2, <2>3, <2>4
<1>3. QED
  BY <1>1, <1>2 DEF Idx, NodeAt, DepthAt, Marker

LEMMA PushStep ==
  ASSUME TypeOK, Expand
  PROVE  \E N \in Nat, K \in Nat :
           /\ N = Len(stack) /\ N >= 1
           /\ Idx' = 1..(N + K)
           /\ \A i \in 1..N : NodeAt(i)' = NodeAt(i) /\ DepthAt(i)' = DepthAt(i)
           /\ \A i \in 1..(N - 1) : Marker(i)' = Marker(i)
           /\ Marker(N)'
           /\ \A i \in (N + 1)..(N + K) :
                /\ NodeAt(i)' \in ChildSet(graph, Top.node)
                /\ DepthAt(i)' = Top.depth + 1
                /\ ~Marker(i)'
           /\ \A k \in ChildSet(graph, Top.node) :
                \E i \in (N + 1)..(N + K) : NodeAt(i)' = k
           /\ stack' # << >>
<1> DEFINE kids == graph[Top.node].kids
<1>1. Visit(Top) /\ stack # << >> /\ stack \in Seq(FrameType)
  BY DEF Expand, Visit, Popping, TypeOK
<1>2. Top \in FrameType /\ Top.node \in Node /\ Len(stack) \in Nat \ {0}
  BY <1>1, TopType, FrameFacts
<1>3. kids \in Seq(Node) /\ Len(kids) \in Nat
  BY <1>2, KidsType, LenProperties DEF TypeOK
<1>4. ChildSet(graph, Top.node) = {kids[k] : k \in 1..Len(kids)}
  BY DEF Expand, ChildSet, Seq2Set
<1>5. stack' = Pushed(stack, Top, kids)
  <2>1. ChildFrames(Top) = Children(Top, kids)
    BY DEF ChildFrames, Children
  <2>2. QED
    BY <2>1 DEF Expand, Pushed, Rest
<1> HIDE DEF kids
<1>6. /\ Len(stack') = Len(stack) + Len(kids)
      /\ \A i \in 1..(Len(stack) - 1) : stack'[i] = stack[i]
      /\ stack'[Len(stack)] = [Top EXCEPT !.leaving = TRUE]
      /\ \A i \in (Len(stack) + 1)..Len(stack') :
           /\ stack'[i].node = kids[Len(kids) + 1 - (i - Len(stack))]
           /\ stack'[i].depth = Top.depth + 1
           /\ stack'[i].leaving = FALSE
      /\ \A k \in 1..Len(kids) :
           stack'[Len(stack) + Len(kids) + 1 - k].node = kids[k]
  <2> DEFINE t == Pushed(stack, stack[Len(stack)], kids)
  <2>1. /\ Len(t) = Len(stack) + Len(kids)
        /\ \A i \in 1..(Len(stack) - 1) : t[i] = stack[i]
        /\ t[Len(stack)] = [stack[Len(stack)] EXCEPT !.leaving = TRUE]
        /\ \A i \in (Len(stack) + 1)..Len(t) :
             /\ t[i].node = kids[Len(kids) + 1 - (i - Len(stack))]
             /\ t[i].depth = stack[Len(stack)].depth + 1
             /\ t[i].leaving = FALSE
             /\ t[i].path = Append(stack[Len(stack)].path,
                                    Len(kids) + 1 - (i - Len(stack)))
        /\ \A k \in 1..Len(kids) :
             t[Len(stack) + Len(kids) + 1 - k].node = kids[k]
    BY <1>1, <1>3, PushFacts
  <2>2. stack' = t
    BY <1>5 DEF Top
  <2> HIDE DEF t
  <2>3. \A i \in (Len(stack) + 1)..Len(t) :
          /\ t[i].node = kids[Len(kids) + 1 - (i - Len(stack))]
          /\ t[i].depth = stack[Len(stack)].depth + 1
          /\ t[i].leaving = FALSE
    BY <2>1
  <2>4. /\ Len(t) = Len(stack) + Len(kids)
        /\ \A i \in 1..(Len(stack) - 1) : t[i] = stack[i]
        /\ t[Len(stack)] = [stack[Len(stack)] EXCEPT !.leaving = TRUE]
        /\ \A k \in 1..Len(kids) :
             t[Len(stack) + Len(kids) + 1 - k].node = kids[k]
    BY <2>1
  <2>5. QED
    BY <2>2, <2>3, <2>4 DEF Top
<1>7. PICK N \in Nat, K \in Nat : N = Len(stack) /\ K = Len(kids) /\ N >= 1
  BY <1>2, <1>3
<1>8. Idx' = 1..(N + K)
  BY <1>6, <1>7 DEF Idx
<1>9. \A i \in 1..N : NodeAt(i)' = NodeAt(i) /\ DepthAt(i)' = DepthAt(i)
  <2>1. NodeAt(N)' = NodeAt(N) /\ DepthAt(N)' = DepthAt(N)
    <3>1. /\ [Top EXCEPT !.leaving = TRUE].node = Top.node
          /\ [Top EXCEPT !.leaving = TRUE].depth = Top.depth
      BY <1>2, FrameFacts
    <3>2. stack'[N] = [Top EXCEPT !.leaving = TRUE] /\ stack[N] = Top
      BY <1>6, <1>7 DEF Top
    <3>3. QED
      BY <3>1, <3>2 DEF NodeAt, DepthAt
  <2>2. ASSUME NEW i \in 1..(N - 1)
        PROVE  NodeAt(i)' = NodeAt(i) /\ DepthAt(i)' = DepthAt(i)
    BY <1>6, <1>7 DEF NodeAt, DepthAt
  <2>3. \A i \in 1..N : i = N \/ i \in 1..(N - 1)
    OBVIOUS
  <2>4. QED
    BY <2>1, <2>2, <2>3
<1>10. (\A i \in 1..(N - 1) : Marker(i)' = Marker(i)) /\ Marker(N)'
  <2>1. stack'[N].leaving = TRUE
    <3>1. stack'[N] = [Top EXCEPT !.leaving = TRUE]
      BY <1>6, <1>7
    <3>2. QED
      BY <1>2, <3>1, FrameFacts
  <2>2. \A i \in 1..(N - 1) : stack'[i] = stack[i]
    BY <1>6, <1>7
  <2>3. QED
    BY <2>1, <2>2 DEF Marker
<1>11. ASSUME NEW i \in (N + 1)..(N + K)
       PROVE  /\ NodeAt(i)' \in ChildSet(graph, Top.node)
              /\ DepthAt(i)' = Top.depth + 1
              /\ ~Marker(i)'
  <2>1. i \in (Len(stack) + 1)..Len(stack')
    BY <1>6, <1>7
  <2>2. /\ stack'[i].node = kids[K + 1 - (i - N)]
        /\ stack'[i].depth = Top.depth + 1
        /\ stack'[i].leaving = FALSE
    BY <1>6, <1>7, <2>1
  <2>3. K + 1 - (i - N) \in 1..K
    OBVIOUS
  <2>4. QED
    BY <1>4, <1>7, <2>2, <2>3 DEF NodeAt, DepthAt, Marker
<1>12. ASSUME NEW x \in ChildSet(graph, Top.node)
       PROVE  \E i \in (N + 1)..(N + K) : NodeAt(i)' = x
  <2>1. PICK k \in 1..K : x = kids[k]
    BY <1>4, <1>7
  <2>2. N + K + 1 - k \in (N + 1)..(N + K)
    OBVIOUS
  <2>3. stack'[N + K + 1 - k].node = x
    BY <1>6, <1>7, <2>1
  <2>4. QED
    BY <2>2, <2>3 DEF NodeAt
<1>13. stack' # << >>
  <2>1. Len(<< >>) = 0
    BY EmptySeq
  <2>2. Len(stack') = N + K
    BY <1>6, <1>7
  <2>3. N + K # 0
    BY <1>7
  <2>4. QED
    BY <2>1, <2>2, <2>3
<1>14. QED
  BY <1>7, <1>8, <1>9, <1>10, <1>11, <1>12, <1>13

-----------------------------------------------------------------------------
(* The shape of the stack survives a pop and an expansion.                 *)

LEMMA ShapePop ==
  ASSUME TypeOK, StackShape, stack # << >>, stack' = Rest,
         UNCHANGED <<graph, root>>
  PROVE  StackShape'
<1>1. PICK N \in Nat : N = Len(stack) /\ N >= 1
  BY IdxFacts
<1>2. /\ Idx = 1..N /\ Idx' = 1..(N - 1)
      /\ \A i \in 1..(N - 1) : /\ NodeAt(i)' = NodeAt(i)
                               /\ DepthAt(i)' = DepthAt(i)
                               /\ Marker(i)' = Marker(i)
      /\ stack' = << >> <=> N = 1
  BY <1>1, IdxFacts, PopStep
<1>3. \A i \in Idx : DepthAt(i) \in Nat \ {0}
  BY IdxFacts
<1>4. InReach'
  BY <1>2 DEF StackShape, InReach, Reached
<1>5. RootAtBottom'
  BY <1>1, <1>2 DEF StackShape, RootAtBottom
<1>6. Hanging'
  <2>1. SUFFICES ASSUME NEW j \in 1..(N - 1), j > 1
                 PROVE  \E i \in 1..(N - 1) :
                          /\ i < j /\ Marker(i)'
                          /\ NodeAt(j)' \in ChildSet(graph', NodeAt(i)')
                          /\ DepthAt(j)' = DepthAt(i)' + 1
    BY <1>2 DEF Hanging
  <2>2. PICK i \in Idx : /\ i < j /\ Marker(i)
                         /\ NodeAt(j) \in ChildSet(graph, NodeAt(i))
                         /\ DepthAt(j) = DepthAt(i) + 1
    BY <1>2, <2>1 DEF StackShape, Hanging
  <2>3. i \in 1..(N - 1)
    BY <1>2, <2>1, <2>2
  <2>4. QED
    BY <1>2, <2>2, <2>3
<1>7. Descending'
  BY <1>2 DEF StackShape, Descending
<1>8. Levelled'
  <2>1. SUFFICES ASSUME NEW j \in 1..(N - 1), NEW k \in 1..(DepthAt(j)' - 1)
                 PROVE  \E i \in 1..(N - 1) :
                          i < j /\ Marker(i)' /\ DepthAt(i)' = k
    BY <1>2 DEF Levelled
  <2>2. j \in Idx /\ k \in 1..(DepthAt(j) - 1)
    BY <1>2, <2>1
  <2>3. PICK i \in Idx : i < j /\ Marker(i) /\ DepthAt(i) = k
    BY <2>2 DEF StackShape, Levelled
  <2>4. i \in 1..(N - 1)
    BY <1>2, <2>1, <2>3
  <2>5. QED
    BY <1>2, <2>3, <2>4
<1>9. QED
  BY <1>4, <1>5, <1>6, <1>7, <1>8 DEF StackShape

LEMMA ShapePush ==
  ASSUME TypeOK, StackShape, Expand
  PROVE  StackShape'
<1>1. /\ stack # << >> /\ ~Top.leaving /\ graph' = graph /\ root' = root
      /\ Top.node \in Node /\ Top.depth \in Nat \ {0}
  BY TopType, FrameFacts DEF Expand, Visit, Popping, args
<1>2. PICK N \in Nat, K \in Nat :
           /\ N = Len(stack) /\ N >= 1
           /\ Idx' = 1..(N + K)
           /\ \A i \in 1..N : NodeAt(i)' = NodeAt(i) /\ DepthAt(i)' = DepthAt(i)
           /\ \A i \in 1..(N - 1) : Marker(i)' = Marker(i)
           /\ Marker(N)'
           /\ \A i \in (N + 1)..(N + K) :
                /\ NodeAt(i)' \in ChildSet(graph, Top.node)
                /\ DepthAt(i)' = Top.depth + 1
                /\ ~Marker(i)'
           /\ \A k \in ChildSet(graph, Top.node) :
                \E i \in (N + 1)..(N + K) : NodeAt(i)' = k
           /\ stack' # << >>
  BY PushStep
<1>3. /\ Idx = 1..N /\ N \in Idx
      /\ NodeAt(N) = Top.node /\ DepthAt(N) = Top.depth /\ ~Marker(N)
      /\ \A i \in Idx : DepthAt(i) \in Nat \ {0} /\ NodeAt(i) \in Node
  BY <1>1, <1>2, IdxFacts
<1>4. \A i \in Idx' : i \in 1..(N - 1) \/ i = N \/ i \in (N + 1)..(N + K)
  BY <1>2
<1>5. 1..N \subseteq Idx'
  BY <1>2
<1>6. InReach'
  <2>1. root \in Node
    BY RootsAssumption DEF TypeOK
  <2>2. Top.node \in Reached /\ ChildSet(graph, Top.node) \subseteq Reached
    BY <1>3, <2>1, ReachFacts DEF StackShape, InReach, Reached, TypeOK
  <2>3. Reached' = Reached
    BY <1>1 DEF Reached
  <2>4. QED
    BY <1>2, <1>3, <1>4, <2>2, <2>3 DEF StackShape, InReach
<1>7. RootAtBottom'
  BY <1>1, <1>2 DEF StackShape, RootAtBottom
<1>8. Hanging'
  <2>1. SUFFICES ASSUME NEW j \in Idx', j > 1
                 PROVE  \E i \in Idx' :
                          /\ i < j /\ Marker(i)'
                          /\ NodeAt(j)' \in ChildSet(graph, NodeAt(i)')
                          /\ DepthAt(j)' = DepthAt(i)' + 1
    BY <1>1 DEF Hanging
  <2>2. CASE j \in 1..N
    <3>1. PICK i \in Idx : /\ i < j /\ Marker(i)
                           /\ NodeAt(j) \in ChildSet(graph, NodeAt(i))
                           /\ DepthAt(j) = DepthAt(i) + 1
      BY <1>3, <2>1, <2>2 DEF StackShape, Hanging
    <3>2. i \in 1..(N - 1) /\ i \in Idx'
      BY <1>2, <1>3, <2>2, <3>1
    <3>3. NodeAt(i)' = NodeAt(i) /\ DepthAt(i)' = DepthAt(i) /\ Marker(i)'
      BY <1>2, <3>1, <3>2
    <3>4. NodeAt(j)' = NodeAt(j) /\ DepthAt(j)' = DepthAt(j)
      BY <1>2, <2>2
    <3>5. QED
      BY <3>1, <3>2, <3>3, <3>4
  <2>3. CASE j \in (N + 1)..(N + K)
    <3>1. N \in Idx' /\ N < j /\ Marker(N)'
      BY <1>2, <2>3
    <3>2. NodeAt(j)' \in ChildSet(graph, NodeAt(N)')
          /\ DepthAt(j)' = DepthAt(N)' + 1
      BY <1>2, <1>3, <2>3
    <3>3. QED
      BY <3>1, <3>2
  <2>4. QED
    BY <1>4, <2>1, <2>2, <2>3
<1>9. Descending'
  <2>1. SUFFICES ASSUME NEW i \in Idx', NEW j \in Idx', i < j, Marker(i)'
                 PROVE  DepthAt(i)' < DepthAt(j)'
    BY DEF Descending
  <2>2. i \in 1..N
    BY <1>2, <1>4, <2>1
  <2>3. DepthAt(i)' = DepthAt(i) /\ DepthAt(i) <= Top.depth
    <3>1. CASE i = N
      BY <1>2, <1>3, <3>1
    <3>2. CASE i \in 1..(N - 1)
      <4>1. Marker(i) /\ i < N
        BY <1>2, <2>1, <3>2
      <4>2. DepthAt(i) < DepthAt(N)
        BY <1>3, <3>2, <4>1 DEF StackShape, Descending
      <4>3. QED
        BY <1>2, <1>3, <2>2, <4>2
    <3>3. QED
      BY <1>2, <2>2, <3>1, <3>2
  <2>4. CASE j \in 1..N
    <3>1. i \in 1..(N - 1)
      BY <2>1, <2>2, <2>4
    <3>2. DepthAt(i) < DepthAt(j)
      BY <1>2, <1>3, <2>1, <2>4, <3>1 DEF StackShape, Descending
    <3>3. QED
      BY <1>2, <2>3, <2>4, <3>2
  <2>5. CASE j \in (N + 1)..(N + K)
    BY <1>1, <1>2, <1>3, <2>2, <2>3, <2>5
  <2>6. QED
    BY <1>2, <2>4, <2>5
<1>10. Levelled'
  <2>1. SUFFICES ASSUME NEW j \in Idx', NEW k \in 1..(DepthAt(j)' - 1)
                 PROVE  \E i \in Idx' : i < j /\ Marker(i)' /\ DepthAt(i)' = k
    BY DEF Levelled
  <2>2. ASSUME NEW h \in 1..N, NEW l \in 1..(DepthAt(h) - 1)
        PROVE  \E i \in Idx' : i < h /\ Marker(i)' /\ DepthAt(i)' = l
    <3>1. PICK i \in Idx : i < h /\ Marker(i) /\ DepthAt(i) = l
      BY <1>3, <2>2 DEF StackShape, Levelled
    <3>2. i \in 1..(N - 1)
      BY <1>3, <2>2, <3>1
    <3>3. i \in Idx' /\ Marker(i)' /\ DepthAt(i)' = l
      BY <1>2, <3>1, <3>2
    <3>4. QED
      BY <3>1, <3>3
  <2>3. CASE j \in 1..N
    BY <1>2, <2>1, <2>2, <2>3
  <2>4. CASE j \in (N + 1)..(N + K)
    <3>1. k \in 1..Top.depth
      BY <1>1, <1>2, <2>1, <2>4
    <3>2. CASE k = Top.depth
      <4>1. N \in Idx' /\ N < j /\ Marker(N)' /\ DepthAt(N)' = k
        BY <1>2, <1>3, <2>4, <3>2
      <4>2. QED
        BY <4>1
    <3>3. CASE k \in 1..(DepthAt(N) - 1)
      <4>1. PICK i \in Idx' : i < N /\ Marker(i)' /\ DepthAt(i)' = k
        BY <1>2, <2>2, <3>3
      <4>2. i < j
        BY <1>2, <2>4, <4>1
      <4>3. QED
        BY <4>1, <4>2
    <3>4. QED
      BY <1>1, <1>3, <3>1, <3>2, <3>3
  <2>5. QED
    BY <1>2, <2>3, <2>4
<1>11. QED
  BY <1>6, <1>7, <1>8, <1>9, <1>10 DEF StackShape

-----------------------------------------------------------------------------
(* The bookkeeping of an entered node: its recorded depth rises to the     *)
(* depth of its frame, and nothing else about any other node changes.      *)

LEMMA VisitFacts ==
  ASSUME TypeOK, BlackInv, CountInv, Visit(Top)
  PROVE  /\ Top.node \in Node /\ Top.depth \in Nat \ {0} /\ ~Top.leaving
         /\ Top.node \notin ancestors /\ stack # << >> /\ pc = "walk"
         /\ bestDepth[Top.node] < Top.depth
         /\ bestDepth'[Top.node] = Top.depth
         /\ \A n \in Node : n # Top.node => bestDepth'[n] = bestDepth[n]
         /\ \A n \in Node : bestDepth[n] \in Nat /\ bestDepth[n] <= bestDepth'[n]
         /\ expansions'[Top.node] = expansions[Top.node] + 1
         /\ \A n \in Node : n # Top.node => expansions'[n] = expansions[n]
         /\ graph' = graph /\ root' = root /\ limitsArg' = limitsArg
         /\ Limits' = Limits
         /\ explored' = explored
         /\ ancestors' = ancestors \cup {Top.node}
         /\ counted' = counted \cup {Top.node}
<1>1. stack # << >> /\ ~Top.leaving /\ pc = "walk" /\ Top.node \notin ancestors
  BY DEF Visit, Popping
<1>2. Top.node \in Node /\ Top.depth \in Nat \ {0}
  BY <1>1, TopType, FrameFacts
<1>3. \A n \in Node : bestDepth[n] \in Nat
  BY DEF TypeOK
<1>4. bestDepth[Top.node] < Top.depth
  <2>1. CASE Top.node \in explored
    BY <1>2, <1>3, <2>1 DEF Visit, AlreadyExplored
  <2>2. CASE Top.node \notin explored
    <3>1. bestDepth[Top.node] = 0
      BY <1>1, <1>2, <2>2 DEF BlackInv, CountInv
    <3>2. QED
      BY <1>2, <3>1
  <2>3. QED
    BY <2>1, <2>2
<1>5. /\ bestDepth' = [bestDepth EXCEPT ![Top.node] =
                         IF @ >= Top.depth THEN @ ELSE Top.depth]
      /\ expansions' = [expansions EXCEPT ![Top.node] = @ + 1]
  BY DEF Visit
<1>6. bestDepth'[Top.node] = Top.depth
  BY <1>2, <1>3, <1>4, <1>5 DEF TypeOK
<1>7. \A n \in Node : n # Top.node => bestDepth'[n] = bestDepth[n]
  BY <1>5 DEF TypeOK
<1>8. \A n \in Node : bestDepth[n] <= bestDepth'[n]
  BY <1>2, <1>3, <1>4, <1>6, <1>7
<1>9. /\ expansions'[Top.node] = expansions[Top.node] + 1
      /\ \A n \in Node : n # Top.node => expansions'[n] = expansions[n]
  BY <1>2, <1>5 DEF TypeOK
<1>10. /\ graph' = graph /\ root' = root /\ limitsArg' = limitsArg
       /\ explored' = explored
       /\ ancestors' = ancestors \cup {Top.node}
       /\ counted' = counted \cup {Top.node}
  BY DEF Visit, args
<1>11. Limits' = Limits
  BY <1>10 DEF Limits
<1>12. QED
  BY <1>1, <1>2, <1>3, <1>4, <1>6, <1>7, <1>8, <1>9, <1>10, <1>11

-----------------------------------------------------------------------------
(* Leave: the marked node on top turns from grey to black.                 *)

LEMMA WalkLeave ==
  ASSUME TypeOK, WalkInv, Leave
  PROVE  WalkInv'
<1>1. /\ stack # << >> /\ Top.leaving /\ pc = "walk" /\ stack' = Rest
      /\ NodeError(graph, Top.node) = Pass
      /\ explored' = explored \cup {Top.node}
      /\ ancestors' = ancestors \ {Top.node}
      /\ UNCHANGED <<graph, root, limitsArg, pc, counted, bestDepth, nodeCount,
                     maxDepth>>
  BY DEF Leave, Popping, args
<1>2. /\ IsContract(graph[root]) /\ Limits.form = "exact"
      /\ StackShape /\ GreyInv /\ PendingInv /\ BlackInv /\ CountInv /\ LeastInv
  BY <1>1 DEF WalkInv
<1>3. Limits' = Limits /\ Reached' = Reached
  BY <1>1 DEF Limits, Reached
<1>4. PICK N \in Nat : N = Len(stack) /\ N >= 1
  BY <1>1, IdxFacts
<1>5. /\ Idx = 1..N /\ Idx' = 1..(N - 1)
      /\ \A i \in 1..(N - 1) : /\ NodeAt(i)' = NodeAt(i)
                               /\ DepthAt(i)' = DepthAt(i)
                               /\ Marker(i)' = Marker(i)
      /\ stack' = << >> <=> N = 1
  BY <1>1, <1>4, IdxFacts, PopStep
<1>6. /\ N \in Idx /\ NodeAt(N) = Top.node /\ DepthAt(N) = Top.depth
      /\ Marker(N)
      /\ \A i \in Idx : DepthAt(i) \in Nat \ {0} /\ NodeAt(i) \in Node
      /\ 1..(N - 1) \subseteq Idx
  BY <1>1, <1>4, <1>5, IdxFacts
<1>7. StackShape'
  BY <1>1, <1>2, ShapePop
<1>8. \A i \in 1..(N - 1) : Marker(i) => NodeAt(i) # Top.node
  BY <1>2, <1>5, <1>6 DEF GreyInv, GreyOnce
<1>9. GreyInv'
  <2>1. GreyMarked'
    BY <1>1, <1>2, <1>3, <1>5, <1>6, <1>8 DEF GreyInv, GreyMarked
  <2>2. GreyOnStack'
    <3>1. SUFFICES ASSUME NEW n \in ancestors, n # Top.node
                   PROVE  \E i \in 1..(N - 1) : Marker(i)' /\ NodeAt(i)' = n
      BY <1>1, <1>5 DEF GreyOnStack
    <3>2. PICK i \in Idx : Marker(i) /\ NodeAt(i) = n
      BY <1>2, <3>1 DEF GreyInv, GreyOnStack
    <3>3. i \in 1..(N - 1)
      BY <1>5, <1>6, <3>1, <3>2
    <3>4. QED
      BY <1>5, <3>2, <3>3
  <2>3. GreyOnce'
    BY <1>2, <1>5, <1>6 DEF GreyInv, GreyOnce
  <2>4. QED
    BY <2>1, <2>2, <2>3 DEF GreyInv
<1>10. bestDepth[Top.node] = DepthAt(N)
  BY <1>2, <1>6 DEF GreyInv, GreyMarked
<1>11. PendingInv'
  <2>1. SUFFICES ASSUME NEW i \in 1..(N - 1), Marker(i),
                        NEW k \in ChildSet(graph, NodeAt(i))
                 PROVE  \/ k \in explored' /\ bestDepth[k] > DepthAt(i)
                        \/ \E j \in 1..(N - 1) :
                             /\ i < j /\ NodeAt(j)' = k
                             /\ DepthAt(j)' = DepthAt(i) + 1
    BY <1>1, <1>5 DEF PendingInv
  <2>2. CASE k \in explored /\ bestDepth[k] > DepthAt(i)
    BY <1>1, <2>2
  <2>3. CASE \E j \in Idx : i < j /\ NodeAt(j) = k /\ DepthAt(j) = DepthAt(i) + 1
    <3>1. PICK j \in Idx : i < j /\ NodeAt(j) = k /\ DepthAt(j) = DepthAt(i) + 1
      BY <2>3
    <3>2. CASE j = N
      BY <1>1, <1>6, <1>10, <2>1, <3>1, <3>2
    <3>3. CASE j \in 1..(N - 1)
      BY <1>5, <3>1, <3>3
    <3>4. QED
      BY <1>5, <3>2, <3>3
  <2>4. QED
    BY <1>2, <1>6, <2>1, <2>2, <2>3 DEF PendingInv
<1>12. \A k \in ChildSet(graph, Top.node) :
          k \in explored /\ bestDepth[k] > bestDepth[Top.node]
  <2>1. ASSUME NEW j \in Idx PROVE ~(N < j)
    BY <1>5
  <2>2. QED
    BY <1>2, <1>6, <1>10, <2>1 DEF PendingInv
<1>13. BlackInv'
  <2>1. NodeAccepted(graph, Top.node)
    BY <1>1, <1>2, <1>6 DEF GreyInv, GreyMarked, NodeAccepted
  <2>2. Top.node \in ancestors
    BY <1>2, <1>6 DEF GreyInv, GreyMarked
  <2>3. stack' = << >> => root \in explored'
    <3>1. N = 1 => root = Top.node
      BY <1>1, <1>2, <1>6 DEF StackShape, RootAtBottom
    <3>2. QED
      BY <1>1, <1>5, <3>1
  <2>4. counted' = explored' \cup ancestors'
    BY <1>1, <1>2, <2>2 DEF BlackInv
  <2>5. counted' \subseteq Reached'
    BY <1>1, <1>2, <1>3 DEF BlackInv
  <2>6. \A n \in explored' : NodeAccepted(graph', n)
    BY <1>1, <1>2, <2>1 DEF BlackInv
  <2>7. \A n \in explored' : ChildSet(graph', n) \subseteq explored'
    BY <1>1, <1>2, <1>12 DEF BlackInv
  <2>8. \A n \in explored' \ ancestors' :
          \A k \in ChildSet(graph', n) : bestDepth'[k] > bestDepth'[n]
    BY <1>1, <1>2, <1>12 DEF BlackInv
  <2>9. QED
    BY <1>1, <2>3, <2>4, <2>5, <2>6, <2>7, <2>8 DEF BlackInv
<1>14. CountInv'
  BY <1>1, <1>2, <1>3 DEF CountInv
<1>15. LeastInv'
  <2>1. SUFFICES ASSUME NEW m \in Nat, NEW L, Labelling(L, m)
                 PROVE  /\ \A i \in 1..(N - 1) : DepthAt(i) <= L[NodeAt(i)]
                        /\ \A n \in counted : bestDepth[n] <= L[n]
    BY <1>1, <1>3, <1>5 DEF LeastInv, Labelling
  <2>2. QED
    BY <1>2, <1>6, <2>1 DEF LeastInv
<1>16. QED
  BY <1>1, <1>2, <1>3, <1>7, <1>9, <1>11, <1>13, <1>14, <1>15 DEF WalkInv

-----------------------------------------------------------------------------
(* SkipExplored: the frame on top is a black node explored deep enough.    *)

LEMMA WalkSkip ==
  ASSUME TypeOK, WalkInv, SkipExplored
  PROVE  WalkInv'
<1>1. /\ stack # << >> /\ ~Top.leaving /\ pc = "walk" /\ stack' = Rest
      /\ Top.node \in explored /\ bestDepth[Top.node] >= Top.depth
      /\ UNCHANGED <<graph, root, limitsArg, pc, explored, ancestors, counted,
                     bestDepth, nodeCount, maxDepth>>
  BY DEF SkipExplored, Popping, AlreadyExplored, args, walkVars
<1>2. /\ IsContract(graph[root]) /\ Limits.form = "exact"
      /\ StackShape /\ GreyInv /\ PendingInv /\ BlackInv /\ CountInv /\ LeastInv
  BY <1>1 DEF WalkInv
<1>3. Limits' = Limits /\ Reached' = Reached
  BY <1>1 DEF Limits, Reached
<1>4. PICK N \in Nat : N = Len(stack) /\ N >= 1
  BY <1>1, IdxFacts
<1>5. /\ Idx = 1..N /\ Idx' = 1..(N - 1)
      /\ \A i \in 1..(N - 1) : /\ NodeAt(i)' = NodeAt(i)
                               /\ DepthAt(i)' = DepthAt(i)
                               /\ Marker(i)' = Marker(i)
      /\ stack' = << >> <=> N = 1
  BY <1>1, <1>4, IdxFacts, PopStep
<1>6. /\ N \in Idx /\ NodeAt(N) = Top.node /\ DepthAt(N) = Top.depth
      /\ ~Marker(N)
      /\ \A i \in Idx : DepthAt(i) \in Nat \ {0} /\ NodeAt(i) \in Node
      /\ 1..(N - 1) \subseteq Idx
  BY <1>1, <1>4, <1>5, IdxFacts
<1>7. StackShape'
  BY <1>1, <1>2, ShapePop
<1>8. GreyInv'
  <2>1. GreyMarked'
    BY <1>1, <1>2, <1>3, <1>5, <1>6 DEF GreyInv, GreyMarked
  <2>2. GreyOnStack'
    <3>1. SUFFICES ASSUME NEW n \in ancestors
                   PROVE  \E i \in 1..(N - 1) : Marker(i)' /\ NodeAt(i)' = n
      BY <1>1, <1>5 DEF GreyOnStack
    <3>2. PICK i \in Idx : Marker(i) /\ NodeAt(i) = n
      BY <1>2, <3>1 DEF GreyInv, GreyOnStack
    <3>3. i \in 1..(N - 1)
      BY <1>5, <1>6, <3>2
    <3>4. QED
      BY <1>5, <3>2, <3>3
  <2>3. GreyOnce'
    BY <1>2, <1>5, <1>6 DEF GreyInv, GreyOnce
  <2>4. QED
    BY <2>1, <2>2, <2>3 DEF GreyInv
<1>9. PendingInv'
  <2>1. SUFFICES ASSUME NEW i \in 1..(N - 1), Marker(i),
                        NEW k \in ChildSet(graph, NodeAt(i))
                 PROVE  \/ k \in explored /\ bestDepth[k] > DepthAt(i)
                        \/ \E j \in 1..(N - 1) :
                             /\ i < j /\ NodeAt(j)' = k
                             /\ DepthAt(j)' = DepthAt(i) + 1
    BY <1>1, <1>5 DEF PendingInv
  <2>2. CASE \E j \in Idx : i < j /\ NodeAt(j) = k /\ DepthAt(j) = DepthAt(i) + 1
    <3>1. PICK j \in Idx : i < j /\ NodeAt(j) = k /\ DepthAt(j) = DepthAt(i) + 1
      BY <2>2
    <3>2. CASE j = N
      <4>1. bestDepth[k] \in Nat /\ DepthAt(i) \in Nat
        BY <1>1, <1>6, <2>1, <3>1, <3>2 DEF TypeOK
      <4>2. QED
        BY <1>1, <1>6, <3>1, <3>2, <4>1
    <3>3. CASE j \in 1..(N - 1)
      BY <1>5, <3>1, <3>3
    <3>4. QED
      BY <1>5, <3>2, <3>3
  <2>3. QED
    BY <1>2, <1>6, <2>1, <2>2 DEF PendingInv
<1>10. BlackInv'
  <2>1. stack' = << >> => root \in explored
    <3>1. N = 1 => root = Top.node
      BY <1>1, <1>2, <1>6 DEF StackShape, RootAtBottom
    <3>2. QED
      BY <1>1, <1>5, <3>1
  <2>2. QED
    BY <1>1, <1>2, <1>3, <2>1 DEF BlackInv
<1>11. CountInv'
  BY <1>1, <1>2, <1>3 DEF CountInv
<1>12. LeastInv'
  <2>1. SUFFICES ASSUME NEW m \in Nat, NEW L, Labelling(L, m)
                 PROVE  /\ \A i \in 1..(N - 1) : DepthAt(i) <= L[NodeAt(i)]
                        /\ \A n \in counted : bestDepth[n] <= L[n]
    BY <1>1, <1>3, <1>5 DEF LeastInv, Labelling
  <2>2. QED
    BY <1>2, <1>6, <2>1 DEF LeastInv
<1>13. QED
  BY <1>1, <1>2, <1>3, <1>7, <1>8, <1>9, <1>10, <1>11, <1>12 DEF WalkInv

-----------------------------------------------------------------------------
(* Expand: the frame on top becomes a marker below its children.           *)

LEMMA WalkExpand ==
  ASSUME TypeOK, WalkInv, Expand
  PROVE  WalkInv'
<1>1. /\ Visit(Top) /\ WithinLimits(Top) /\ pc' = pc
      /\ IsSupported(graph[Top.node]) /\ IsIterable(graph[Top.node])
  BY DEF Expand
<1>2. /\ IsContract(graph[root]) /\ Limits.form = "exact"
      /\ StackShape /\ GreyInv /\ PendingInv /\ BlackInv /\ CountInv /\ LeastInv
  BY <1>1 DEF WalkInv, Visit, Popping
<1>3. /\ Top.node \in Node /\ Top.depth \in Nat \ {0} /\ ~Top.leaving
      /\ Top.node \notin ancestors /\ stack # << >> /\ pc = "walk"
      /\ bestDepth[Top.node] < Top.depth
      /\ bestDepth'[Top.node] = Top.depth
      /\ \A n \in Node : n # Top.node => bestDepth'[n] = bestDepth[n]
      /\ \A n \in Node : bestDepth[n] \in Nat /\ bestDepth[n] <= bestDepth'[n]
      /\ graph' = graph /\ root' = root
      /\ Limits' = Limits
      /\ explored' = explored
      /\ ancestors' = ancestors \cup {Top.node}
      /\ counted' = counted \cup {Top.node}
  BY <1>1, <1>2, VisitFacts
<1>4. PICK N \in Nat, K \in Nat :
           /\ N = Len(stack) /\ N >= 1
           /\ Idx' = 1..(N + K)
           /\ \A i \in 1..N : NodeAt(i)' = NodeAt(i) /\ DepthAt(i)' = DepthAt(i)
           /\ \A i \in 1..(N - 1) : Marker(i)' = Marker(i)
           /\ Marker(N)'
           /\ \A i \in (N + 1)..(N + K) :
                /\ NodeAt(i)' \in ChildSet(graph, Top.node)
                /\ DepthAt(i)' = Top.depth + 1
                /\ ~Marker(i)'
           /\ \A k \in ChildSet(graph, Top.node) :
                \E i \in (N + 1)..(N + K) : NodeAt(i)' = k
           /\ stack' # << >>
  BY PushStep
<1>5. /\ Idx = 1..N /\ N \in Idx
      /\ NodeAt(N) = Top.node /\ DepthAt(N) = Top.depth /\ ~Marker(N)
      /\ \A i \in Idx : DepthAt(i) \in Nat \ {0} /\ NodeAt(i) \in Node
      /\ 1..(N - 1) \subseteq Idx
  BY <1>3, <1>4, IdxFacts
<1>6. Reached' = Reached /\ Top.node \in Reached /\ Reached \subseteq Node
  <2>1. root \in Node
    BY RootsAssumption DEF TypeOK
  <2>2. QED
    BY <1>2, <1>3, <1>5, <2>1, ReachFacts
       DEF StackShape, InReach, Reached, TypeOK
<1>7. ASSUME NEW i \in Idx', Marker(i)'
      PROVE  i = N \/ (i \in 1..(N - 1) /\ Marker(i))
  <2>1. i \in 1..(N - 1) \/ i = N \/ i \in (N + 1)..(N + K)
    BY <1>4
  <2>2. CASE i \in (N + 1)..(N + K)
    BY <1>4, <1>7, <2>2
  <2>3. CASE i \in 1..(N - 1)
    <3>1. Marker(i)' <=> Marker(i)
      BY <1>4, <2>3
    <3>2. QED
      BY <1>7, <2>3, <3>1
  <2>4. QED
    BY <2>1, <2>2, <2>3
<1>8. StackShape'
  BY <1>2, ShapePush
<1>9. \A i \in 1..(N - 1) : Marker(i) => NodeAt(i) # Top.node
  BY <1>2, <1>3, <1>5 DEF GreyInv, GreyMarked
<1>10. GreyInv'
  <2>1. GreyMarked'
    <3>1. SUFFICES ASSUME NEW i \in Idx', Marker(i)'
                   PROVE  /\ NodeAt(i)' \in ancestors'
                          /\ IsSupported(graph[NodeAt(i)'])
                          /\ IsIterable(graph[NodeAt(i)'])
                          /\ bestDepth'[NodeAt(i)'] = DepthAt(i)'
                          /\ DepthAt(i)' <= Limits.depth
      BY <1>3 DEF GreyMarked
    <3>2. CASE i = N
      <4>1. NodeAt(i)' = Top.node /\ DepthAt(i)' = Top.depth
        BY <1>4, <1>5, <3>2
      <4>2. Top.depth <= Limits.depth
        BY <1>1 DEF WithinLimits
      <4>3. QED
        BY <1>1, <1>3, <4>1, <4>2
    <3>3. CASE i \in 1..(N - 1) /\ Marker(i)
      <4>1. NodeAt(i)' = NodeAt(i) /\ DepthAt(i)' = DepthAt(i) /\ i \in Idx
            /\ NodeAt(i) # Top.node /\ NodeAt(i) \in Node
        BY <1>4, <1>5, <1>9, <3>3
      <4>2. QED
        BY <1>2, <1>3, <3>3, <4>1 DEF GreyInv, GreyMarked
    <3>4. QED
      BY <1>7, <3>1, <3>2, <3>3
  <2>2. GreyOnStack'
    <3>1. SUFFICES ASSUME NEW n \in ancestors'
                   PROVE  \E i \in Idx' : Marker(i)' /\ NodeAt(i)' = n
      BY DEF GreyOnStack
    <3>2. CASE n = Top.node
      BY <1>4, <1>5, <3>2
    <3>3. CASE n \in ancestors
      <4>1. PICK i \in Idx : Marker(i) /\ NodeAt(i) = n
        BY <1>2, <3>3 DEF GreyInv, GreyOnStack
      <4>2. i \in 1..(N - 1)
        BY <1>4, <1>5, <4>1
      <4>3. i \in Idx' /\ Marker(i)' /\ NodeAt(i)' = n
        BY <1>4, <4>1, <4>2
      <4>4. QED
        BY <4>3
    <3>4. QED
      BY <1>3, <3>1, <3>2, <3>3
  <2>3. GreyOnce'
    <3>1. SUFFICES ASSUME NEW i \in Idx', NEW j \in Idx', Marker(i)', Marker(j)',
                          NodeAt(i)' = NodeAt(j)'
                   PROVE  i = j
      BY DEF GreyOnce
    <3>2. NodeAt(i)' = NodeAt(i) /\ NodeAt(j)' = NodeAt(j)
      BY <1>4, <1>7, <3>1
    <3>3. CASE i = N \/ j = N
      BY <1>5, <1>7, <1>9, <3>1, <3>2, <3>3
    <3>4. CASE i # N /\ j # N
      BY <1>2, <1>5, <1>7, <3>1, <3>2, <3>4 DEF GreyInv, GreyOnce
    <3>5. QED
      BY <3>3, <3>4
  <2>4. QED
    BY <2>1, <2>2, <2>3 DEF GreyInv
<1>11. PendingInv'
  <2>1. SUFFICES ASSUME NEW i \in Idx', Marker(i)',
                        NEW k \in ChildSet(graph, NodeAt(i)')
                 PROVE  \/ k \in explored /\ bestDepth'[k] > DepthAt(i)'
                        \/ \E j \in Idx' : /\ i < j /\ NodeAt(j)' = k
                                           /\ DepthAt(j)' = DepthAt(i)' + 1
    BY <1>3 DEF PendingInv
  <2>2. CASE i = N
    <3>1. k \in ChildSet(graph, Top.node) /\ DepthAt(i)' = Top.depth
      BY <1>4, <1>5, <2>1, <2>2
    <3>2. PICK j \in (N + 1)..(N + K) : NodeAt(j)' = k
      BY <1>4, <3>1
    <3>3. j \in Idx' /\ i < j /\ DepthAt(j)' = Top.depth + 1
      BY <1>4, <2>2, <3>2
    <3>4. QED
      BY <3>1, <3>2, <3>3
  <2>3. CASE i \in 1..(N - 1) /\ Marker(i)
    <3>1. /\ NodeAt(i)' = NodeAt(i) /\ DepthAt(i)' = DepthAt(i) /\ i \in Idx
          /\ DepthAt(i) \in Nat /\ k \in ChildSet(graph, NodeAt(i))
      BY <1>4, <1>5, <2>1, <2>3
    <3>2. CASE k \in explored /\ bestDepth[k] > DepthAt(i)
      <4>1. k \in Node
        BY <3>1, <1>5, KidsType DEF TypeOK
      <4>2. bestDepth[k] \in Nat /\ bestDepth'[k] \in Nat
            /\ bestDepth[k] <= bestDepth'[k]
        BY <1>3, <4>1
      <4>3. QED
        BY <3>1, <3>2, <4>2
    <3>3. CASE \E j \in Idx : i < j /\ NodeAt(j) = k /\ DepthAt(j) = DepthAt(i) + 1
      <4>1. PICK j \in Idx : i < j /\ NodeAt(j) = k /\ DepthAt(j) = DepthAt(i) + 1
        BY <3>3
      <4>2. j \in Idx' /\ NodeAt(j)' = k /\ DepthAt(j)' = DepthAt(j)
        BY <1>4, <1>5, <4>1
      <4>3. QED
        BY <3>1, <4>1, <4>2
    <3>4. QED
      BY <1>2, <2>3, <3>1, <3>2, <3>3 DEF PendingInv
  <2>4. QED
    BY <1>7, <2>1, <2>2, <2>3
<1>12. BlackInv'
  <2>1. \A n \in explored : n \in Node
    BY DEF TypeOK
  <2>2. counted' = explored' \cup ancestors' /\ counted' \subseteq Reached'
    BY <1>2, <1>3, <1>6 DEF BlackInv
  <2>3. /\ \A n \in explored' : NodeAccepted(graph', n)
        /\ \A n \in explored' : ChildSet(graph', n) \subseteq explored'
    BY <1>2, <1>3 DEF BlackInv
  <2>4. ASSUME NEW n \in explored \ ancestors', NEW k \in ChildSet(graph, n)
        PROVE  bestDepth'[k] > bestDepth'[n]
    <3>1. n \in Node /\ n # Top.node /\ n \in explored \ ancestors /\ k \in explored
      BY <1>2, <1>3, <2>1, <2>4 DEF BlackInv
    <3>2. k \in Node /\ bestDepth[k] > bestDepth[n]
      BY <1>2, <2>1, <2>4, <3>1 DEF BlackInv
    <3>3. bestDepth'[n] = bestDepth[n] /\ bestDepth[k] <= bestDepth'[k]
          /\ bestDepth[n] \in Nat /\ bestDepth[k] \in Nat /\ bestDepth'[k] \in Nat
      BY <1>3, <3>1, <3>2
    <3>4. QED
      BY <3>2, <3>3
  <2>5. QED
    BY <1>3, <1>4, <2>2, <2>3, <2>4 DEF BlackInv
<1>13. CountInv'
  <2>1. IsFiniteSet(counted)
    <3>1. counted \subseteq Node
      BY DEF TypeOK
    <3>2. QED
      BY <3>1, NodeAssumption, FS_Subset
  <2>2. nodeCount' = Cardinality(counted')
    <3>1. nodeCount' = IF Top.node \in counted THEN nodeCount ELSE nodeCount + 1
      BY <1>1 DEF Visit
    <3>2. Cardinality(counted \cup {Top.node})
            = IF Top.node \in counted THEN Cardinality(counted)
              ELSE Cardinality(counted) + 1
      BY <2>1, FS_AddElement
    <3>3. QED
      BY <1>2, <1>3, <3>1, <3>2 DEF CountInv
  <2>3. nodeCount' <= Limits.nodes /\ Top.depth <= Limits.depth
    BY <1>1 DEF WithinLimits
  <2>4. maxDepth' = (IF Top.depth > maxDepth THEN Top.depth ELSE maxDepth)
        /\ maxDepth \in Nat
    BY <1>1 DEF Visit, TypeOK
  <2>5. maxDepth' <= Limits.depth /\ maxDepth <= maxDepth' /\ Top.depth <= maxDepth'
        /\ maxDepth' \in Nat
    BY <1>2, <1>3, <2>3, <2>4 DEF CountInv
  <2>6. ASSUME NEW n \in counted'
        PROVE  bestDepth'[n] >= 1 /\ bestDepth'[n] <= maxDepth'
    <3>1. CASE n = Top.node
      BY <1>3, <2>5, <3>1
    <3>2. CASE n \in counted /\ n # Top.node
      <4>1. n \in Node
        BY <3>2 DEF TypeOK
      <4>2. bestDepth'[n] = bestDepth[n] /\ bestDepth[n] \in Nat
            /\ bestDepth[n] >= 1 /\ bestDepth[n] <= maxDepth
        BY <1>2, <1>3, <3>2, <4>1 DEF CountInv
      <4>3. QED
        BY <2>4, <2>5, <4>2
    <3>3. QED
      BY <1>3, <2>6, <3>1, <3>2
  <2>7. \A n \in Node \ counted' : bestDepth'[n] = 0
    BY <1>2, <1>3 DEF CountInv
  <2>8. \E n \in counted' : bestDepth'[n] = maxDepth'
    <3>1. CASE maxDepth' = Top.depth
      BY <1>3, <3>1
    <3>2. CASE maxDepth' = maxDepth /\ ~(Top.depth > maxDepth)
      <4>1. counted # {}
        BY <1>2, <1>3, <3>2 DEF CountInv
      <4>2. PICK n \in counted : bestDepth[n] = maxDepth
        BY <1>2, <4>1 DEF CountInv
      <4>3. n \in Node /\ n # Top.node
        BY <1>3, <2>4, <3>2, <4>2 DEF TypeOK
      <4>4. QED
        BY <1>3, <3>2, <4>2, <4>3
    <3>3. QED
      BY <2>4, <3>1, <3>2
  <2>9. counted' # {}
    BY <1>3
  <2>10. QED
    BY <1>3, <2>2, <2>3, <2>5, <2>6, <2>7, <2>8, <2>9 DEF CountInv
<1>14. LeastInv'
  <2>1. SUFFICES ASSUME NEW m \in Nat, NEW L, Labelling(L, m)
                 PROVE  /\ \A i \in Idx' : DepthAt(i)' <= L[NodeAt(i)']
                        /\ \A n \in counted' : bestDepth'[n] <= L[n]
    BY <1>3, <1>6 DEF LeastInv, Labelling
  <2>2. /\ \A i \in Idx : DepthAt(i) <= L[NodeAt(i)]
        /\ \A n \in counted : bestDepth[n] <= L[n]
    BY <1>2, <2>1 DEF LeastInv
  <2>3. /\ \A n \in Reached : L[n] \in Nat
        /\ \A k \in ChildSet(graph, Top.node) : k \in Reached /\ L[k] > L[Top.node]
    <3>1. root \in Node
      BY RootsAssumption DEF TypeOK
    <3>2. ChildSet(graph, Top.node) \subseteq Reached
      BY <1>6, <3>1, ReachFacts DEF Reached, TypeOK
    <3>3. QED
      BY <1>6, <2>1, <3>2 DEF Labelling, IncreasingLabels
  <2>4. Top.depth <= L[Top.node] /\ L[Top.node] \in Nat
    BY <1>5, <1>6, <2>2, <2>3
  <2>5. ASSUME NEW i \in Idx' PROVE DepthAt(i)' <= L[NodeAt(i)']
    <3>1. CASE i \in 1..N
      BY <1>4, <1>5, <2>2, <3>1
    <3>2. CASE i \in (N + 1)..(N + K)
      <4>1. DepthAt(i)' = Top.depth + 1 /\ NodeAt(i)' \in ChildSet(graph, Top.node)
        BY <1>4, <3>2
      <4>2. L[NodeAt(i)'] > L[Top.node] /\ L[NodeAt(i)'] \in Nat
        BY <2>3, <4>1
      <4>3. QED
        BY <1>3, <2>4, <4>1, <4>2
    <3>3. QED
      BY <1>4, <2>5, <3>1, <3>2
  <2>6. ASSUME NEW n \in counted' PROVE bestDepth'[n] <= L[n]
    <3>1. CASE n = Top.node
      BY <1>3, <2>4, <3>1
    <3>2. CASE n \in counted /\ n # Top.node
      BY <1>3, <2>2, <3>2 DEF TypeOK
    <3>3. QED
      BY <1>3, <2>6, <3>1, <3>2
  <2>7. QED
    BY <2>5, <2>6
<1>15. IsContract(graph'[root']) /\ Limits'.form = "exact"
  BY <1>2, <1>3
<1>16. QED
  BY <1>8, <1>10, <1>11, <1>12, <1>13, <1>14, <1>15 DEF WalkInv

-----------------------------------------------------------------------------
(* The beginning.                                                          *)

LEMMA WalkBegin ==
  ASSUME TypeOK, EntryInv, Begin
  PROVE  WalkInv'
<1>1. /\ IsContract(graph[root]) /\ Limits.form = "exact"
      /\ graph' = graph /\ root' = root /\ Limits' = Limits
      /\ explored' = {} /\ ancestors' = {} /\ counted' = {}
      /\ nodeCount' = 0 /\ maxDepth' = 0
      /\ bestDepth' = [n \in Node |-> 0]
      /\ stack' = << Frame(root, 1, << >>, FALSE) >>
  BY DEF Begin, EntryInv, args, walkVars, Limits
<1>2. /\ Idx' = {1} /\ NodeAt(1)' = root /\ DepthAt(1)' = 1 /\ ~Marker(1)'
      /\ stack' # << >>
  <2>1. Len(stack') = 1 /\ stack'[1] = Frame(root, 1, << >>, FALSE)
    BY <1>1
  <2>2. Idx' = {1}
    BY <2>1 DEF Idx
  <2>3. stack' # << >>
    BY <1>1
  <2>4. QED
    BY <2>1, <2>2, <2>3 DEF NodeAt, DepthAt, Marker, Frame
<1>3. root \in Reached /\ Reached' = Reached
  BY <1>1, RootsAssumption, ReachFacts DEF Reached, TypeOK
<1>4. StackShape'
  <2>1. InReach' /\ RootAtBottom' /\ Hanging' /\ Descending'
    BY <1>1, <1>2, <1>3 DEF InReach, RootAtBottom, Hanging, Descending
  <2>2. Levelled'
    BY <1>2 DEF Levelled
  <2>3. QED
    BY <2>1, <2>2 DEF StackShape
<1>5. GreyInv' /\ PendingInv'
  BY <1>1, <1>2 DEF GreyInv, GreyMarked, GreyOnStack, GreyOnce, PendingInv
<1>6. BlackInv'
  BY <1>1, <1>2 DEF BlackInv
<1>7. CountInv'
  <2>1. Limits.depth \in Nat /\ Limits.nodes \in Nat
    BY LimitsType DEF TypeOK
  <2>2. QED
    BY <1>1, <2>1, FS_EmptySet DEF CountInv
<1>8. LeastInv'
  BY <1>1, <1>2, <1>3 DEF LeastInv, Labelling
<1>9. QED
  BY <1>1, <1>4, <1>5, <1>6, <1>7, <1>8 DEF WalkInv

-----------------------------------------------------------------------------
(* What the frame on top says about the graph.                             *)

LEMMA TopFacts ==
  ASSUME TypeOK, WalkInv, pc = "walk", stack # << >>
  PROVE  /\ Top.node \in Reached /\ Top.node \in Node
         /\ Top.depth \in Nat /\ Top.depth <= Limits.depth + 1
         /\ Top.leaving => /\ IsSupported(graph[Top.node])
                           /\ IsIterable(graph[Top.node])
                           /\ ChildSet(graph, Top.node) \subseteq explored
         /\ \A m \in Nat : \A L : Labelling(L, m) => Top.depth <= L[Top.node]
<1>1. StackShape /\ GreyInv /\ PendingInv /\ LeastInv
  BY DEF WalkInv
<1>2. PICK N \in Nat : N = Len(stack) /\ N >= 1
  BY IdxFacts
<1>3. /\ Idx = 1..N /\ N \in Idx
      /\ NodeAt(N) = Top.node /\ DepthAt(N) = Top.depth
      /\ Marker(N) <=> Top.leaving
      /\ \A i \in Idx : DepthAt(i) \in Nat \ {0} /\ NodeAt(i) \in Node
  BY <1>2, IdxFacts
<1>4. Limits.depth \in Nat
  BY LimitsType DEF TypeOK
<1>5. Top.depth <= Limits.depth + 1
  <2>1. CASE N = 1
    BY <1>1, <1>3, <1>4, <2>1 DEF StackShape, RootAtBottom
  <2>2. CASE N > 1
    <3>1. PICK i \in Idx : Marker(i) /\ DepthAt(N) = DepthAt(i) + 1
      BY <1>1, <1>3, <2>2 DEF StackShape, Hanging
    <3>2. DepthAt(i) <= Limits.depth /\ DepthAt(i) \in Nat
      BY <1>1, <1>3, <3>1 DEF GreyInv, GreyMarked
    <3>3. QED
      BY <1>3, <1>4, <3>1, <3>2
  <2>3. QED
    BY <1>2, <2>1, <2>2
<1>6. ASSUME Top.leaving PROVE ChildSet(graph, Top.node) \subseteq explored
  <2>1. ASSUME NEW j \in Idx PROVE ~(N < j)
    BY <1>3
  <2>2. QED
    BY <1>1, <1>3, <1>6, <2>1 DEF PendingInv
<1>7. QED
  BY <1>1, <1>3, <1>5, <1>6
     DEF StackShape, InReach, GreyInv, GreyMarked, LeastInv

\* The markers from the repeated node upwards close a cycle.
LEMMA CycleFound ==
  ASSUME TypeOK, WalkInv, DetectCycle
  PROVE  Cyclic(graph, root)
<1>1. pc = "walk" /\ stack # << >> /\ ~Top.leaving /\ Top.node \in ancestors
  BY DEF DetectCycle, Popping
<1>2. StackShape /\ GreyInv
  BY <1>1 DEF WalkInv
<1>3. PICK N \in Nat : N = Len(stack) /\ N >= 1
  BY <1>1, IdxFacts
<1>4. /\ Idx = 1..N /\ N \in Idx /\ NodeAt(N) = Top.node /\ ~Marker(N)
      /\ \A i \in Idx : DepthAt(i) \in Nat \ {0} /\ NodeAt(i) \in Node
  BY <1>1, <1>3, IdxFacts
<1>5. PICK m \in Idx : Marker(m) /\ NodeAt(m) = Top.node
  BY <1>1, <1>2 DEF GreyInv, GreyOnStack
<1> DEFINE M == {i \in Idx : Marker(i) /\ DepthAt(i) >= DepthAt(m)}
           S == {NodeAt(i) : i \in M}
<1>6. S \subseteq Reached /\ S # {} /\ Top.node \in S
  BY <1>2, <1>4, <1>5 DEF StackShape, InReach
<1>7. ASSUME NEW i \in M PROVE ChildSet(graph, NodeAt(i)) \cap S # {}
  <2>1. i \in Idx /\ Marker(i) /\ DepthAt(i) >= DepthAt(m) /\ i < N
    BY <1>4, <1>7
  <2>2. DepthAt(i) < DepthAt(N)
    BY <1>2, <1>4, <2>1 DEF StackShape, Descending
  <2>3. ASSUME NEW j \in Idx, j > i, DepthAt(j) = DepthAt(i) + 1
        PROVE  NodeAt(j) \in ChildSet(graph, NodeAt(i))
    <3>1. PICK h \in Idx : /\ h < j /\ Marker(h)
                           /\ NodeAt(j) \in ChildSet(graph, NodeAt(h))
                           /\ DepthAt(j) = DepthAt(h) + 1
      BY <1>2, <1>4, <2>1, <2>3 DEF StackShape, Hanging
    <3>2. DepthAt(h) = DepthAt(i)
      BY <1>4, <2>3, <3>1
    <3>3. ~(h < i) /\ ~(i < h)
      BY <1>2, <1>4, <2>1, <3>1, <3>2 DEF StackShape, Descending
    <3>4. h = i
      BY <1>4, <3>3
    <3>5. QED
      BY <3>1, <3>4
  <2>4. CASE DepthAt(N) = DepthAt(i) + 1
    BY <1>4, <1>6, <2>1, <2>3, <2>4
  <2>5. CASE DepthAt(N) > DepthAt(i) + 1
    <3>1. DepthAt(i) + 1 \in 1..(DepthAt(N) - 1)
      BY <1>4, <2>1, <2>5
    <3>2. PICK j \in Idx : j < N /\ Marker(j) /\ DepthAt(j) = DepthAt(i) + 1
      BY <1>2, <1>4, <3>1 DEF StackShape, Levelled
    <3>3. j > i
      <4>1. ~(j < i)
        BY <1>2, <1>4, <2>1, <3>2 DEF StackShape, Descending
      <4>2. j # i
        BY <1>4, <2>1, <3>2
      <4>3. QED
        BY <1>4, <4>1, <4>2
    <3>4. j \in M
      BY <1>4, <1>5, <2>1, <3>2
    <3>5. QED
      BY <2>3, <3>2, <3>3, <3>4
  <2>6. QED
    BY <1>4, <2>1, <2>2, <2>4, <2>5
<1>8. \A n \in S : ChildSet(graph, n) \cap S # {}
  BY <1>7
<1> HIDE DEF S
<1>9. QED
  BY <1>6, <1>8 DEF Cyclic, Reached

-----------------------------------------------------------------------------
(* The answer.                                                             *)

LEMMA RaisePromise ==
  ASSUME NEW kind \in ErrorKinds, NEW path, Raise(kind, path),
         UNCHANGED args, RejectionPromised(graph, root, Limits, kind)
  PROVE  ResultInv'
<1>1. /\ pc' = "done"
      /\ result' = [kind |-> kind, path |-> path, nodeCount |-> 0, maxDepth |-> 0]
  BY DEF Raise
<1>2. result'.kind = kind /\ kind # "metrics" /\ kind # "none"
  BY <1>1 DEF ErrorKinds, Invalid, Mismatch
<1>3. result' # NoResult'
  BY <1>2 DEF NoResult
<1>4. CallInput' = [graph |-> graph, root |-> root, limits |-> Limits]
  BY DEF CallInput, Limits, args
<1>5. ValidationPromised(CallInput', result')
  BY <1>2, <1>4 DEF ValidationPromised
<1>6. QED
  BY <1>1, <1>3, <1>5 DEF ResultInv

LEMMA ErrorKindsFacts ==
  /\ "ContractCycleError" \in ErrorKinds /\ "ContractComplexityError" \in ErrorKinds
  /\ Invalid \in ErrorKinds /\ Mismatch \in ErrorKinds /\ "PythonError" \in ErrorKinds
  /\ Invalid # Mismatch /\ InvalidNoPath # Mismatch
BY DEF ErrorKinds, Invalid, Mismatch, InvalidNoPath

LEMMA EntryRejected ==
  ASSUME RejectLimits \/ RejectRoot
  PROVE  ResultInv'
<1>1. CASE RejectLimits
  <2>1. UNCHANGED args
    BY <1>1 DEF RejectLimits
  <2>2. CASE Limits.form = "foreign" /\ Raise(Mismatch, NoPath)
    <3>1. RejectionPromised(graph, root, Limits, Mismatch)
      BY <2>2 DEF RejectionPromised
    <3>2. QED
      BY <2>1, <2>2, <3>1, ErrorKindsFacts, RaisePromise
  <2>3. CASE Limits.form = "forged" /\ Raise(Invalid, << >>)
    <3>1. RejectionPromised(graph, root, Limits, Invalid)
      BY <2>3 DEF RejectionPromised
    <3>2. QED
      BY <2>1, <2>3, <3>1, ErrorKindsFacts, RaisePromise
  <2>4. QED
    BY <1>1, <2>2, <2>3 DEF RejectLimits
<1>2. CASE RejectRoot
  <2>1. UNCHANGED args /\ Raise(Invalid, << >>)
    BY <1>2 DEF RejectRoot
  <2>2. RejectionPromised(graph, root, Limits, Invalid)
    BY <1>2 DEF RejectRoot, RejectionPromised
  <2>3. QED
    BY <2>1, <2>2, ErrorKindsFacts, RaisePromise
<1>3. QED
  BY <1>1, <1>2

LEMMA NodeRejected ==
  ASSUME TypeOK, WalkInv, LeaveInvalid
  PROVE  ResultInv'
<1>1. pc = "walk" /\ stack # << >> /\ Top.leaving /\ UNCHANGED args
  BY DEF LeaveInvalid, Popping
<1>2. Top.node \in Reach(graph, root) /\ IsSupported(graph[Top.node])
  BY <1>1, TopFacts DEF Reached
<1>3. CASE NodeError(graph, Top.node) = InvalidNoPath /\ Raise(Invalid, NoPath)
  <2>1. RejectionPromised(graph, root, Limits, Invalid)
    BY <1>2, <1>3 DEF RejectionPromised
  <2>2. QED
    BY <1>1, <1>3, <2>1, ErrorKindsFacts, RaisePromise
<1>4. CASE NodeError(graph, Top.node) = Invalid /\ Raise(Invalid, Top.path)
  <2>1. RejectionPromised(graph, root, Limits, Invalid)
    BY <1>2, <1>4 DEF RejectionPromised
  <2>2. QED
    BY <1>1, <1>4, <2>1, ErrorKindsFacts, RaisePromise
<1>5. CASE NodeError(graph, Top.node) = Mismatch /\ Raise(Mismatch, Top.path)
  <2>1. RejectionPromised(graph, root, Limits, Mismatch)
    BY <1>2, <1>5 DEF RejectionPromised
  <2>2. QED
    BY <1>1, <1>5, <2>1, ErrorKindsFacts, RaisePromise
<1>6. QED
  BY <1>3, <1>4, <1>5 DEF LeaveInvalid

LEMMA CycleRejected ==
  ASSUME TypeOK, WalkInv, DetectCycle
  PROVE  ResultInv'
<1>1. UNCHANGED args /\ Raise("ContractCycleError", Top.path)
  BY DEF DetectCycle
<1>2. RejectionPromised(graph, root, Limits, "ContractCycleError")
  BY CycleFound DEF RejectionPromised
<1>3. QED
  BY <1>1, <1>2, ErrorKindsFacts, RaisePromise

LEMMA CountedVisit ==
  ASSUME TypeOK, CountInv, Visit(Top)
  PROVE  nodeCount' = Cardinality(counted')
<1>1. nodeCount' = IF Top.node \in counted THEN nodeCount ELSE nodeCount + 1
  BY DEF Visit
<1>2. counted' = counted \cup {Top.node}
  BY DEF Visit
<1>3. IsFiniteSet(counted)
  BY NodeAssumption, FS_Subset DEF TypeOK
<1>4. Cardinality(counted \cup {Top.node})
        = IF Top.node \in counted THEN Cardinality(counted)
          ELSE Cardinality(counted) + 1
  BY <1>3, FS_AddElement
<1>5. QED
  BY <1>1, <1>2, <1>4 DEF CountInv

\* A path deeper than the limit leaves no room for a labelling, and more
\* counted nodes than the limit are more reachable nodes than the limit.
LEMMA ComplexityRejected ==
  ASSUME TypeOK, WalkInv, VisitTooComplex
  PROVE  ResultInv'
<1>1. /\ Visit(Top) /\ ~WithinLimits(Top)
      /\ Raise("ContractComplexityError", Top.path)
      /\ pc = "walk" /\ stack # << >>
  BY DEF VisitTooComplex, Visit, Popping
<1>2. BlackInv /\ CountInv
  BY <1>1 DEF WalkInv
<1>3. UNCHANGED args
  BY <1>1 DEF Visit
<1>4. /\ Top.node \in Reached /\ Top.depth \in Nat
      /\ \A m \in Nat : \A L : Labelling(L, m) => Top.depth <= L[Top.node]
  BY <1>1, TopFacts
<1>5. Limits.depth \in Nat /\ Limits.nodes \in Nat
  BY LimitsType DEF TypeOK
<1>6. CASE ~(Top.depth <= Limits.depth)
  <2>1. ASSUME NEW L \in [Reached -> 1..Limits.depth],
               IncreasingLabels(graph, Reached, L)
        PROVE  FALSE
    <3>1. Top.depth <= L[Top.node]
      BY <1>4, <1>5, <2>1 DEF Labelling
    <3>2. L[Top.node] \in 1..Limits.depth
      BY <1>4, <2>1
    <3>3. QED
      BY <1>4, <1>5, <1>6, <3>1, <3>2
  <2>2. ~FitsDepth(graph, root, Limits.depth)
    BY <2>1 DEF FitsDepth, Reached
  <2>3. QED
    BY <1>1, <1>3, <2>2, ErrorKindsFacts, RaisePromise DEF RejectionPromised
<1>7. CASE ~(nodeCount' <= Limits.nodes)
  <2>1. IsFiniteSet(Reached) /\ IsFiniteSet(counted)
        /\ Cardinality(Reached) \in Nat /\ counted \subseteq Node
    <3>1. Reached \subseteq Node
      BY RootsAssumption, ReachFacts DEF Reached, TypeOK
    <3>2. counted \subseteq Node
      BY DEF TypeOK
    <3>3. QED
      BY <3>1, <3>2, NodeAssumption, FS_Subset, FS_CardinalityType
  <2>2. nodeCount' = Cardinality(counted \cup {Top.node})
    BY <1>1, <1>2, CountedVisit DEF Visit
  <2>3. counted \cup {Top.node} \subseteq Reached
    BY <1>2, <1>4 DEF BlackInv
  <2>4. Cardinality(counted \cup {Top.node}) <= Cardinality(Reached)
    BY <2>1, <2>3, FS_Subset
  <2>5. nodeCount' \in Nat
    BY <1>1, VisitType
  <2>6. Cardinality(Reached) > Limits.nodes
    BY <1>5, <1>7, <2>1, <2>2, <2>4, <2>5
  <2>7. QED
    BY <1>1, <1>3, <2>6, ErrorKindsFacts, RaisePromise
       DEF RejectionPromised, Reached
<1>8. QED
  BY <1>1, <1>6, <1>7 DEF WithinLimits

LEMMA UnreadableRejected ==
  ASSUME TypeOK, WalkInv, VisitUnsupported \/ VisitOpaque
  PROVE  ResultInv'
<1>1. Visit(Top) /\ pc = "walk" /\ stack # << >> /\ UNCHANGED args
  BY DEF VisitUnsupported, VisitOpaque, Visit, Popping
<1>2. Top.node \in Reach(graph, root)
  BY <1>1, TopFacts DEF Reached
<1>3. CASE VisitUnsupported
  <2>1. RejectionPromised(graph, root, Limits, Invalid)
    BY <1>2, <1>3 DEF VisitUnsupported, RejectionPromised
  <2>2. QED
    BY <1>1, <1>3, <2>1, ErrorKindsFacts, RaisePromise DEF VisitUnsupported
<1>4. CASE VisitOpaque
  <2>1. RejectionPromised(graph, root, Limits, "PythonError")
    BY <1>2, <1>4 DEF VisitOpaque, RejectionPromised
  <2>2. QED
    BY <1>1, <1>4, <2>1, ErrorKindsFacts, RaisePromise DEF VisitOpaque
<1>5. QED
  BY <1>3, <1>4

\* At the empty stack every reachable node is black, and the recorded depths
\* are the least increasing labelling.
LEMMA ReturnAccepts ==
  ASSUME TypeOK, WalkInv, Return
  PROVE  ResultInv'
<1>1. /\ pc = "walk" /\ stack = << >> /\ pc' = "done" /\ UNCHANGED args
      /\ result' = [kind |-> "metrics", path |-> << >>,
                    nodeCount |-> nodeCount, maxDepth |-> maxDepth]
  BY DEF Return
<1>2. /\ IsContract(graph[root]) /\ Limits.form = "exact"
      /\ GreyInv /\ BlackInv /\ CountInv /\ LeastInv
  BY <1>1 DEF WalkInv
<1>3. ancestors = {}
  <2>1. Idx = {}
    BY <1>1, IdxFacts
  <2>2. QED
    BY <1>2, <2>1 DEF GreyInv, GreyOnStack
<1>4. root \in explored /\ explored = counted /\ explored \subseteq Reached
      /\ explored \subseteq Node
  BY <1>1, <1>2, <1>3 DEF BlackInv, TypeOK
<1>5. Reached = explored
  <2>1. ClosedUnderChildren(graph, explored)
    BY <1>2 DEF BlackInv, ClosedUnderChildren
  <2>2. Reached \subseteq explored
    BY <1>4, <2>1, ReachLeast DEF Reached
  <2>3. QED
    BY <1>4, <2>2
<1>6. maxDepth \in Nat /\ \A n \in Node : bestDepth[n] \in Nat
  BY DEF TypeOK
<1>7. FitsDepth(graph, root, maxDepth)
  <2> DEFINE L == [n \in Reached |-> bestDepth[n]]
  <2>1. L \in [Reached -> 1..maxDepth]
    BY <1>2, <1>4, <1>5, <1>6 DEF CountInv
  <2>2. IncreasingLabels(graph, Reached, L)
    BY <1>2, <1>3, <1>5 DEF BlackInv, IncreasingLabels
  <2> HIDE DEF L
  <2>3. QED
    BY <2>1, <2>2 DEF FitsDepth, Reached
<1>8. ASSUME NEW e \in 1..(maxDepth - 1), FitsDepth(graph, root, e)
      PROVE  FALSE
  <2>1. PICK L \in [Reached -> 1..e] : IncreasingLabels(graph, Reached, L)
    BY <1>8 DEF FitsDepth, Reached
  <2>2. PICK n \in counted : bestDepth[n] = maxDepth
    BY <1>2, <1>4 DEF CountInv
  <2>3. e \in Nat /\ Labelling(L, e)
    BY <1>6, <1>8, <2>1 DEF Labelling
  <2>4. maxDepth <= L[n]
    BY <1>2, <2>2, <2>3 DEF LeastInv
  <2>5. L[n] \in 1..e
    BY <1>4, <1>5, <2>1, <2>2
  <2>6. QED
    BY <1>6, <1>8, <2>4, <2>5
<1>9. AcceptancePromised(graph, root, Limits, result')
  <2>1. result'.nodeCount = nodeCount /\ result'.maxDepth = maxDepth
    BY <1>1
  <2>2. \A n \in Reach(graph, root) : NodeAccepted(graph, n)
    BY <1>2, <1>5 DEF BlackInv, Reached
  <2>3. nodeCount = Cardinality(Reach(graph, root)) /\ nodeCount <= Limits.nodes
        /\ maxDepth <= Limits.depth
    BY <1>2, <1>4, <1>5 DEF CountInv, Reached
  <2>4. IsDepth(graph, root, maxDepth)
    BY <1>7, <1>8 DEF IsDepth
  <2>5. QED
    BY <1>2, <2>1, <2>2, <2>3, <2>4 DEF AcceptancePromised
<1>10. CallInput' = [graph |-> graph, root |-> root, limits |-> Limits]
  BY <1>1 DEF CallInput, Limits, args
<1>11. result'.kind = "metrics" /\ result' # NoResult'
  BY <1>1 DEF NoResult
<1>12. ValidationPromised(CallInput', result')
  BY <1>9, <1>10, <1>11 DEF ValidationPromised
<1>13. QED
  BY <1>1, <1>11, <1>12 DEF ResultInv

-----------------------------------------------------------------------------
(* The invariant is inductive.                                             *)

LEMMA WorkVisit ==
  ASSUME TypeOK, WalkInv, WorkBounded, Visit(Top)
  PROVE  WorkBounded'
<1>1. pc = "walk" /\ stack # << >>
  BY DEF Visit, Popping
<1>2. BlackInv /\ CountInv
  BY <1>1 DEF WalkInv
<1>3. /\ Top.node \in Node /\ Top.depth \in Nat \ {0}
      /\ bestDepth[Top.node] < Top.depth
      /\ bestDepth'[Top.node] = Top.depth
      /\ \A n \in Node : n # Top.node => bestDepth'[n] = bestDepth[n]
      /\ expansions'[Top.node] = expansions[Top.node] + 1
      /\ \A n \in Node : n # Top.node => expansions'[n] = expansions[n]
      /\ Limits' = Limits
  BY <1>2, VisitFacts
<1>4. Top.depth <= Limits.depth + 1
  BY <1>1, TopFacts
<1>5. \A n \in Node : expansions[n] \in Nat /\ bestDepth[n] \in Nat
  BY DEF TypeOK
<1>6. ASSUME NEW n \in Node
      PROVE  expansions'[n] <= bestDepth'[n] /\ bestDepth'[n] <= Limits.depth + 1
  <2>1. CASE n = Top.node
    BY <1>3, <1>4, <1>5, <2>1 DEF WorkBounded
  <2>2. CASE n # Top.node
    BY <1>3, <2>2 DEF WorkBounded
  <2>3. QED
    BY <2>1, <2>2
<1>7. QED
  BY <1>3, <1>6 DEF WorkBounded

LEMMA WorkStep ==
  ASSUME TypeOK, WalkInv, WorkBounded, [Next]_vars
  PROVE  WorkBounded'
<1>1. CASE UNCHANGED <<expansions, bestDepth, limitsArg>>
  BY <1>1 DEF WorkBounded, Limits
<1>2. CASE Visit(Top)
  BY <1>2, WorkVisit
<1>3. QED
  BY <1>1, <1>2
     DEF Next, vars, args, walkVars, RejectLimits, RejectRoot, Begin, Leave,
         LeaveInvalid, DetectCycle, SkipExplored, VisitTooComplex,
         VisitUnsupported, VisitOpaque, Expand, Return

LEMMA InvInit == Init => IInv
<1> SUFFICES ASSUME Init PROVE IInv
  OBVIOUS
<1>1. TypeOK
  BY TypeInit
<1>2. EntryInv /\ WalkInv /\ ResultInv
  BY DEF Init, EntryInv, WalkInv, ResultInv
<1>3. WorkBounded
  <2>1. Limits.depth \in Nat
    BY <1>1, LimitsType DEF TypeOK
  <2>2. QED
    BY <2>1 DEF Init, WorkBounded
<1>4. QED
  BY <1>1, <1>2, <1>3 DEF IInv

\* The steps inside the walk.
LEMMA WalkingStep ==
  ASSUME IInv, Leave \/ SkipExplored \/ Expand
  PROVE  WalkInv' /\ EntryInv' /\ ResultInv'
<1>1. TypeOK /\ WalkInv /\ ResultInv
  BY DEF IInv
<1>2. pc = "walk" /\ pc' = "walk" /\ result' = result
  BY DEF Leave, SkipExplored, Expand, Visit, Popping
<1>3. WalkInv'
  BY <1>1, WalkLeave, WalkSkip, WalkExpand
<1>4. QED
  BY <1>1, <1>2, <1>3 DEF EntryInv, ResultInv, NoResult

\* The steps that answer.
LEMMA AnsweringStep ==
  ASSUME IInv,
         \/ RejectLimits \/ RejectRoot \/ LeaveInvalid \/ DetectCycle
         \/ VisitTooComplex \/ VisitUnsupported \/ VisitOpaque \/ Return
  PROVE  WalkInv' /\ EntryInv' /\ ResultInv'
<1>1. TypeOK /\ WalkInv
  BY DEF IInv
<1>2. pc' = "done"
  BY DEF RejectLimits, RejectRoot, LeaveInvalid, DetectCycle, VisitTooComplex,
         VisitUnsupported, VisitOpaque, Return, Raise
<1>3. ResultInv'
  BY <1>1, EntryRejected, NodeRejected, CycleRejected, ComplexityRejected,
     UnreadableRejected, ReturnAccepts
<1>4. QED
  BY <1>2, <1>3 DEF WalkInv, EntryInv

LEMMA InvStep == IInv /\ [Next]_vars => IInv'
<1> SUFFICES ASSUME IInv, [Next]_vars PROVE IInv'
  OBVIOUS
<1>1. TypeOK /\ EntryInv /\ WalkInv /\ ResultInv /\ WorkBounded
  BY DEF IInv
<1>2. TypeOK' /\ WorkBounded'
  BY <1>1, TypeStep, WorkStep
<1>3. WalkInv' /\ EntryInv' /\ ResultInv'
  <2>1. CASE Begin
    <3>1. pc = "entry" /\ pc' = "walk" /\ result' = result
      BY <2>1 DEF Begin
    <3>2. WalkInv'
      BY <1>1, <2>1, WalkBegin
    <3>3. QED
      BY <1>1, <3>1, <3>2 DEF EntryInv, ResultInv, NoResult
  <2>2. CASE Leave \/ SkipExplored \/ Expand
    BY <2>2, WalkingStep
  <2>3. CASE \/ RejectLimits \/ RejectRoot \/ LeaveInvalid \/ DetectCycle
             \/ VisitTooComplex \/ VisitUnsupported \/ VisitOpaque \/ Return
    BY <2>3, AnsweringStep
  <2>4. CASE UNCHANGED vars
    <3>1. UNCHANGED <<Idx, Reached, Limits, CallInput>>
      BY <2>4 DEF vars, Idx, Reached, Limits, CallInput
    <3>2. \A i : NodeAt(i)' = NodeAt(i) /\ DepthAt(i)' = DepthAt(i)
                 /\ (Marker(i)' <=> Marker(i))
      BY <2>4 DEF vars, NodeAt, DepthAt, Marker
    <3>3. EntryInv' /\ ResultInv'
      BY <1>1, <2>4, <3>1 DEF vars, EntryInv, ResultInv, NoResult
    <3>4. WalkInv'
      <4>1. SUFFICES ASSUME pc = "walk" PROVE WalkInv'
        BY <2>4 DEF vars, WalkInv
      <4>2. StackShape' /\ GreyInv' /\ PendingInv'
        BY <1>1, <2>4, <3>1, <3>2, <4>1
           DEF vars, WalkInv, StackShape, InReach, RootAtBottom, Hanging,
               Descending, Levelled, GreyInv, GreyMarked, GreyOnStack, GreyOnce,
               PendingInv
      <4>3. BlackInv' /\ CountInv' /\ LeastInv'
        BY <1>1, <2>4, <3>1, <3>2, <4>1
           DEF vars, WalkInv, BlackInv, CountInv, LeastInv, Labelling
      <4>4. QED
        BY <1>1, <2>4, <3>1, <4>1, <4>2, <4>3 DEF vars, WalkInv
    <3>5. QED
      BY <3>3, <3>4
  <2>5. QED
    BY <2>1, <2>2, <2>3, <2>4 DEF Next
<1>4. QED
  BY <1>2, <1>3 DEF IInv

LEMMA Invariance == Spec => []IInv
<1>1. QED
  BY InvInit, InvStep, PTL DEF Spec

-----------------------------------------------------------------------------
(* Structural paths: a frame's path is a walk from the root to its node,   *)
(* and that walk passes through the nodes of all markers below the frame.  *)

WalkOf(g, r, p, w) ==
  /\ w \in [1..(Len(p) + 1) -> Node] /\ w[1] = r
  /\ \A i \in 1..Len(p) : p[i] \in 1..Len(g[w[i]].kids) /\ w[i + 1] = g[w[i]].kids[p[i]]

Leads(g, r, s, i, w) ==
  /\ WalkOf(g, r, s[i].path, w)
  /\ w[Len(s[i].path) + 1] = s[i].node
  /\ \A j \in 1..(i - 1) :
       s[j].leaving => \E k \in 1..Len(s[i].path) : w[k] = s[j].node

Located(g, r, s) ==
  \A i \in 1..Len(s) : /\ s[i].depth = Len(s[i].path) + 1
                       /\ \E w : Leads(g, r, s, i, w)

LEMMA LocatedBegin ==
  ASSUME NEW g, NEW r \in Node
  PROVE  Located(g, r, << Frame(r, 1, << >>, FALSE) >>)
<1> DEFINE f == Frame(r, 1, << >>, FALSE)
           s == << f >>
           w == [i \in 1..1 |-> r]
<1>1. Len(s) = 1 /\ s[1] = f
  OBVIOUS
<1>2. f.node = r /\ f.depth = 1 /\ f.path = << >> /\ Len(f.path) = 0
  BY DEF Frame
<1> HIDE DEF f
<1>3. WalkOf(g, r, f.path, w) /\ w[1] = r
  BY <1>2 DEF WalkOf
<1> HIDE DEF s, w
<1>4. \A i \in 1..Len(s) : i = 1 /\ s[i] = f
  BY <1>1
<1>5. Leads(g, r, s, 1, w)
  BY <1>1, <1>2, <1>3 DEF Leads
<1>6. \E v : Leads(g, r, s, 1, v)
  BY <1>5
<1>7. Located(g, r, s)
  BY <1>1, <1>2, <1>4, <1>6 DEF Located
<1>8. QED
  BY <1>7 DEF s, f

LEMMA LocatedPop ==
  ASSUME NEW g, NEW r, NEW s \in Seq(FrameType), s # << >>, Located(g, r, s)
  PROVE  Located(g, r, SubSeq(s, 1, Len(s) - 1))
<1> DEFINE t == SubSeq(s, 1, Len(s) - 1)
<1>1. /\ Len(s) \in Nat \ {0} /\ Len(t) = Len(s) - 1
      /\ \A i \in 1..(Len(s) - 1) : t[i] = s[i]
  BY PopFacts
<1> HIDE DEF t
<1>2. ASSUME NEW i \in 1..Len(t)
      PROVE  t[i].depth = Len(t[i].path) + 1 /\ \E w : Leads(g, r, t, i, w)
  <2>1. i \in 1..Len(s) /\ t[i] = s[i] /\ \A j \in 1..(i - 1) : t[j] = s[j]
    BY <1>1
  <2>2. PICK w : Leads(g, r, s, i, w)
    BY <2>1 DEF Located
  <2>3. Leads(g, r, t, i, w)
    BY <2>1, <2>2 DEF Leads
  <2>4. QED
    BY <2>1, <2>3 DEF Located
<1>3. QED
  BY <1>2 DEF Located, t

\* v goes where w goes and one step further, to the k-th child.
Further(g, r, p, k, w, v) ==
  /\ WalkOf(g, r, Append(p, k), v)
  /\ v[Len(p) + 2] = g[w[Len(p) + 1]].kids[k]
  /\ \A i \in 1..(Len(p) + 1) : v[i] = w[i]

LEMMA WalkFurther ==
  ASSUME NEW g \in [Node -> NodeRecord], NEW r, NEW p \in Seq(Nat), NEW w,
         WalkOf(g, r, p, w), NEW k \in 1..Len(g[w[Len(p) + 1]].kids), k \in Nat
  PROVE  \E v : Further(g, r, p, k, w, v)
<1> DEFINE n == Len(p)
           q == Append(p, k)
           child == g[w[n + 1]].kids[k]
           v == [i \in 1..(n + 2) |-> IF i <= n + 1 THEN w[i] ELSE child]
<1>1. /\ n \in Nat /\ Len(q) = n + 1 /\ q[n + 1] = k
      /\ \A i \in 1..n : q[i] = p[i]
  BY LenProperties, AppendProperties
<1>2. /\ w \in [1..(n + 1) -> Node] /\ w[1] = r
      /\ \A i \in 1..n : p[i] \in 1..Len(g[w[i]].kids) /\ w[i + 1] = g[w[i]].kids[p[i]]
  BY DEF WalkOf
<1>3. w[n + 1] \in Node /\ child \in Node
  <2>1. w[n + 1] \in Node
    BY <1>1, <1>2
  <2>2. QED
    BY <2>1, KidsType
<1> HIDE DEF q, n, child
<1>4. v \in [1..(n + 2) -> Node] /\ \A i \in 1..(n + 1) : v[i] = w[i]
  BY <1>1, <1>2, <1>3
<1>5. v[n + 2] = child
  BY <1>1
<1> HIDE DEF v
<1>6. ASSUME NEW i \in 1..(n + 1)
      PROVE  q[i] \in 1..Len(g[v[i]].kids) /\ v[i + 1] = g[v[i]].kids[q[i]]
  <2>1. CASE i \in 1..n
    <3>1. v[i] = w[i] /\ v[i + 1] = w[i + 1] /\ q[i] = p[i]
      BY <1>1, <1>4, <2>1
    <3>2. QED
      BY <1>2, <2>1, <3>1
  <2>2. CASE i = n + 1
    <3>1. v[i] = w[n + 1] /\ q[i] = k /\ v[i + 1] = child
      BY <1>1, <1>4, <1>5, <2>2
    <3>2. QED
      BY <3>1 DEF child, n
  <2>3. QED
    BY <1>1, <2>1, <2>2
<1>7. v[1] = r
  BY <1>1, <1>2, <1>4
<1>8. WalkOf(g, r, q, v)
  <2>1. 1..(Len(q) + 1) = 1..(n + 2)
    BY <1>1
  <2>2. QED
    BY <1>1, <1>4, <1>6, <1>7, <2>1 DEF WalkOf
<1>9. QED
  BY <1>4, <1>5, <1>8 DEF n, q, child, Further

LEMMA LocatedPush ==
  ASSUME NEW g \in [Node -> NodeRecord], NEW r,
         NEW s \in Seq(FrameType), s # << >>, Located(g, r, s)
  PROVE  Located(g, r, Pushed(s, s[Len(s)], g[s[Len(s)].node].kids))
<1> DEFINE f == s[Len(s)]
           kids == g[f.node].kids
           t == Pushed(s, f, kids)
           n == Len(s)
           K == Len(kids)
           m == Len(f.path)
<1>1. n \in Nat \ {0} /\ f \in FrameType
  BY PopFacts
<1>2. f.node \in Node /\ f.path \in Seq(Nat)
  BY <1>1, FrameFacts
<1>3. kids \in Seq(Node) /\ K \in Nat /\ m \in Nat
  BY <1>2, KidsType, LenProperties
<1>4. /\ Len(t) = n + K
      /\ \A i \in 1..(n - 1) : t[i] = s[i]
      /\ t[n] = [f EXCEPT !.leaving = TRUE]
      /\ \A i \in (n + 1)..(n + K) :
           /\ t[i].node = kids[K + 1 - (i - n)]
           /\ t[i].depth = f.depth + 1
           /\ t[i].leaving = FALSE
           /\ t[i].path = Append(f.path, K + 1 - (i - n))
  <2>1. /\ Len(t) = Len(s) + Len(kids)
        /\ \A i \in 1..(Len(s) - 1) : t[i] = s[i]
        /\ t[Len(s)] = [f EXCEPT !.leaving = TRUE]
        /\ \A i \in (Len(s) + 1)..Len(t) :
             /\ t[i].node = kids[Len(kids) + 1 - (i - Len(s))]
             /\ t[i].depth = f.depth + 1
             /\ t[i].leaving = FALSE
             /\ t[i].path = Append(f.path, Len(kids) + 1 - (i - Len(s)))
    BY <1>3, PushFacts
  <2> HIDE DEF t, f, kids
  <2>2. QED
    BY <2>1
<1>5. /\ t[n].node = f.node /\ t[n].depth = f.depth /\ t[n].path = f.path
  BY <1>1, <1>4, FrameFacts
<1> HIDE DEF t
<1>6. n \in 1..Len(s) /\ f.depth = m + 1
  BY <1>1 DEF Located
<1>7. PICK w : Leads(g, r, s, n, w)
  BY <1>6 DEF Located
<1>8. /\ WalkOf(g, r, f.path, w) /\ w[m + 1] = f.node
      /\ \A j \in 1..(n - 1) : s[j].leaving => \E k \in 1..m : w[k] = s[j].node
  BY <1>7 DEF Leads
<1>9. ASSUME NEW i \in 1..Len(t), i < n
      PROVE  t[i].depth = Len(t[i].path) + 1 /\ \E v : Leads(g, r, t, i, v)
  <2>1. i \in 1..Len(s) /\ t[i] = s[i] /\ \A j \in 1..(i - 1) : t[j] = s[j]
    BY <1>1, <1>4, <1>9
  <2>2. PICK v : Leads(g, r, s, i, v)
    BY <2>1 DEF Located
  <2>3. Leads(g, r, t, i, v)
    BY <2>1, <2>2 DEF Leads
  <2>4. QED
    BY <2>1, <2>3 DEF Located
<1>10. t[n].depth = Len(t[n].path) + 1 /\ \E v : Leads(g, r, t, n, v)
  <2>1. Leads(g, r, t, n, w)
    BY <1>4, <1>5, <1>8 DEF Leads
  <2>2. QED
    BY <1>5, <1>6, <2>1
<1> HIDE DEF n, K, m
<1>11. ASSUME NEW i \in 1..Len(t), i > n
       PROVE  t[i].depth = Len(t[i].path) + 1 /\ \E v : Leads(g, r, t, i, v)
  <2> DEFINE k == K + 1 - (i - n)
  <2>1. i \in (n + 1)..(n + K) /\ k \in 1..K /\ k \in Nat
    <3>1. i \in Nat /\ i <= n + K /\ i >= n + 1 /\ n \in Nat /\ K \in Nat
      BY <1>1, <1>3, <1>4, <1>11 DEF n, K
    <3>2. QED
      BY <3>1
  <2>2. /\ t[i].node = kids[k] /\ t[i].depth = f.depth + 1
        /\ t[i].path = Append(f.path, k)
    BY <1>4, <2>1
  <2> HIDE DEF k
  <2>3. Len(t[i].path) = m + 1
    <3>1. Len(Append(f.path, k)) = Len(f.path) + 1
      BY <1>2, <2>1, AppendProperties
    <3>2. QED
      BY <2>2, <3>1 DEF m
  <2>4. PICK v : /\ WalkOf(g, r, Append(f.path, k), v)
                 /\ v[m + 2] = g[w[m + 1]].kids[k]
                 /\ \A j \in 1..(m + 1) : v[j] = w[j]
    <3>1. g[w[Len(f.path) + 1]].kids = kids
      BY <1>8 DEF m
    <3>2. k \in 1..Len(g[w[Len(f.path) + 1]].kids)
      BY <2>1, <3>1 DEF K
    <3> DEFINE p == f.path
    <3>3. p \in Seq(Nat) /\ WalkOf(g, r, p, w) /\ m = Len(p)
          /\ k \in 1..Len(g[w[Len(p) + 1]].kids)
      BY <1>2, <1>8, <3>2 DEF m
    <3> HIDE DEF p
    <3>4. \E v : Further(g, r, p, k, w, v)
      BY <2>1, <3>3, WalkFurther
    <3>5. QED
      BY <3>3, <3>4 DEF p, Further
  <2>5. WalkOf(g, r, t[i].path, v) /\ v[Len(t[i].path) + 1] = t[i].node
    <3>1. (m + 1) + 1 = m + 2
      BY <1>3
    <3>2. QED
      BY <1>8, <2>2, <2>3, <2>4, <3>1
  <2>6. ASSUME NEW j \in 1..(i - 1), t[j].leaving
        PROVE  \E h \in 1..Len(t[i].path) : v[h] = t[j].node
    <3>1. CASE j < n
      <4>1. j \in 1..(n - 1) /\ t[j] = s[j]
        BY <1>1, <1>4, <3>1
      <4>2. PICK h \in 1..m : w[h] = s[j].node
        BY <1>8, <2>6, <4>1
      <4>3. h \in 1..(m + 1)
        BY <1>3
      <4>4. QED
        BY <2>3, <2>4, <4>1, <4>2, <4>3
    <3>2. CASE j = n
      <4>1. m + 1 \in 1..(m + 1)
        BY <1>3
      <4>2. QED
        BY <1>5, <1>8, <2>3, <2>4, <3>2, <4>1
    <3>3. CASE j > n
      <4>1. j \in (n + 1)..(n + K)
        BY <1>1, <1>3, <2>1, <3>3
      <4>2. QED
        BY <1>4, <2>6, <4>1
    <3>4. QED
      BY <1>1, <3>1, <3>2, <3>3
  <2>7. Leads(g, r, t, i, v)
    BY <2>5, <2>6 DEF Leads
  <2>8. QED
    BY <1>3, <1>6, <2>2, <2>3, <2>7
<1>12. ASSUME NEW i \in 1..Len(t)
       PROVE  t[i].depth = Len(t[i].path) + 1 /\ \E v : Leads(g, r, t, i, v)
  <2>1. i < n \/ i = n \/ i > n
    BY <1>1
  <2>2. QED
    BY <1>9, <1>10, <1>11, <2>1
<1>13. QED
  BY <1>12 DEF Located, t

PathInv ==
  /\ pc = "walk" => Located(graph, root, stack)
  /\ DiagnosticsLocated

\* An error raised with the path of w, whose last node has the defect.
LEMMA RaisedLocated ==
  ASSUME NEW kind \in ErrorKinds, NEW path, Raise(kind, path), UNCHANGED args,
         path # NoPath => \E w \in Walks(path) : HasDefect(w, kind)'
  PROVE  PathInv'
<1>1. pc' = "done" /\ result'.kind = kind /\ result'.path = path
  BY DEF Raise
<1>2. graph' = graph /\ root' = root
  BY DEF args
<1>3. Walks(path)' = Walks(path)
  BY <1>2 DEF Walks
<1>4. DiagnosticsLocated'
  BY <1>1, <1>2, <1>3 DEF DiagnosticsLocated, Walks
<1>5. QED
  BY <1>1, <1>4 DEF PathInv

LEMMA TopLeads ==
  ASSUME TypeOK, PathInv, pc = "walk", stack # << >>
  PROVE  \E w \in Walks(Top.path) :
           /\ Len(w) = Top.depth /\ w[Len(w)] = Top.node
           /\ \A j \in 1..(Len(stack) - 1) :
                stack[j].leaving => \E i \in 1..(Len(w) - 1) : w[i] = stack[j].node
<1>1. Top \in FrameType /\ Len(stack) \in Nat \ {0}
  BY TopType
<1>2. Top.path \in Seq(Nat) /\ Top.depth \in Nat
  BY <1>1, FrameFacts
<1>3. Len(stack) \in 1..Len(stack)
  BY <1>1
<1>4. PICK w : Leads(graph, root, stack, Len(stack), w)
  BY <1>3 DEF PathInv, Located
<1>5. Top.depth = Len(Top.path) + 1
  BY <1>3 DEF PathInv, Located, Top
<1> DEFINE m == Len(Top.path)
<1>6. /\ w \in [1..(m + 1) -> Node] /\ WalkOf(graph, root, Top.path, w)
      /\ w[m + 1] = Top.node
      /\ \A j \in 1..(Len(stack) - 1) :
           stack[j].leaving => \E i \in 1..m : w[i] = stack[j].node
  BY <1>4 DEF Leads, WalkOf, Top
<1>7. w \in Walks(Top.path)
  BY <1>6 DEF WalkOf, Walks
<1>8. m \in Nat
  BY <1>2, LenProperties
<1> HIDE DEF m
<1>9. Len(w) = m + 1
  <2>1. m + 1 \in Nat
    BY <1>8
  <2>2. w \in Seq(Node)
    BY <1>6, <2>1, SeqDef
  <2>3. QED
    BY <1>6, <2>1, <2>2, LenProperties
<1>10. Len(w) - 1 = m
  BY <1>8, <1>9
<1>11. Len(w) = Top.depth /\ w[Len(w)] = Top.node
  BY <1>5, <1>6, <1>9 DEF m
<1>12. \A j \in 1..(Len(stack) - 1) :
         stack[j].leaving => \E i \in 1..(Len(w) - 1) : w[i] = stack[j].node
  BY <1>6, <1>10
<1>13. QED
  BY <1>7, <1>11, <1>12

\* What is a defect before the step is one after it.
LEMMA Defects ==
  ASSUME NEW w, UNCHANGED args
  PROVE  /\ (\E i \in 1..(Len(w) - 1) : w[i] = w[Len(w)])
              => HasDefect(w, "ContractCycleError")'
         /\ (Len(w) > Limits.depth \/ Cardinality(counted') > Limits.nodes)
              => HasDefect(w, "ContractComplexityError")'
         /\ NodeError(graph, w[Len(w)]) = Mismatch => HasDefect(w, Mismatch)'
         /\ (\/ ~IsSupported(graph[w[Len(w)]])
             \/ NodeError(graph, w[Len(w)]) = Invalid
             \/ w[Len(w)] = root /\ ~IsContract(graph[w[Len(w)]])
             \/ w[Len(w)] = root /\ Limits.form = "forged")
              => HasDefect(w, Invalid)'
<1>1. graph' = graph /\ root' = root /\ Limits' = Limits
  BY DEF args, Limits
<1>2. /\ Invalid # Mismatch
      /\ Invalid # "ContractCycleError" /\ Invalid # "ContractComplexityError"
      /\ Mismatch # "ContractCycleError" /\ Mismatch # "ContractComplexityError"
      /\ "ContractCycleError" # "ContractComplexityError"
  BY DEF Invalid, Mismatch
<1>3. (\E i \in 1..(Len(w) - 1) : w[i] = w[Len(w)])
        => HasDefect(w, "ContractCycleError")'
  BY Zenon, <1>2 DEF HasDefect
<1>4. (Len(w) > Limits.depth \/ Cardinality(counted') > Limits.nodes)
        => HasDefect(w, "ContractComplexityError")'
  BY Zenon, <1>1, <1>2 DEF HasDefect
<1>5. NodeError(graph, w[Len(w)]) = Mismatch => HasDefect(w, Mismatch)'
  BY Zenon, <1>1, <1>2 DEF HasDefect
<1>6. (\/ ~IsSupported(graph[w[Len(w)]])
       \/ NodeError(graph, w[Len(w)]) = Invalid
       \/ w[Len(w)] = root /\ ~IsContract(graph[w[Len(w)]])
       \/ w[Len(w)] = root /\ Limits.form = "forged") => HasDefect(w, Invalid)'
  BY Zenon, <1>1, <1>2 DEF HasDefect
<1>7. QED
  BY <1>3, <1>4, <1>5, <1>6

LEMMA RootWalk ==
  ASSUME TypeOK
  PROVE  \E w \in Walks(<< >>) : w[Len(w)] = root
<1> DEFINE w == [i \in 1..1 |-> root]
<1>1. root \in Node
  BY RootsAssumption DEF TypeOK
<1>2. Len(<< >>) = 0 /\ 0 + 1 = 1 /\ 1..0 = {}
  OBVIOUS
<1>3. w \in [1..1 -> Node] /\ w[1] = root
  BY <1>1
<1> HIDE DEF w
<1>4. w \in Seq(Node)
  BY <1>3, SeqDef
<1>5. Len(w) = 1
  BY <1>3, <1>4, LenProperties
<1>6. w \in Walks(<< >>)
  BY <1>2, <1>3 DEF Walks
<1>7. QED
  BY <1>3, <1>5, <1>6

LEMMA LocatedInit == Init => PathInv
BY DEF Init, PathInv, DiagnosticsLocated, NoResult, ErrorKinds, Invalid, Mismatch

LEMMA EntryLocated ==
  ASSUME TypeOK, RejectLimits \/ RejectRoot
  PROVE  PathInv'
<1>1. UNCHANGED args
  BY DEF RejectLimits, RejectRoot
<1>2. CASE Limits.form = "foreign" /\ Raise(Mismatch, NoPath)
  BY <1>1, <1>2, ErrorKindsFacts, RaisedLocated
<1>3. CASE Limits.form = "forged" /\ Raise(Invalid, << >>)
  <2>1. PICK w \in Walks(<< >>) : w[Len(w)] = root
    BY RootWalk
  <2>2. HasDefect(w, Invalid)'
    BY <1>1, <1>3, <2>1, Defects
  <2>3. QED
    BY <1>1, <1>3, <2>1, <2>2, ErrorKindsFacts, RaisedLocated
<1>4. CASE ~IsContract(graph[root]) /\ Raise(Invalid, << >>)
  <2>1. PICK w \in Walks(<< >>) : w[Len(w)] = root
    BY RootWalk
  <2>2. HasDefect(w, Invalid)'
    BY <1>1, <1>4, <2>1, Defects
  <2>3. QED
    BY <1>1, <1>4, <2>1, <2>2, ErrorKindsFacts, RaisedLocated
<1>5. QED
  BY <1>2, <1>3, <1>4 DEF RejectLimits, RejectRoot

LEMMA NodeLocated ==
  ASSUME TypeOK, PathInv, LeaveInvalid
  PROVE  PathInv'
<1>1. pc = "walk" /\ stack # << >> /\ UNCHANGED args
  BY DEF LeaveInvalid, Popping
<1>2. PICK w \in Walks(Top.path) : w[Len(w)] = Top.node
  BY <1>1, TopLeads
<1>3. CASE NodeError(graph, Top.node) = InvalidNoPath /\ Raise(Invalid, NoPath)
  BY <1>1, <1>3, ErrorKindsFacts, RaisedLocated
<1>4. CASE NodeError(graph, Top.node) = Invalid /\ Raise(Invalid, Top.path)
  <2>1. HasDefect(w, Invalid)'
    BY <1>1, <1>2, <1>4, Defects
  <2>2. QED
    BY <1>1, <1>2, <1>4, <2>1, ErrorKindsFacts, RaisedLocated
<1>5. CASE NodeError(graph, Top.node) = Mismatch /\ Raise(Mismatch, Top.path)
  <2>1. HasDefect(w, Mismatch)'
    BY <1>1, <1>2, <1>5, Defects
  <2>2. QED
    BY <1>1, <1>2, <1>5, <2>1, ErrorKindsFacts, RaisedLocated
<1>6. QED
  BY <1>3, <1>4, <1>5 DEF LeaveInvalid

\* A grey node on top of the stack again: its marker lies below, so the path
\* of the top frame has been there.
LEMMA CycleLocated ==
  ASSUME TypeOK, WalkInv, PathInv, DetectCycle
  PROVE  PathInv'
<1>1. /\ pc = "walk" /\ stack # << >> /\ ~Top.leaving /\ Top.node \in ancestors
      /\ UNCHANGED args /\ Raise("ContractCycleError", Top.path)
  BY DEF DetectCycle, Popping
<1>2. PICK w \in Walks(Top.path) :
        /\ w[Len(w)] = Top.node
        /\ \A j \in 1..(Len(stack) - 1) :
             stack[j].leaving => \E i \in 1..(Len(w) - 1) : w[i] = stack[j].node
  BY <1>1, TopLeads
<1>3. PICK j \in Idx : Marker(j) /\ NodeAt(j) = Top.node
  BY <1>1 DEF WalkInv, GreyInv, GreyOnStack
<1>4. j \in 1..(Len(stack) - 1)
  <2>1. Len(stack) \in Nat \ {0} /\ j \in 1..Len(stack)
    BY <1>1, <1>3, TopType DEF Idx
  <2>2. j # Len(stack)
    BY <1>1, <1>3 DEF Marker, Top
  <2>3. QED
    BY <2>1, <2>2
<1>5. \E i \in 1..(Len(w) - 1) : w[i] = w[Len(w)]
  BY <1>2, <1>3, <1>4 DEF Marker, NodeAt
<1>6. HasDefect(w, "ContractCycleError")'
  BY <1>1, <1>5, Defects
<1>7. QED
  BY <1>1, <1>2, <1>6, ErrorKindsFacts, RaisedLocated

LEMMA VisitLocated ==
  ASSUME TypeOK, WalkInv, PathInv,
         VisitTooComplex \/ VisitUnsupported \/ VisitOpaque
  PROVE  PathInv'
<1>1. Visit(Top) /\ pc = "walk" /\ stack # << >> /\ UNCHANGED args
  BY DEF VisitTooComplex, VisitUnsupported, VisitOpaque, Visit, Popping
<1>2. PICK w \in Walks(Top.path) : Len(w) = Top.depth /\ w[Len(w)] = Top.node
  BY <1>1, TopLeads
<1>3. CASE VisitTooComplex
  <2>1. ~WithinLimits(Top) /\ Raise("ContractComplexityError", Top.path)
    BY <1>3 DEF VisitTooComplex
  <2>2. nodeCount' = Cardinality(counted')
    BY <1>1, CountedVisit DEF WalkInv
  <2>3. Limits.depth \in Nat /\ Limits.nodes \in Nat /\ nodeCount' \in Nat
    BY <1>1, LimitsType, VisitType DEF TypeOK
  <2>4. Top.depth \in Nat
    BY <1>1, TopType, FrameFacts
  <2>5. Top.depth > Limits.depth \/ nodeCount' > Limits.nodes
    BY <2>1, <2>3, <2>4 DEF WithinLimits
  <2>6. HasDefect(w, "ContractComplexityError")'
    BY <1>1, <1>2, <2>2, <2>5, Defects
  <2>7. QED
    BY <1>1, <1>2, <2>1, <2>6, ErrorKindsFacts, RaisedLocated
<1>4. CASE VisitUnsupported
  <2>1. ~IsSupported(graph[Top.node]) /\ Raise(Invalid, Top.path)
    BY <1>4 DEF VisitUnsupported
  <2>2. HasDefect(w, Invalid)'
    BY <1>1, <1>2, <2>1, Defects
  <2>3. QED
    BY <1>1, <1>2, <2>1, <2>2, ErrorKindsFacts, RaisedLocated
<1>5. CASE VisitOpaque
  <2>1. Raise("PythonError", NoPath)
    BY <1>5 DEF VisitOpaque
  <2>2. QED
    BY <1>1, <2>1, ErrorKindsFacts, RaisedLocated
<1>6. QED
  BY <1>3, <1>4, <1>5

LEMMA WalkingLocated ==
  ASSUME IInv, PathInv, Begin \/ Leave \/ SkipExplored \/ Expand
  PROVE  PathInv'
<1>1. UNCHANGED <<graph, root, result>> /\ pc' = "walk"
  BY DEF Begin, Leave, SkipExplored, Expand, Visit, Popping, args
<1>2. DiagnosticsLocated'
  <2>1. result = NoResult
    BY DEF Begin, Leave, SkipExplored, Expand, Visit, Popping, IInv, ResultInv
  <2>2. result'.kind \notin ErrorKinds
    BY <1>1, <2>1 DEF NoResult, ErrorKinds, Invalid, Mismatch
  <2>3. QED
    BY <2>2 DEF DiagnosticsLocated
<1>3. Located(graph, root, stack')
  <2>1. CASE Begin
    <3>1. root \in Node
      BY RootsAssumption DEF IInv, TypeOK
    <3>2. QED
      BY <2>1, <3>1, LocatedBegin DEF Begin
  <2>2. CASE Leave \/ SkipExplored
    <3>1. stack \in Seq(FrameType) /\ stack # << >> /\ stack' = Rest
          /\ Located(graph, root, stack)
      BY <2>2 DEF Leave, SkipExplored, Popping, PathInv, IInv, TypeOK
    <3>2. QED
      BY <3>1, LocatedPop DEF Rest
  <2>3. CASE Expand
    <3>1. stack \in Seq(FrameType) /\ stack # << >> /\ graph \in [Node -> NodeRecord]
          /\ Located(graph, root, stack)
      BY <2>3 DEF Expand, Visit, Popping, PathInv, IInv, TypeOK
    <3>2. stack' = Pushed(stack, Top, graph[Top.node].kids)
      <4>1. ChildFrames(Top) = Children(Top, graph[Top.node].kids)
        BY DEF ChildFrames, Children
      <4>2. QED
        BY <2>3, <4>1 DEF Expand, Pushed, Rest
    <3>3. QED
      BY <3>1, <3>2, LocatedPush DEF Top
  <2>4. QED
    BY <2>1, <2>2, <2>3
<1>4. QED
  BY <1>1, <1>2, <1>3 DEF PathInv

LEMMA LocatedStep == IInv /\ PathInv /\ [Next]_vars => PathInv'
<1> SUFFICES ASSUME IInv, PathInv, [Next]_vars PROVE PathInv'
  OBVIOUS
<1>1. TypeOK
  BY DEF IInv
<1>2. CASE Begin \/ Leave \/ SkipExplored \/ Expand
  BY <1>2, WalkingLocated
<1>3. CASE RejectLimits \/ RejectRoot
  BY <1>1, <1>3, EntryLocated
<1>4. CASE LeaveInvalid
  BY <1>1, <1>4, NodeLocated
<1>5. CASE DetectCycle
  BY <1>1, <1>5, CycleLocated DEF IInv
<1>6. CASE VisitTooComplex \/ VisitUnsupported \/ VisitOpaque
  BY <1>1, <1>6, VisitLocated DEF IInv
<1>7. CASE Return
  <2>1. pc' = "done" /\ result'.kind = "metrics"
    BY <1>7 DEF Return
  <2>2. result'.kind \notin ErrorKinds
    BY <2>1 DEF ErrorKinds, Invalid, Mismatch
  <2>3. QED
    BY <2>1, <2>2 DEF PathInv, DiagnosticsLocated
<1>8. CASE UNCHANGED vars
  <2>1. UNCHANGED <<graph, root, stack, pc, counted, result, Limits>>
    BY <1>8 DEF vars, Limits
  <2>2. DiagnosticsLocated'
    <3>1. SUFFICES ASSUME result.kind \in ErrorKinds, result.path # NoPath
                   PROVE  \E w \in Walks(result.path)' : HasDefect(w, result.kind)'
      BY <2>1 DEF DiagnosticsLocated
    <3>2. PICK w \in Walks(result.path) : HasDefect(w, result.kind)
      BY <3>1 DEF PathInv, DiagnosticsLocated
    <3>3. w \in Walks(result.path)'
      BY <2>1, <3>2 DEF Walks
    <3>4. HasDefect(w, result.kind)'
      BY Zenon, <2>1, <3>2 DEF HasDefect
    <3>5. QED
      BY <3>3, <3>4
  <2>3. QED
    BY <2>1, <2>2 DEF PathInv
<1>9. QED
  BY <1>2, <1>3, <1>4, <1>5, <1>6, <1>7, <1>8 DEF Next

\* The structural path of a diagnostic leads from the root to a node that has
\* the reported defect; that of a cycle error passes that node twice.
THEOREM DiagnosticsAreLocated == Spec => []DiagnosticsLocated
<1>1. Init => PathInv
  BY LocatedInit
<1>2. IInv /\ PathInv /\ [Next]_vars => PathInv'
  BY LocatedStep
<1>3. PathInv => DiagnosticsLocated
  BY DEF PathInv
<1>4. QED
  BY <1>1, <1>2, <1>3, Invariance, PTL DEF Spec

-----------------------------------------------------------------------------
(* What follows from it, for every graph, root and limits.                 *)

\* When validate_contract checks a node's own invariants, every child it
\* reads .unit and .value of has been validated before.
THEOREM PostOrder == Spec => []ChildrenValidatedFirst
<1>1. IInv => ChildrenValidatedFirst
  BY TopFacts DEF IInv, ChildrenValidatedFirst
<1>2. QED
  BY <1>1, Invariance, PTL

\* validate_contract enters a shared node at most once per level, and no node
\* deeper than one level below max_depth.
THEOREM WorkIsBounded == Spec => []WorkBounded
<1>1. IInv => WorkBounded
  BY DEF IInv
<1>2. QED
  BY <1>1, Invariance, PTL

\* validate_contract implements its promise: whatever it answers, the graph
\* justifies; it answers once and leaves its arguments alone.
THEOREM ImplementsPromise == Spec => KeepsPromise
<1>1. Init => Call!Init
  <2> SUFFICES ASSUME Init PROVE Call!Init
    OBVIOUS
  <2>1. TypeOK
    BY TypeInit
  <2>2. Limits \in LimitsArgument /\ root \in Node /\ graph \in [Node -> NodeRecord]
    BY <2>1, LimitsType, RootsAssumption DEF TypeOK
  <2>3. QED
    BY <2>2 DEF Init, Call!Init
<1>2. IInv /\ IInv' /\ [Next]_vars
        => [Call!Answer]_<<[graph |-> graph, root |-> root, limits |-> Limits],
                           result>>
  <2> SUFFICES ASSUME IInv, IInv', [Next]_vars,
                      ~(UNCHANGED <<[graph |-> graph, root |-> root,
                                     limits |-> Limits], result>>)
               PROVE  Call!Answer
    OBVIOUS
  <2>1. UNCHANGED args
    BY DEF Next, vars, args, RejectLimits, RejectRoot, Begin, Leave,
           LeaveInvalid, DetectCycle, SkipExplored, VisitTooComplex,
           VisitUnsupported, VisitOpaque, Expand, Return, Visit
  <2>2. UNCHANGED [graph |-> graph, root |-> root, limits |-> Limits]
    BY <2>1 DEF args, Limits
  <2>3. result' # result
    BY <2>2
  <2>4. pc # "done" /\ pc' = "done"
    BY <2>3 DEF Next, vars, RejectLimits, RejectRoot, Begin, Leave,
                LeaveInvalid, DetectCycle, SkipExplored, VisitTooComplex,
                VisitUnsupported, VisitOpaque, Expand, Return, Visit, Popping,
                Raise
  <2>5. result = NoResult /\ result' # NoResult
        /\ ValidationPromised(CallInput', result')
    BY <2>4 DEF IInv, ResultInv, NoResult
  <2>6. CallInput' = [graph |-> graph, root |-> root, limits |-> Limits]
    BY <2>2 DEF CallInput
  <2>7. QED
    BY <2>2, <2>5, <2>6 DEF Call!Answer
<1>3. QED
  BY <1>1, <1>2, Invariance, PTL DEF Spec, KeepsPromise, Call!Spec

\* The colouring of validate_contract: a node is an ancestor exactly while its
\* post-order marker waits on the stack, and every counted node is grey or
\* black.
THEOREM Colouring == Spec => []AncestorsArePending
<1>1. ASSUME IInv, pc = "walk"
      PROVE  LET markers == {i \in 1..Len(stack) : stack[i].leaving}
             IN  /\ ancestors = {stack[i].node : i \in markers}
                 /\ Cardinality(ancestors) = Cardinality(markers)
                 /\ counted = explored \cup ancestors
  <2>1. TypeOK /\ GreyInv /\ BlackInv
    BY <1>1 DEF IInv, WalkInv
  <2> DEFINE M == {i \in Idx : Marker(i)}
             f == [i \in M |-> NodeAt(i)]
  <2>2. ancestors = {NodeAt(i) : i \in M}
    BY <2>1 DEF GreyInv, GreyMarked, GreyOnStack
  <2>3. IsFiniteSet(M) /\ IsFiniteSet(ancestors)
    <3>1. PICK n \in Nat : Idx = 1..n
      BY <2>1, IdxFacts
    <3>2. IsFiniteSet(Idx)
      BY <3>1, FS_Interval
    <3>3. M \subseteq Idx /\ ancestors \subseteq Node
      BY <2>1 DEF TypeOK
    <3>4. QED
      BY <3>2, <3>3, NodeAssumption, FS_Subset
  <2>4. f \in Injection(M, ancestors) /\ f \in Surjection(M, ancestors)
    <3>1. f \in [M -> ancestors]
      BY <2>2
    <3>2. \A i, j \in M : f[i] = f[j] => i = j
      BY <2>1 DEF GreyInv, GreyOnce
    <3>3. \A n \in ancestors : \E i \in M : f[i] = n
      BY <2>2
    <3>4. QED
      BY <3>1, <3>2, <3>3 DEF Injection, Surjection, IsInjective
  <2>5. ExistsBijection(M, ancestors)
    BY <2>4 DEF ExistsBijection, Bijection
  <2>6. Cardinality(ancestors) = Cardinality(M)
    BY <2>3, <2>5, FS_Bijection
  <2>7. QED
    BY <2>1, <2>2, <2>6 DEF BlackInv, Idx, Marker, NodeAt
<1>2. IInv => AncestorsArePending
  BY <1>1 DEF AncestorsArePending
<1>3. QED
  BY <1>2, Invariance, PTL

-----------------------------------------------------------------------------
(* The two copies of the class rules.                                      *)

\* The graph is one of the graphs a caller may pass.
AgreementInv == graph \in Graphs /\ ValidatorMatchesConstructors

LEMMA GraphFields ==
  ASSUME graph \in Graphs
  PROVE  \A n \in Node : FieldsOf(graph[n])
<1>1. graph \in [Node -> NodeRecord]
  BY GraphsAssumption
<1>2. \A n \in Node : graph[n].kids \in Seq(Node) /\ graph[n].sound \in BOOLEAN
  BY <1>1 DEF NodeRecord
<1>3. \A n \in Node :
        /\ graph[n].slots \in {"tuple", "list", "opaque"}
        /\ graph[n].type \in DOMAIN Arity =>
             /\ graph[n].slots # "list"
             /\ IsIterable(graph[n]) => Len(graph[n].kids) = Arity[graph[n].type]
  BY FieldsAssumption
<1>4. QED
  BY <1>2, <1>3 DEF FieldsOf

\* When the walk returns, every node it counted is black.
LEMMA AgreementReturn ==
  ASSUME IInv, AgreementInv, Return
  PROVE  AgreementInv'
<1>1. /\ pc = "walk" /\ stack = << >> /\ UNCHANGED <<graph, counted>>
      /\ result'.kind = "metrics"
  BY DEF Return, args, walkVars
<1>2. /\ TypeOK /\ GreyOnStack /\ counted = explored \cup ancestors
      /\ \A n \in explored : NodeAccepted(graph, n)
  BY <1>1 DEF IInv, WalkInv, GreyInv, BlackInv
<1>3. ancestors = {}
  BY <1>1, <1>2, IdxFacts DEF GreyOnStack
<1>4. \A n \in counted : ExactlyTyped(graph, n) /\ Constructible(graph, n)
  <2>1. counted \subseteq Node
    BY <1>2 DEF TypeOK
  <2>2. QED
    BY <1>2, <1>3, <2>1, GraphFields, RulesAgree DEF AgreementInv, NodeAccepted
<1>5. result'.kind \notin {Invalid, Mismatch}
  BY <1>1 DEF Invalid, Mismatch
<1>6. QED
  BY <1>1, <1>4, <1>5 DEF AgreementInv, ValidatorMatchesConstructors

\* A node whose own checks fail has been counted when it was entered.
LEMMA AgreementLeave ==
  ASSUME IInv, AgreementInv, LeaveInvalid
  PROVE  AgreementInv'
<1>1. pc = "walk" /\ stack # << >> /\ Top.leaving = TRUE /\ UNCHANGED <<graph, counted>>
  BY DEF LeaveInvalid, Popping, args, walkVars
<1>2. NodeError(graph, Top.node) # Pass /\ result'.kind # "metrics"
  <2>1. CASE NodeError(graph, Top.node) = InvalidNoPath /\ Raise(Invalid, NoPath)
    BY <2>1 DEF Raise, Pass, Invalid, InvalidNoPath
  <2>2. ASSUME NEW error \in {Invalid, Mismatch}, NodeError(graph, Top.node) = error,
               Raise(error, Top.path)
        PROVE  NodeError(graph, Top.node) # Pass /\ result'.kind # "metrics"
    BY <2>2 DEF Raise, Pass, Invalid, Mismatch
  <2>3. QED
    BY <2>1, <2>2 DEF LeaveInvalid
<1>3. TypeOK /\ GreyMarked /\ WalkInv /\ counted = explored \cup ancestors
  BY <1>1 DEF IInv, WalkInv, GreyInv, BlackInv
<1>4. Len(stack) \in Idx /\ Marker(Len(stack)) /\ NodeAt(Len(stack)) = Top.node
  BY <1>1, <1>3, IdxFacts
<1>5. Top.node \in counted /\ Top.node \in Node
  <2>1. Top.node \in ancestors
    BY <1>3, <1>4 DEF GreyMarked
  <2>2. QED
    BY <2>1, <1>3 DEF TypeOK
<1>6. /\ IsSupported(graph[Top.node]) /\ IsIterable(graph[Top.node])
      /\ ChildSet(graph, Top.node) \subseteq explored
  BY <1>1, <1>3, TopFacts
<1>7. ASSUME \A n \in counted : ExactlyTyped(graph, n)
      PROVE  ~Constructible(graph, Top.node)
  <2>1. \A i \in 1..Len(graph[Top.node].kids) : graph[Top.node].kids[i] \in counted
    BY <1>3, <1>6 DEF ChildSet, Seq2Set
  <2>2. \A i \in 1..Len(graph[Top.node].kids) : ExactlyTyped(graph, graph[Top.node].kids[i])
    BY <1>7, <2>1
  <2>3. FieldsOf(graph[Top.node]) /\ ExactlyTyped(graph, Top.node)
    BY <1>5, <1>7, GraphFields DEF AgreementInv
  <2>4. QED
    BY <1>2, <1>6, <2>2, <2>3, RulesAgree
<1>8. QED
  BY <1>1, <1>2, <1>5, <1>7 DEF AgreementInv, ValidatorMatchesConstructors

\* An object of an unsupported class is not exactly typed.
LEMMA AgreementUnsupported ==
  ASSUME IInv, AgreementInv, VisitUnsupported
  PROVE  AgreementInv'
<1>1. /\ Visit(Top) /\ stack # << >> /\ UNCHANGED graph
      /\ counted' = counted \cup {Top.node}
      /\ ~IsSupported(graph[Top.node])
      /\ result'.kind # "metrics"
  BY DEF VisitUnsupported, Visit, Popping, Raise, args, Invalid
<1>2. ~ExactlyTyped(graph, Top.node)
  BY <1>1 DEF ExactlyTyped
<1>3. QED
  BY <1>1, <1>2 DEF AgreementInv, ValidatorMatchesConstructors

LEMMA AgreementStep == IInv /\ AgreementInv /\ [Next]_vars => AgreementInv'
<1> SUFFICES ASSUME IInv, AgreementInv, [Next]_vars PROVE AgreementInv'
  OBVIOUS
<1>1. CASE RejectLimits \/ RejectRoot
  <2>1. graph' = graph /\ counted' = {}
    BY <1>1 DEF RejectLimits, RejectRoot, args, walkVars, IInv, EntryInv
  <2>2. QED
    BY <2>1 DEF AgreementInv, ValidatorMatchesConstructors
<1>2. CASE Begin \/ Leave \/ SkipExplored \/ Expand
  <2>1. graph' = graph /\ pc' # "done"
    BY <1>2 DEF Begin, Leave, SkipExplored, Expand, Visit, Popping, args
  <2>2. QED
    BY <2>1 DEF AgreementInv, ValidatorMatchesConstructors
<1>3. CASE DetectCycle \/ VisitTooComplex \/ VisitOpaque
  <2>1. /\ graph' = graph
        /\ result'.kind \in {"ContractCycleError", "ContractComplexityError",
                             "PythonError"}
    <3>1. CASE DetectCycle
      BY <3>1 DEF DetectCycle, Raise, args
    <3>2. CASE VisitTooComplex
      BY <3>2 DEF VisitTooComplex, Visit, Raise, args
    <3>3. CASE VisitOpaque
      BY <3>3 DEF VisitOpaque, Visit, Raise, args
    <3>4. QED
      BY <1>3, <3>1, <3>2, <3>3
  <2>2. result'.kind # "metrics" /\ result'.kind \notin {Invalid, Mismatch}
    BY <2>1 DEF Invalid, Mismatch
  <2>3. QED
    BY <2>1, <2>2 DEF AgreementInv, ValidatorMatchesConstructors
<1>4. CASE UNCHANGED vars
  BY <1>4 DEF vars, AgreementInv, ValidatorMatchesConstructors
<1>5. QED
  BY <1>1, <1>2, <1>3, <1>4, AgreementReturn, AgreementLeave, AgreementUnsupported
     DEF Next

\* Up to exact types validate_contract and the constructors enforce the same
\* rules: it returns metrics only for exactly typed nodes that constructor calls
\* could have stored, and over exactly typed nodes it raises a validation or
\* type error only if it reached one that no constructor call could have stored.
THEOREM ConstructorsAgree == Spec => []ValidatorMatchesConstructors
<1>1. Init => AgreementInv
  BY DEF Init, AgreementInv, ValidatorMatchesConstructors
<1>2. IInv /\ AgreementInv /\ [Next]_vars => AgreementInv'
  BY AgreementStep
<1>3. AgreementInv => ValidatorMatchesConstructors
  BY DEF AgreementInv
<1>4. QED
  BY <1>1, <1>2, <1>3, Invariance, PTL DEF Spec

-----------------------------------------------------------------------------
(* validate_contract returns metrics only on contracts with a meaning.     *)

MeaningInv == graph \in Graphs /\ AcceptedContractsHaveMeaning

LEMMA AcceptedRecords ==
  ASSUME graph \in Graphs, NEW n \in Node, NodeAccepted(graph, n)
  PROVE  AcceptedRecord(graph, n)
<1>1. /\ graph[n].kids \in Seq(Node) /\ graph[n].sound \in BOOLEAN
      /\ IsIterable(graph[n])
  BY GraphFields DEF NodeAccepted, FieldsOf
<1>2. graph[n].type \in DOMAIN Arity => Len(graph[n].kids) = Arity[graph[n].type]
  BY <1>1, FieldsAssumption
<1>3. QED
  BY <1>1, <1>2 DEF AcceptedRecord

\* When the walk returns, the nodes it counted are closed under children, and
\* their depths increase from parents to children.
LEMMA MeaningReturn ==
  ASSUME IInv, MeaningInv, Return
  PROVE  MeaningInv'
<1>1. pc = "walk" /\ stack = << >> /\ UNCHANGED <<graph, counted>>
  BY DEF Return, args, walkVars
<1>2. TypeOK /\ GreyOnStack /\ BlackInv /\ CountInv /\ graph \in Graphs
  BY <1>1 DEF IInv, WalkInv, GreyInv, MeaningInv
<1>3. ancestors = {}
  BY <1>1, <1>2, IdxFacts DEF GreyOnStack
<1>4. explored = counted /\ counted \subseteq Node
  BY <1>2, <1>3 DEF BlackInv, TypeOK
<1>5. \A n \in counted : AcceptedRecord(graph, n)
  BY <1>2, <1>4, AcceptedRecords DEF BlackInv
<1>6. ASSUME NEW n \in counted, NEW i \in 1..Len(graph[n].kids)
      PROVE  graph[n].kids[i] \in counted /\ bestDepth[n] < bestDepth[graph[n].kids[i]]
  <2> DEFINE k == graph[n].kids[i]
  <2>1. k \in ChildSet(graph, n)
    BY <1>5 DEF AcceptedRecord, NodeAccepted, ChildSet, Seq2Set
  <2> HIDE DEF k
  <2>2. k \in counted /\ bestDepth[k] > bestDepth[n]
    BY <1>2, <1>3, <1>4, <2>1 DEF BlackInv
  <2>3. bestDepth[k] \in Nat /\ bestDepth[n] \in Nat
    BY <1>2, <1>4, <2>2 DEF TypeOK
  <2>4. QED
    BY <2>2, <2>3 DEF k
<1> DEFINE L == [n \in counted |-> bestDepth[n]]
<1>7. maxDepth \in Nat /\ L \in [counted -> 1..maxDepth]
  BY <1>2, <1>4 DEF CountInv, TypeOK
<1>8. Closed(graph, counted)
  BY <1>6 DEF Closed
<1>9. Increasing(graph, counted, L)
  BY <1>6 DEF Increasing
<1> HIDE DEF L
<1>10. \A env : \A n \in counted : MeaningfulAt(graph, env, counted, n)
  BY <1>5, <1>7, <1>8, <1>9, GraphMeans
<1>11. QED
  BY <1>1, <1>2, <1>10 DEF MeaningInv, AcceptedContractsHaveMeaning

LEMMA MeaningStep == IInv /\ MeaningInv /\ [Next]_vars => MeaningInv'
<1> SUFFICES ASSUME IInv, MeaningInv, [Next]_vars PROVE MeaningInv'
  OBVIOUS
<1>1. CASE UNCHANGED vars
  BY <1>1 DEF vars, MeaningInv, AcceptedContractsHaveMeaning
<1>2. CASE Begin \/ Leave \/ SkipExplored \/ Expand
  <2>1. graph' = graph /\ pc # "done" /\ result' = result
    BY <1>2 DEF Begin, Leave, SkipExplored, Expand, Visit, Popping, args, walkVars
  <2>2. result'.kind # "metrics"
    BY <2>1 DEF IInv, ResultInv, NoResult
  <2>3. QED
    BY <2>1, <2>2 DEF MeaningInv, AcceptedContractsHaveMeaning
<1>3. CASE RejectLimits \/ RejectRoot \/ LeaveInvalid \/ DetectCycle
           \/ VisitTooComplex \/ VisitUnsupported \/ VisitOpaque
  <2>1. \E kind \in ErrorKinds : \E path : Raise(kind, path) /\ graph' = graph
    <3>1. CASE RejectLimits \/ RejectRoot
      BY <3>1 DEF RejectLimits, RejectRoot, args, ErrorKinds
    <3>2. CASE LeaveInvalid \/ DetectCycle
      BY <3>2 DEF LeaveInvalid, DetectCycle, args, ErrorKinds
    <3>3. CASE VisitTooComplex \/ VisitUnsupported \/ VisitOpaque
      BY <3>3 DEF VisitTooComplex, VisitUnsupported, VisitOpaque, Visit, args, ErrorKinds
    <3>4. QED
      BY <1>3, <3>1, <3>2, <3>3
  <2>2. graph' = graph /\ result'.kind # "metrics"
    BY <2>1 DEF Raise, ErrorKinds, Invalid, Mismatch
  <2>3. QED
    BY <2>2 DEF MeaningInv, AcceptedContractsHaveMeaning
<1>4. QED
  BY <1>1, <1>2, <1>3, MeaningReturn DEF Next

\* A contract that validate_contract accepts is well-typed: whatever its
\* observables are, no operation in it meets an operand of the wrong class,
\* unit or currency, and each scalar node stores the unit of what it computes.
THEOREM AcceptedHaveMeaning == Spec => []AcceptedContractsHaveMeaning
<1>1. Init => MeaningInv
  BY DEF Init, MeaningInv, AcceptedContractsHaveMeaning, NoResult
<1>2. IInv /\ MeaningInv /\ [Next]_vars => MeaningInv'
  BY MeaningStep
<1>3. MeaningInv => AcceptedContractsHaveMeaning
  BY DEF MeaningInv
<1>4. QED
  BY <1>1, <1>2, <1>3, Invariance, PTL DEF Spec
=============================================================================
