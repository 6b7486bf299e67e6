----------------------- MODULE CanonicalizationProofs -----------------------
(***************************************************************************)
(* The traversal of canonicalize_contract, for every graph and every       *)
(* digest function: each reachable object is canonicalized exactly once,   *)
(* after its children.  The traversal keeps no set of ancestors; that it   *)
(* never meets one again rests on the promise of validate_contract.  Then  *)
(* what the table of payloads and the document hold, that the call keeps   *)
(* the promise its caller has, and that the document means what the        *)
(* contract means.                                                         *)
(***************************************************************************)
EXTENDS StructuralEquivalence, DocumentLemmas

-----------------------------------------------------------------------------
(* The inductive invariant.                                                *)

Reached == Reach(graph, root)
Frames(R) == [node : R, leaving : BOOLEAN]

\* Whatever is above the marker of an object is below it in the graph.
Stacked(s, L) ==
  \A i, j \in 1..Len(s) :
    i < j /\ s[i].leaving => L[s[i].node] < L[s[j].node]

\* An object whose marker is on the stack is not finished.
Unfinished(s, D) == \A i \in 1..Len(s) : s[i].leaving => s[i].node \notin D

\* A child of a marked object is finished or scheduled above the marker.
Scheduled(g, s, D) ==
  \A i \in 1..Len(s) :
    s[i].leaving =>
      \A c \in ChildSet(g, s[i].node) :
        c \in D \/ \E j \in 1..Len(s) : i < j /\ s[j].node = c

\* r is finished or still scheduled.
Awaited(r, s, D) == r \in D \/ \E i \in 1..Len(s) : s[i].node = r

StackInv(g, r, s, D, L) ==
  /\ Stacked(s, L) /\ Unfinished(s, D) /\ Scheduled(g, s, D) /\ Awaited(r, s, D)

WalkInv ==
  /\ stack \in Seq(Frames(Reached))
  /\ \A n \in Reached : NodeAccepted(graph, n)
  /\ \E L \in [Reached -> Nat] :
       /\ IncreasingLabels(graph, Reached, L)
       /\ StackInv(graph, root, stack, DOMAIN memo, L)

MemoInv ==
  /\ DOMAIN memo \subseteq Reached
  /\ \A n \in DOMAIN memo : ChildSet(graph, n) \subseteq DOMAIN memo

BuildsInv ==
  /\ builds \in [Node -> {0, 1}]
  /\ pc # "done" => \A n \in Node : builds[n] = IF n \in DOMAIN memo THEN 1 ELSE 0

IInv ==
  /\ graph \in Graphs /\ root \in Node
  /\ pc \in {"config", "validate"} => memo = << >>
  /\ MemoInv
  /\ BuildsInv
  /\ pc = "walk" => WalkInv
  /\ pc = "prune" => Reached \subseteq DOMAIN memo

-----------------------------------------------------------------------------
(* Reachability.                                                           *)

LEMMA KidsFacts ==
  ASSUME NEW g \in Graphs, NEW n \in Node
  PROVE  /\ g[n].kids \in Seq(Node) /\ Len(g[n].kids) \in Nat
         /\ \A i \in 1..Len(g[n].kids) : g[n].kids[i] \in Node
         /\ ChildSet(g, n) \subseteq Node
         /\ NodeAccepted(g, n) => ChildSet(g, n) = Seq2Set(g[n].kids)
<1>1. g[n].kids \in Seq(Node)
  BY CanonicalAssumption DEF WellTyped
<1>2. Len(g[n].kids) \in Nat /\ \A i \in 1..Len(g[n].kids) : g[n].kids[i] \in Node
  BY <1>1, LenProperties, ElementOfSeq
<1>3. QED
  BY <1>1, <1>2 DEF ChildSet, Seq2Set, NodeAccepted

LEMMA ReachFacts ==
  ASSUME NEW g \in Graphs, NEW r \in Node
  PROVE  /\ r \in Reach(g, r)
         /\ Reach(g, r) \subseteq Node
         /\ \A n \in Reach(g, r) : ChildSet(g, n) \subseteq Reach(g, r)
<1>1. r \in Reach(g, r) /\ Reach(g, r) \subseteq Node
  BY DEF Reach
<1>2. ASSUME NEW n \in Reach(g, r), NEW k \in ChildSet(g, n)
      PROVE  k \in Reach(g, r)
  <2>1. k \in Node
    BY <1>1, KidsFacts
  <2>2. ASSUME NEW S \in SUBSET Node, r \in S, ClosedUnderChildren(g, S)
        PROVE  k \in S
    BY <2>2 DEF Reach, ClosedUnderChildren
  <2>3. QED
    BY <2>1, <2>2 DEF Reach
<1>3. QED
  BY <1>1, <1>2

LEMMA ReachLeast ==
  ASSUME NEW g, NEW r, NEW S \in SUBSET Node, r \in S,
         \A n \in S : ChildSet(g, n) \subseteq S
  PROVE  Reach(g, r) \subseteq S
BY DEF Reach, ClosedUnderChildren

-----------------------------------------------------------------------------
(* What each iteration does to the stack.                                  *)

\* A finished object is popped: nobody waits for it any more.
LEMMA PopSkipped ==
  ASSUME NEW g, NEW r, NEW R, NEW s, NonEmpty(s, Frames(R)), NEW D,
         NEW L \in [R -> Nat], StackInv(g, r, s, D, L), s[Len(s)].node \in D
  PROVE  StackInv(g, r, Popped(s), D, L)
<1> DEFINE t == Popped(s)
<1>1. /\ Len(s) \in Nat \ {0} /\ Len(t) = Len(s) - 1
      /\ \A i \in 1..(Len(s) - 1) : t[i] = s[i]
  BY PopFacts
<1> HIDE DEF t
<1>2. \A i \in 1..Len(t) : i \in 1..Len(s) /\ t[i] = s[i]
  BY <1>1
<1>3. \A i \in 1..Len(s) : i \in 1..Len(t) \/ i = Len(s)
  BY <1>1
<1>4. Stacked(t, L) /\ Unfinished(t, D)
  BY <1>2 DEF StackInv, Stacked, Unfinished
<1>5. Scheduled(g, t, D)
  <2>1. SUFFICES ASSUME NEW i \in 1..Len(t), t[i].leaving,
                        NEW c \in ChildSet(g, t[i].node), c \notin D
                 PROVE  \E j \in 1..Len(t) : i < j /\ t[j].node = c
    BY DEF Scheduled
  <2>2. PICK j \in 1..Len(s) : i < j /\ s[j].node = c
    BY <1>2, <2>1 DEF StackInv, Scheduled
  <2>3. QED
    BY <1>2, <1>3, <2>1, <2>2
<1>6. Awaited(r, t, D)
  BY <1>2, <1>3 DEF StackInv, Awaited
<1>7. QED
  BY <1>4, <1>5, <1>6 DEF StackInv, t

\* The marker of n surfaces: its children are finished, and n is no other
\* marked object.
LEMMA PopFinished ==
  ASSUME NEW g, NEW r, NEW R, NEW s, NonEmpty(s, Frames(R)), NEW D,
         NEW L \in [R -> Nat], StackInv(g, r, s, D, L), s[Len(s)].leaving
  PROVE  /\ s[Len(s)].node \in R \ D
         /\ ChildSet(g, s[Len(s)].node) \subseteq D
         /\ StackInv(g, r, Popped(s), D \cup {s[Len(s)].node}, L)
<1> DEFINE t == Popped(s)
           n == s[Len(s)].node
           E == D \cup {n}
<1>1. /\ Len(s) \in Nat \ {0} /\ Len(t) = Len(s) - 1
      /\ s[Len(s)] \in Frames(R)
      /\ \A i \in 1..(Len(s) - 1) : t[i] = s[i]
  BY PopFacts
<1> HIDE DEF t
<1>2. \A i \in 1..Len(t) : i \in 1..Len(s) /\ i < Len(s) /\ t[i] = s[i]
  BY <1>1
<1>3. \A i \in 1..Len(s) : i \in 1..Len(t) \/ i = Len(s)
  BY <1>1
<1>4. Len(s) \in 1..Len(s) /\ \A i \in 1..Len(s) : ~(Len(s) < i)
  BY <1>1
<1>5. n \in R \ D /\ ChildSet(g, n) \subseteq D
  BY <1>1, <1>4 DEF StackInv, Unfinished, Scheduled, Frames
<1>6. \A i \in 1..Len(t) : t[i].leaving => t[i].node # n
  <2>1. SUFFICES ASSUME NEW i \in 1..Len(t), t[i].leaving PROVE t[i].node # n
    OBVIOUS
  <2>2. L[t[i].node] < L[n]
    BY <1>2, <1>4, <2>1 DEF StackInv, Stacked
  <2>3. L[n] \in Nat
    BY <1>5
  <2>4. QED
    BY <2>2, <2>3
<1>7. Stacked(t, L) /\ Unfinished(t, E)
  <2>1. Stacked(t, L)
    BY <1>2 DEF StackInv, Stacked
  <2>2. Unfinished(t, E)
    BY <1>2, <1>6 DEF StackInv, Unfinished
  <2>3. QED
    BY <2>1, <2>2
<1>8. Scheduled(g, t, E)
  <2>1. SUFFICES ASSUME NEW i \in 1..Len(t), t[i].leaving,
                        NEW c \in ChildSet(g, t[i].node), c \notin E
                 PROVE  \E j \in 1..Len(t) : i < j /\ t[j].node = c
    BY DEF Scheduled
  <2>2. PICK j \in 1..Len(s) : i < j /\ s[j].node = c
    BY <1>2, <2>1 DEF StackInv, Scheduled
  <2>3. QED
    BY <1>2, <1>3, <2>1, <2>2
<1>9. Awaited(r, t, E)
  BY <1>2, <1>3 DEF StackInv, Awaited
<1>10. QED
  BY <1>5, <1>7, <1>8, <1>9 DEF StackInv, t

ChildFrames(kids) ==
  [i \in 1..Len(kids) |-> CFrame(kids[Len(kids) + 1 - i], FALSE)]

LEMMA ChildFramesFacts ==
  ASSUME NEW R, NEW kids \in Seq(R)
  PROVE  /\ ChildFrames(kids) \in Seq(Frames(R))
         /\ Len(ChildFrames(kids)) = Len(kids)
         /\ \A i \in 1..Len(kids) :
              /\ ChildFrames(kids)[i].node = kids[Len(kids) + 1 - i]
              /\ ChildFrames(kids)[i].leaving = FALSE
<1>1. Len(kids) \in Nat
  BY LenProperties
<1>2. ASSUME NEW i \in 1..Len(kids)
      PROVE  /\ ChildFrames(kids)[i] \in Frames(R)
             /\ ChildFrames(kids)[i].node = kids[Len(kids) + 1 - i]
             /\ ChildFrames(kids)[i].leaving = FALSE
  <2>1. Len(kids) + 1 - i \in 1..Len(kids)
    BY <1>1
  <2>2. kids[Len(kids) + 1 - i] \in R
    BY <2>1, ElementOfSeq
  <2>3. ChildFrames(kids)[i] = CFrame(kids[Len(kids) + 1 - i], FALSE)
    BY DEF ChildFrames
  <2>4. QED
    BY <2>2, <2>3 DEF CFrame, Frames
<1>3. ChildFrames(kids) \in [1..Len(kids) -> Frames(R)]
  BY <1>2 DEF ChildFrames
<1>4. ChildFrames(kids) \in Seq(Frames(R))
  BY <1>1, <1>3, SeqDef
<1>5. Len(ChildFrames(kids)) = Len(kids)
  BY <1>1, <1>3, <1>4, LenProperties
<1>6. QED
  BY <1>2, <1>4, <1>5

\* An unfinished object is marked, and its children are scheduled above it.
LEMMA PushChildren ==
  ASSUME NEW g, NEW r, NEW R, NEW s, NonEmpty(s, Frames(R)), NEW D,
         NEW L \in [R -> Nat], IncreasingLabels(g, R, L),
         StackInv(g, r, s, D, L),
         s[Len(s)].node \notin D,
         NEW kids \in Seq(R), ChildSet(g, s[Len(s)].node) = Seq2Set(kids)
  PROVE  LET t == Pushed(s, CFrame(s[Len(s)].node, TRUE), ChildFrames(kids))
         IN  t \in Seq(Frames(R)) /\ StackInv(g, r, t, D, L)
<1> DEFINE n == s[Len(s)].node
           m == Len(s)
           k == Len(kids)
           above == ChildFrames(kids)
           mark == CFrame(n, TRUE)
           t == Pushed(s, mark, above)
<1>1. m \in Nat \ {0} /\ s[m] \in Frames(R) /\ n \in R
  <2>1. m \in Nat \ {0} /\ s[m] \in Frames(R)
    BY PopFacts
  <2>2. QED
    BY <2>1 DEF Frames
<1>2. k \in Nat /\ \A i \in 1..k : kids[i] \in R
  BY LenProperties, ElementOfSeq
<1>3. mark \in Frames(R) /\ mark.node = n /\ mark.leaving = TRUE
  BY <1>1 DEF CFrame, Frames
<1>4. /\ above \in Seq(Frames(R)) /\ Len(above) = k
      /\ \A i \in 1..k : /\ above[i].node = kids[k + 1 - i]
                         /\ above[i].leaving = FALSE
  BY ChildFramesFacts
<1> HIDE DEF above, mark
<1>5. /\ t \in Seq(Frames(R)) /\ Len(t) = m + k
      /\ \A i \in 1..(m - 1) : t[i] = s[i]
      /\ t[m] = mark
      /\ \A i \in 1..k : t[m + i] = above[i]
  <2>1. t \in Seq(Frames(R)) /\ IsPushed(t, s, mark, above)
    BY <1>3, <1>4, PushFacts
  <2>2. QED
    BY <1>4, <2>1 DEF IsPushed
<1> HIDE DEF t
\* No frame below the children moves, and the last of them keeps its object.
<1>6. \A i \in 1..m : /\ i \in 1..Len(t) /\ t[i].node = s[i].node
                      /\ i < m => t[i] = s[i]
  <2>1. ASSUME NEW i \in 1..m PROVE i \in 1..Len(t) /\ (i < m => i \in 1..(m - 1))
    BY <1>1, <1>2, <1>5
  <2>2. \A i \in 1..m : i < m \/ i = m
    BY <1>1
  <2>3. QED
    BY <1>3, <1>5, <2>1, <2>2
<1>7. ASSUME NEW i \in 1..Len(t), i > m
      PROVE  /\ i - m \in 1..k /\ t[i].leaving = FALSE
             /\ t[i].node = kids[k + 1 - (i - m)] /\ t[i].node \in ChildSet(g, n)
  <2>1. i - m \in 1..k /\ m + (i - m) = i /\ k + 1 - (i - m) \in 1..k
    BY <1>1, <1>2, <1>5, <1>7
  <2>2. t[i] = above[i - m]
    BY <1>5, <2>1
  <2>3. t[i].leaving = FALSE /\ t[i].node = kids[k + 1 - (i - m)]
    BY <1>4, <2>1, <2>2
  <2>4. QED
    BY <2>1, <2>3 DEF Seq2Set
<1>8. ASSUME NEW c \in ChildSet(g, n)
      PROVE  \E j \in 1..Len(t) : m < j /\ t[j].node = c
  <2>1. PICK i \in 1..k : c = kids[i]
    BY <1>8 DEF Seq2Set
  <2>2. /\ m + (k + 1 - i) \in 1..Len(t) /\ m + (k + 1 - i) > m
        /\ k + 1 - (m + (k + 1 - i) - m) = i
    BY <1>1, <1>2, <1>5
  <2> DEFINE j == m + (k + 1 - i)
  <2>3. t[j].node = kids[k + 1 - (j - m)]
    BY <1>7, <2>2
  <2>4. QED
    BY <2>1, <2>2, <2>3
<1>9. \A i \in 1..Len(t) : i < m \/ i = m \/ i > m
  BY <1>1, <1>5
<1>10. \A i \in 1..Len(t) : t[i].leaving => i \in 1..m
  <2>1. \A i \in 1..Len(t) : i > m \/ i \in 1..m
    BY <1>1, <1>9
  <2>2. QED
    BY <1>7, <2>1
<1>11. Stacked(t, L)
  <2>1. SUFFICES ASSUME NEW i \in 1..Len(t), NEW j \in 1..Len(t), i < j,
                        t[i].leaving
                 PROVE  L[t[i].node] < L[t[j].node]
    BY DEF Stacked
  <2>2. i \in 1..m /\ t[i].node = s[i].node
    BY <1>6, <1>10, <2>1
  <2>3. CASE j \in 1..m
    <3>1. i < m /\ s[i].leaving /\ t[j].node = s[j].node
      BY <1>1, <1>6, <2>1, <2>2, <2>3
    <3>2. QED
      BY <2>1, <2>2, <2>3, <3>1 DEF StackInv, Stacked
  <2>4. CASE j > m
    <3>1. t[j].node \in ChildSet(g, n) /\ t[j].node \in R
      BY <1>7, <2>4 , <1>2 DEF Seq2Set
    <3>2. L[t[j].node] > L[n] /\ L[n] \in Nat /\ L[t[j].node] \in Nat
      BY <1>1, <3>1 DEF IncreasingLabels
    <3>3. CASE i = m
      BY <2>2, <3>2, <3>3
    <3>4. CASE i < m
      <4>1. s[i].leaving /\ m \in 1..m
        BY <1>1, <1>6, <2>1, <2>2, <3>4
      <4>2. L[s[i].node] < L[n]
        BY <2>2, <3>4, <4>1 DEF StackInv, Stacked
      <4>3. L[s[i].node] \in Nat
        <5>1. s[i] \in Frames(R)
          BY <1>1, <2>2, ElementOfSeq DEF NonEmpty
        <5>2. QED
          BY <5>1 DEF Frames
      <4>4. QED
        BY <2>2, <3>2, <4>2, <4>3
    <3>5. QED
      BY <1>1, <2>2, <3>3, <3>4
  <2>5. QED
    BY <1>1, <1>9, <2>3, <2>4
<1>12. Unfinished(t, D)
  <2>1. SUFFICES ASSUME NEW i \in 1..Len(t), t[i].leaving PROVE t[i].node \notin D
    BY DEF Unfinished
  <2>2. i \in 1..m /\ t[i].node = s[i].node /\ (i < m => s[i].leaving)
    BY <1>6, <1>10, <2>1
  <2>3. i < m \/ i = m
    BY <1>1, <2>2
  <2>4. QED
    BY <2>2, <2>3 DEF StackInv, Unfinished
<1>13. Scheduled(g, t, D)
  <2>1. SUFFICES ASSUME NEW i \in 1..Len(t), t[i].leaving,
                        NEW c \in ChildSet(g, t[i].node), c \notin D
                 PROVE  \E j \in 1..Len(t) : i < j /\ t[j].node = c
    BY DEF Scheduled
  <2>2. i \in 1..m /\ t[i].node = s[i].node /\ (i < m => s[i].leaving)
    BY <1>6, <1>10, <2>1
  <2>3. CASE i < m
    <3>1. PICK j \in 1..m : i < j /\ s[j].node = c
      BY <2>1, <2>2, <2>3 DEF StackInv, Scheduled
    <3>2. QED
      BY <1>6, <3>1
  <2>4. CASE i = m
    BY <1>8, <2>1, <2>2, <2>4
  <2>5. QED
    BY <1>1, <2>2, <2>3, <2>4
<1>14. Awaited(r, t, D)
  BY <1>6 DEF StackInv, Awaited
<1>15. QED
  BY <1>5, <1>11, <1>12, <1>13, <1>14 DEF StackInv, t, above, mark

-----------------------------------------------------------------------------
(* The invariant holds.                                                    *)

\* Where each answer is the next digest, no two questions have had one answer.
Unclashed(answered) == Oracle = "one order" => NoClash(answered)

\* A call that has not begun.  SHA-256 may have been asked before.
Fresh ==
  /\ graph \in Graphs /\ root \in Roots /\ config \in Configs
  /\ pc = "config"
  /\ stack = << >> /\ memo = << >> /\ canonNodes = << >>
  /\ pruneStack = << >> /\ reachable = {}
  /\ result = NoResult
  /\ builds = [n \in Node |-> 0]
  /\ DigestsTyped(digests) /\ Unclashed(digests)

LEMMA FreshInit == Init => Fresh
<1>1. SUFFICES ASSUME Init PROVE Fresh
  OBVIOUS
<1>2. DOMAIN digests = {}
  BY <1>1 DEF Init
<1>3. DigestsTyped(digests) /\ Unclashed(digests)
  BY <1>2 DEF DigestsTyped, NoClash, Unclashed
<1>4. QED
  BY <1>1, <1>3 DEF Fresh, Init

LEMMA InvFresh == Fresh => IInv
<1>1. SUFFICES ASSUME Fresh PROVE IInv
  OBVIOUS
<1>2. graph \in Graphs /\ root \in Node /\ pc = "config" /\ memo = << >>
  BY <1>1, CanonicalAssumption DEF Fresh
<1>3. DOMAIN memo = {}
  BY <1>2
<1>4. MemoInv
  BY <1>3 DEF MemoInv
<1>5. BuildsInv
  BY <1>1, <1>3 DEF BuildsInv, Fresh
<1>6. QED
  BY <1>2, <1>4, <1>5 DEF IInv

\* Steps that leave the traversal alone and do not enter it.
LEMMA OtherSteps ==
  ASSUME IInv, UNCHANGED <<graph, root, memo, builds>>,
         pc' \in {"validate", "prune", "done"},
         pc' = "validate" => pc = "config",
         pc' = "prune" => pc = "prune",
         pc = "done" => pc' = "done"
  PROVE  IInv'
<1>1. graph' = graph /\ root' = root /\ memo' = memo /\ builds' = builds
  OBVIOUS
<1>2. Reached' = Reached
  BY <1>1 DEF Reached
<1>3. MemoInv'
  BY <1>1, <1>2 DEF IInv, MemoInv
<1>4. BuildsInv'
  BY <1>1 DEF IInv, BuildsInv
<1>5. QED
  BY <1>1, <1>2, <1>3, <1>4 DEF IInv

\* The walk starts with an accepted graph: its depth bound gives the labels.
LEMMA WalkBegins ==
  ASSUME IInv, ValidationPasses
  PROVE  IInv'
<1>1. /\ graph' = graph /\ root' = root /\ memo' = memo /\ builds' = builds
      /\ pc = "validate" /\ pc' = "walk"
      /\ stack' = << [node |-> root, leaving |-> FALSE] >>
      /\ "metrics" \in Verdicts
  BY DEF ValidationPasses, callArgs, core
<1>2. Acceptable(graph, root, config.validation)
  BY <1>1 DEF Verdicts, Failures, Invalid, Mismatch
<1>3. Reached' = Reached
  BY <1>1 DEF Reached
<1>4. root \in Reached
  BY ReachFacts DEF IInv, Reached
<1>5. DOMAIN memo = {}
  BY <1>1 DEF IInv
<1> DEFINE f == [node |-> root, leaving |-> FALSE]
           s == << f >>
<1>6. s \in Seq(Frames(Reached)) /\ Len(s) = 1 /\ s[1] = f
  <2>1. f \in Frames(Reached)
    BY <1>4 DEF Frames
  <2> HIDE DEF f
  <2>2. QED
    BY <2>1
<1>7. f.node = root /\ f.leaving = FALSE
  OBVIOUS
<1> HIDE DEF f, s
<1>8. \A i \in 1..Len(s) : i = 1 /\ s[i].leaving = FALSE /\ s[i].node = root
  BY <1>6, <1>7
<1>9. 1 \in 1..Len(s)
  BY <1>6
<1>10. ASSUME NEW L PROVE StackInv(graph, root, s, {}, L)
  BY <1>8, <1>9 DEF StackInv, Stacked, Unfinished, Scheduled, Awaited
<1>11. PICK L \in [Reached -> 1..config.validation.depth] :
         IncreasingLabels(graph, Reached, L)
  BY <1>2 DEF Acceptable, FitsDepth, Reached
<1>12. L \in [Reached -> Nat]
  BY <1>11
<1>13. \A n \in Reached : NodeAccepted(graph, n)
  BY <1>2 DEF Acceptable, Reached
<1>14. stack' = s
  BY <1>1 DEF s, f
<1>15. WalkInv'
  BY <1>1, <1>3, <1>5, <1>6, <1>10, <1>11, <1>12, <1>13, <1>14 DEF WalkInv
<1>16. MemoInv' /\ BuildsInv'
  BY <1>1, <1>3 DEF IInv, MemoInv, BuildsInv
<1>17. QED
  BY <1>1, <1>15, <1>16 DEF IInv

LEMMA WalkSkips ==
  ASSUME IInv, SkipMemoized
  PROVE  IInv'
<1>1. /\ graph' = graph /\ root' = root /\ memo' = memo /\ builds' = builds
      /\ pc = "walk" /\ pc' = "walk" /\ stack # << >>
      /\ stack[Len(stack)].node \in DOMAIN memo /\ stack' = Popped(stack)
  BY DEF SkipMemoized, Popping, Top, Rest, Popped, callArgs, core
<1>2. Reached' = Reached
  BY <1>1 DEF Reached
<1>3. WalkInv
  BY <1>1 DEF IInv
<1>4. NonEmpty(stack, Frames(Reached))
  BY <1>1, <1>3 DEF WalkInv, NonEmpty
<1>5. PICK L \in [Reached -> Nat] :
        /\ IncreasingLabels(graph, Reached, L)
        /\ StackInv(graph, root, stack, DOMAIN memo, L)
  BY <1>3 DEF WalkInv
<1>6. StackInv(graph, root, Popped(stack), DOMAIN memo, L)
  BY <1>1, <1>4, <1>5, PopSkipped
<1>7. Popped(stack) \in Seq(Frames(Reached))
  BY <1>4, PopFacts
<1>8. WalkInv'
  BY <1>1, <1>2, <1>3, <1>5, <1>6, <1>7 DEF WalkInv
<1>9. MemoInv' /\ BuildsInv'
  BY <1>1, <1>2 DEF IInv, MemoInv, BuildsInv
<1>10. QED
  BY <1>1, <1>8, <1>9 DEF IInv

LEMMA WalkEnters ==
  ASSUME IInv, Enter
  PROVE  IInv'
<1> DEFINE n == stack[Len(stack)].node
           kids == graph[n].kids
           t == Pushed(stack, CFrame(n, TRUE), ChildFrames(kids))
<1>1. /\ graph' = graph /\ root' = root /\ memo' = memo /\ builds' = builds
      /\ pc = "walk" /\ pc' = "walk" /\ stack # << >>
      /\ n \notin DOMAIN memo /\ stack' = t
  BY DEF Enter, Popping, Top, Rest, Pushed, Popped, ChildFrames, callArgs, core
<1>2. Reached' = Reached /\ Reached \subseteq Node
  BY <1>1, ReachFacts DEF Reached, IInv
<1>3. WalkInv
  BY <1>1 DEF IInv
<1>4. NonEmpty(stack, Frames(Reached))
  BY <1>1, <1>3 DEF WalkInv, NonEmpty
<1>5. n \in Reached
  <2>1. stack[Len(stack)] \in Frames(Reached)
    BY <1>4, PopFacts
  <2>2. QED
    BY <2>1 DEF Frames
<1>6. /\ kids \in Seq(Reached) /\ ChildSet(graph, n) = Seq2Set(kids)
  <2>1. kids \in Seq(Node) /\ ChildSet(graph, n) = Seq2Set(kids)
    BY <1>2, <1>3, <1>5, KidsFacts DEF IInv, WalkInv
  <2>2. Len(kids) \in Nat /\ kids \in [1..Len(kids) -> Node]
    BY <2>1, LenProperties
  <2>3. \A i \in 1..Len(kids) : kids[i] \in Reached
    BY <1>5, <2>1, ReachFacts DEF IInv, Reached, Seq2Set
  <2>4. kids \in [1..Len(kids) -> Reached]
    BY <2>2, <2>3
  <2>5. QED
    BY <2>1, <2>2, <2>4, SeqDef
<1>7. PICK L \in [Reached -> Nat] :
        /\ IncreasingLabels(graph, Reached, L)
        /\ StackInv(graph, root, stack, DOMAIN memo, L)
  BY <1>3 DEF WalkInv
<1>8. t \in Seq(Frames(Reached)) /\ StackInv(graph, root, t, DOMAIN memo, L)
  BY <1>1, <1>4, <1>6, <1>7, PushChildren
<1> HIDE DEF t
<1>9. WalkInv'
  BY <1>1, <1>2, <1>3, <1>7, <1>8 DEF WalkInv
<1>10. MemoInv' /\ BuildsInv'
  BY <1>1, <1>2 DEF IInv, MemoInv, BuildsInv
<1>11. QED
  BY <1>1, <1>9, <1>10 DEF IInv

LEMMA ExtendedDomain ==
  ASSUME NEW f, NEW x, NEW y
  PROVE  DOMAIN Extended(f, x, y) = DOMAIN f \cup {x}
BY DEF Extended

\* The payload of n is computed for the first time, and its children have
\* theirs.
LEMMA WalkBuilds ==
  ASSUME IInv, Build
  PROVE  IInv'
<1> DEFINE n == stack[Len(stack)].node
<1>1. /\ graph' = graph /\ root' = root
      /\ builds' = [builds EXCEPT ![n] = @ + 1]
      /\ pc = "walk" /\ pc' = "walk" /\ stack # << >>
      /\ stack[Len(stack)].leaving /\ stack' = Popped(stack)
  BY DEF Build, Register, Popping, Top, Rest, Popped, callArgs
<1>2. DOMAIN memo' = DOMAIN memo \cup {n}
  <2>1. PICK id : memo' = Extended(memo, n, id)
    BY DEF Build, Top
  <2>2. QED
    BY <2>1, ExtendedDomain
<1>3. Reached' = Reached /\ Reached \subseteq Node
  BY <1>1, ReachFacts DEF Reached, IInv
<1>4. WalkInv
  BY <1>1 DEF IInv
<1>5. NonEmpty(stack, Frames(Reached))
  BY <1>1, <1>4 DEF WalkInv, NonEmpty
<1>6. PICK L \in [Reached -> Nat] :
        /\ IncreasingLabels(graph, Reached, L)
        /\ StackInv(graph, root, stack, DOMAIN memo, L)
  BY <1>4 DEF WalkInv
<1>7. /\ n \in Reached \ DOMAIN memo
      /\ ChildSet(graph, n) \subseteq DOMAIN memo
      /\ StackInv(graph, root, Popped(stack), DOMAIN memo \cup {n}, L)
  BY <1>1, <1>5, <1>6, PopFinished
<1>8. Popped(stack) \in Seq(Frames(Reached))
  BY <1>5, PopFacts
<1> HIDE DEF n
<1>9. WalkInv'
  BY <1>1, <1>2, <1>3, <1>4, <1>6, <1>7, <1>8 DEF WalkInv
<1>10. MemoInv'
  BY <1>1, <1>2, <1>3, <1>7 DEF IInv, MemoInv
<1>11. BuildsInv'
  <2>1. builds[n] = 0
    BY <1>1, <1>3, <1>7 DEF IInv, BuildsInv
  <2>2. builds' = [builds EXCEPT ![n] = 1]
    BY <1>1, <2>1
  <2>3. QED
    BY <1>1, <1>2, <1>3, <1>7, <2>2 DEF IInv, BuildsInv
<1>12. QED
  BY <1>1, <1>9, <1>10, <1>11 DEF IInv

LEMMA WalkCollides ==
  ASSUME IInv, DetectCollision
  PROVE  IInv'
<1> DEFINE n == stack[Len(stack)].node
<1>1. /\ graph' = graph /\ root' = root /\ memo' = memo
      /\ builds' = [builds EXCEPT ![n] = @ + 1]
      /\ pc = "walk" /\ pc' = "done" /\ stack # << >>
      /\ stack[Len(stack)].leaving
  BY DEF DetectCollision, Raise, Register, Popping, Top, callArgs
<1>2. Reached' = Reached /\ Reached \subseteq Node
  BY <1>1, ReachFacts DEF Reached, IInv
<1>3. WalkInv
  BY <1>1 DEF IInv
<1>4. NonEmpty(stack, Frames(Reached))
  BY <1>1, <1>3 DEF WalkInv, NonEmpty
<1>5. n \in Reached \ DOMAIN memo
  <2>1. PICK L \in [Reached -> Nat] :
          StackInv(graph, root, stack, DOMAIN memo, L)
    BY <1>3 DEF WalkInv
  <2>2. QED
    BY <1>1, <1>4, <2>1, PopFinished
<1> HIDE DEF n
<1>6. BuildsInv'
  <2>1. builds[n] = 0
    BY <1>1, <1>2, <1>5 DEF IInv, BuildsInv
  <2>2. builds' = [builds EXCEPT ![n] = 1]
    BY <1>1, <2>1
  <2>3. QED
    BY <1>1, <2>2 DEF IInv, BuildsInv
<1>7. QED
  BY <1>1, <1>2, <1>6 DEF IInv, MemoInv

\* The stack is empty: the root is finished, and so is what it reaches.
LEMMA WalkEnds ==
  ASSUME IInv, BeginPrune
  PROVE  IInv'
<1>1. /\ graph' = graph /\ root' = root /\ memo' = memo /\ builds' = builds
      /\ pc = "walk" /\ pc' = "prune" /\ stack = << >>
  BY DEF BeginPrune, callArgs, core
<1>2. Reached' = Reached /\ Reached \subseteq Node
  BY <1>1, ReachFacts DEF Reached, IInv
<1>3. Len(stack) = 0
  BY <1>1
<1>4. root \in DOMAIN memo
  <2>1. Awaited(root, stack, DOMAIN memo)
    BY <1>1 DEF IInv, WalkInv, StackInv
  <2>2. QED
    BY <1>3, <2>1 DEF Awaited
<1>5. Reached \subseteq DOMAIN memo
  <2>1. DOMAIN memo \in SUBSET Node
    BY <1>2 DEF IInv, MemoInv
  <2>2. QED
    BY <1>4, <2>1, ReachLeast DEF IInv, MemoInv, Reached
<1>6. MemoInv' /\ BuildsInv'
  BY <1>1, <1>2 DEF IInv, MemoInv, BuildsInv
<1>7. QED
  BY <1>1, <1>2, <1>5, <1>6 DEF IInv

LEMMA InvNext == IInv /\ [Next]_vars => IInv'
<1>1. SUFFICES ASSUME IInv, [Next]_vars PROVE IInv'
  OBVIOUS
<1>2. CASE RejectConfig \/ AcceptConfig \/ ValidationFails \/ FoldEscapes
  BY <1>1, <1>2, OtherSteps
     DEF RejectConfig, AcceptConfig, FoldEscapes, ValidationFails, Raise, callArgs, core
<1>3. CASE PruneSeen \/ PruneVisit \/ AssembleTooComplex \/ Assemble
  BY <1>1, <1>3, OtherSteps
     DEF PruneSeen, PruneVisit, AssembleTooComplex, Assemble, Raise, callArgs, core
<1>4. CASE ValidationPasses
  BY <1>1, <1>4, WalkBegins
<1>5. CASE SkipMemoized
  BY <1>1, <1>5, WalkSkips
<1>6. CASE Enter
  BY <1>1, <1>6, WalkEnters
<1>7. CASE Build
  BY <1>1, <1>7, WalkBuilds
<1>8. CASE DetectCollision
  BY <1>1, <1>8, WalkCollides
<1>9. CASE BeginPrune
  BY <1>1, <1>9, WalkEnds
<1>10. CASE UNCHANGED vars
  <2>1. /\ graph' = graph /\ root' = root /\ memo' = memo /\ builds' = builds
        /\ pc' = pc /\ stack' = stack
    BY <1>10 DEF vars
  <2>2. Reached' = Reached
    BY <2>1 DEF Reached
  <2>3. WalkInv => WalkInv'
    BY <2>1, <2>2 DEF WalkInv
  <2>4. MemoInv' /\ BuildsInv'
    BY <1>1, <2>1, <2>2 DEF IInv, MemoInv, BuildsInv
  <2>5. QED
    BY <1>1, <2>1, <2>2, <2>3, <2>4 DEF IInv
<1>11. QED
  BY <1>1, <1>2, <1>3, <1>4, <1>5, <1>6, <1>7, <1>8, <1>9, <1>10 DEF Next

\* The traversal of _canonicalize_core keeps its invariant, whatever graph
\* validation accepted and whatever the digests are.
THEOREM InvariantHolds == Spec => []IInv
BY FreshInit, InvFresh, InvNext, PTL DEF Spec

\* _canonicalize_core computes one payload per reachable object, after those
\* of its children, for every accepted graph, however it is shared and however
\* digests collide.
THEOREM CanonicalizedOnce == Spec => []BuiltOnce
<1>1. IInv => BuiltOnce
  <2>1. ASSUME IInv, NEW n \in Node PROVE builds[n] <= 1
    BY <2>1 DEF IInv, BuildsInv
  <2>2. ASSUME IInv, pc = "prune" PROVE DOMAIN memo = Reach(graph, root)
    BY <2>2 DEF IInv, MemoInv, Reached
  <2>3. QED
    BY <2>1, <2>2 DEF BuiltOnce, IInv, MemoInv
<1>2. QED
  BY <1>1, InvariantHolds, PTL

-----------------------------------------------------------------------------
(* What a payload is, given that its children have theirs in the table.    *)

\* p can stand in the table: it refers to the table only, and nothing is left
\* to normalize at it.
PayloadIn(p, table) ==
  /\ p.type \in SupportedTypes
  /\ p.kids \in Seq(DOMAIN table)
  /\ p.num \in Decimals
  /\ p.type \in MergedTypes => p.kids # << >>
  /\ Normal(p, PayloadsOf(p.kids, table))

TableIn(table) ==
  /\ DOMAIN table \subseteq Nat
  /\ \A id \in DOMAIN table : PayloadIn(table[id], table)

\* rec is an object that validation accepts, with children ids.
SourceOK(rec, ids) ==
  /\ rec.type \in SupportedTypes
  /\ rec.type \in DOMAIN Arity => Len(ids) = Arity[rec.type]
  /\ rec.type \in MergedTypes => ids # << >>
  /\ rec.type = "Number" =>
       IntegerDec(rec.val) \in Decimals /\ InBounds(IntegerDec(rec.val))

LEMMA PayloadsNumbered ==
  ASSUME NEW table, TableIn(table), NEW ids \in Seq(DOMAIN table)
  PROVE  Numbered(PayloadsOf(ids, table))
<1> DEFINE s == PayloadsOf(ids, table)
<1>1. /\ Len(ids) \in Nat
      /\ Len(s) = Len(ids)
      /\ \A i \in 1..Len(ids) : ids[i] \in DOMAIN table /\ s[i] = table[ids[i]]
  BY PayloadsFacts
<1> HIDE DEF s
<1>2. \A id \in DOMAIN table : table[id].num \in Decimals
  BY DEF TableIn, PayloadIn
<1>3. \A i \in 1..Len(s) : s[i].num \in Decimals
  BY <1>1, <1>2
<1>4. Numbered(s)
  BY <1>1, <1>3 DEF Numbered
<1>5. QED
  BY <1>4 DEF s

\* A folded literal is canonical.
LEMMA NumberIn ==
  ASSUME NEW table, NEW u, NEW a \in Decimals, InBounds(a)
  PROVE  PayloadIn(NumberPayload(u, a), table)
<1> DEFINE p == NumberPayload(u, a)
<1>1. p.type = "Number" /\ p.kids = << >> /\ p.num = Canonical(a)
  BY DEF NumberPayload, Payload
<1> HIDE DEF p
<1>2. Canonical(a) \in Decimals /\ Canonical(Canonical(a)) = Canonical(a)
  BY CanonicalFacts, CanonicalTwice
<1>3. InBounds(Canonical(a))
  <2> DEFINE c == Canonical(a)
  <2>1. Canonical(c) = c
    BY <1>2
  <2>2. c.coeff < TenTo[MaxCoeffDigits] /\ c.exp \in ExpMin..ExpMax
    BY DEF InBounds
  <2> HIDE DEF c
  <2>3. InBounds(c)
    BY <2>1, <2>2 DEF InBounds
  <2>4. QED
    BY <2>3 DEF c
<1>4. Normal(p, PayloadsOf(p.kids, table))
  BY <1>1, <1>2, <1>3 DEF Normal, MergedTypes, CollectionTypes
<1>5. p.kids \in Seq(DOMAIN table)
  BY <1>1
<1>6. QED
  BY <1>1, <1>2, <1>4, <1>5
     DEF PayloadIn, p, SupportedTypes, ScalarTypes, MergedTypes, CollectionTypes

IsPlainConstant(p) == p.type = "BooleanConstant" /\ p.kids = << >> /\ p.num = DecZero

LEMMA BooleanIn ==
  ASSUME NEW table, NEW p, IsPlainConstant(p)
  PROVE  PayloadIn(p, table)
<1>1. p.type = "BooleanConstant" /\ p.kids = << >> /\ p.num = DecZero
  BY DEF IsPlainConstant
<1>2. Normal(p, PayloadsOf(p.kids, table))
  BY <1>1 DEF Normal, MergedTypes, CollectionTypes
<1>3. p.kids \in Seq(DOMAIN table)
  BY <1>1
<1>4. QED
  BY <1>1, <1>2, <1>3, ZeroFacts
     DEF PayloadIn, SupportedTypes, BooleanTypes, MergedTypes, CollectionTypes

LEMMA NegInBounds ==
  ASSUME NEW a \in Decimals, InBounds(a)
  PROVE  InBounds(ExactNeg(a))
<1> DEFINE b == ExactNeg(a)
<1>1. CASE a.coeff = 0
  <2>1. b = DecZero /\ Canonical(a) = DecZero /\ Canonical(b) = DecZero
    BY <1>1, NegFacts, ZeroFacts DEF Canonical
  <2>2. QED
    BY <2>1 DEF InBounds
<1>2. CASE a.coeff # 0
  <2>1. b.coeff = a.coeff /\ b.exp = a.exp
    BY <1>2, NegFacts
  <2> HIDE DEF b
  <2> DEFINE k == TrailingZeros(a.coeff)
  <2>2. /\ Canonical(a).coeff = a.coeff \div TenTo[k] /\ Canonical(a).exp = a.exp + k
        /\ Canonical(b).coeff = a.coeff \div TenTo[k] /\ Canonical(b).exp = a.exp + k
    BY <1>2, <2>1, DecFacts DEF Canonical
  <2>3. QED
    BY <2>2 DEF InBounds, b
<1>3. QED
  BY <1>1, <1>2

LEMMA MulCommutes ==
  ASSUME NEW a \in Decimals, NEW b \in Decimals
  PROVE  ExactMul(a, b) = ExactMul(b, a)
<1>1. /\ a.coeff \in Nat /\ a.exp \in Int /\ a.neg \in BOOLEAN
      /\ b.coeff \in Nat /\ b.exp \in Int /\ b.neg \in BOOLEAN
  BY DEF Decimals
<1>2. a.coeff * b.coeff = b.coeff * a.coeff /\ a.exp + b.exp = b.exp + a.exp
  BY <1>1
<1>3. (a.neg # b.neg) = (b.neg # a.neg)
  OBVIOUS
<1>4. QED
  BY <1>2, <1>3, Zenon DEF ExactMul

\* An operator node with a fixed number of operands.
LEMMA OperatorIn ==
  ASSUME NEW table, TableIn(table), NEW ids \in Seq(DOMAIN table), NEW rec,
         SourceOK(rec, ids), rec.type \notin MergedTypes
  PROVE  PayloadIn(OperatorPayload(rec, ids, PayloadsOf(ids, table)), table)
<1> DEFINE kids == PayloadsOf(ids, table)
           kept == Payload(rec.type, ids, "none", 0, DecZero, "")
           p == OperatorPayload(rec, ids, kids)
<1>1. /\ Len(ids) \in Nat /\ Len(kids) = Len(ids)
      /\ \A i \in 1..Len(ids) : ids[i] \in DOMAIN table /\ kids[i] = table[ids[i]]
  BY PayloadsFacts
<1>2. \A i \in 1..Len(ids) :
        /\ PayloadIn(kids[i], table) /\ kids[i].num \in Decimals
        /\ IsLiteral(kids[i]) => InBounds(kids[i].num)
  <2>1. ASSUME NEW id \in DOMAIN table
        PROVE  /\ PayloadIn(table[id], table) /\ table[id].num \in Decimals
               /\ IsLiteral(table[id]) => InBounds(table[id].num)
    BY <2>1 DEF TableIn, PayloadIn, Normal, IsLiteral
  <2>2. QED
    BY <1>1, <2>1
<1>3. kept.type = rec.type /\ kept.kids = ids /\ kept.num = DecZero
  BY DEF Payload
<1>4. /\ rec.type \in SupportedTypes
      /\ rec.type \in DOMAIN Arity => Len(ids) = Arity[rec.type]
      /\ rec.type = "Number" =>
           IntegerDec(rec.val) \in Decimals /\ InBounds(IntegerDec(rec.val))
  BY DEF SourceOK
<1> HIDE DEF kept
\* What is left to show of a node that is kept.
<1>5. ASSUME NEW q, q.type = rec.type, q.num = DecZero,
             q.kids \in Seq(DOMAIN table), rec.type # "Number",
             Normal(q, PayloadsOf(q.kids, table))
      PROVE  PayloadIn(q, table)
  BY <1>4, <1>5, ZeroFacts DEF PayloadIn
<1>6. CASE rec.type = "Number"
  <2>1. p = NumberPayload(rec.unit, IntegerDec(rec.val))
    BY <1>6 DEF OperatorPayload
  <2>2. QED
    BY <1>4, <1>6, <2>1, NumberIn
<1>7. CASE rec.type \in {"Observable", "Payment"}
  <2> DEFINE q == Payload(rec.type, ids, rec.unit, rec.val, DecZero, "")
  <2>1. p = q
    BY <1>7, Zenon DEF OperatorPayload
  <2> HIDE DEF p
  <2>2. p.type = rec.type /\ p.kids = ids /\ p.num = DecZero
    <3>1. q.type = rec.type /\ q.kids = ids /\ q.num = DecZero
      BY DEF Payload
    <3> HIDE DEF q
    <3>2. QED
      BY <2>1, <3>1
  <2>3. Normal(p, PayloadsOf(p.kids, table))
    BY <1>7, <2>2 DEF Normal, MergedTypes, CollectionTypes
  <2>4. QED
    BY <1>5, <1>7, <2>2, <2>3 DEF p
<1>8. CASE rec.type = "BooleanConstant"
  <2>1. p = BooleanPayload(rec.val = 1)
    BY <1>8 DEF OperatorPayload
  <2> HIDE DEF p
  <2>2. IsPlainConstant(p)
    BY <2>1 DEF BooleanPayload, Payload, IsPlainConstant
  <2>3. QED
    BY <2>2, BooleanIn DEF p
<1>9. CASE rec.type \in {"Zero", "Divide", "Both", "Scale"}
  <2>1. p = kept
    BY <1>9 DEF OperatorPayload, kept
  <2>2. Normal(kept, PayloadsOf(kept.kids, table))
    BY <1>3, <1>9 DEF Normal, MergedTypes, CollectionTypes
  <2>3. QED
    BY <1>3, <1>5, <1>9, <2>1, <2>2
<1>10. CASE rec.type = "Negate"
  <2>1. Len(ids) = 1 /\ 1 \in 1..Len(ids)
    BY <1>4, <1>10 DEF Arity
  <2>2. CASE AllLiterals(kids)
    <3>1. p = NumberPayload(rec.unit, ExactNeg(kids[1].num))
      BY <1>10, <2>2 DEF OperatorPayload
    <3>2. IsLiteral(kids[1])
      BY <1>1, <2>1, <2>2 DEF AllLiterals
    <3>3. ExactNeg(kids[1].num) \in Decimals /\ InBounds(ExactNeg(kids[1].num))
      BY <1>2, <2>1, <3>2, NegFacts, NegInBounds
    <3>4. QED
      BY <3>1, <3>3, NumberIn
  <2>3. CASE ~AllLiterals(kids)
    <3>1. p = kept
      BY <1>10, <2>3 DEF OperatorPayload, kept
    <3>2. Normal(kept, kids)
      BY <1>3, <1>10, <2>3 DEF Normal, MergedTypes, CollectionTypes
    <3>3. QED
      BY <1>3, <1>5, <1>10, <3>1, <3>2
  <2>4. QED
    BY <2>2, <2>3
<1>11. CASE rec.type = "Subtract"
  <2> DEFINE num == ExactSub(kids[1].num, kids[2].num)
  <2>1. Len(ids) = 2 /\ 1 \in 1..Len(ids) /\ 2 \in 1..Len(ids)
    BY <1>4, <1>11 DEF Arity
  <2>2. num \in Decimals
    BY <1>2, <2>1, SubFacts
  <2>3. CASE AllLiterals(kids) /\ InBounds(num)
    <3>1. p = NumberPayload(rec.unit, num)
      BY <1>11, <2>3 DEF OperatorPayload, Fold
    <3>2. QED
      BY <2>2, <2>3, <3>1, NumberIn
  <2>4. CASE ~(AllLiterals(kids) /\ InBounds(num))
    <3>1. p = kept
      BY <1>11, <2>4 DEF OperatorPayload, Fold, kept
    <3>2. Normal(kept, kids)
      BY <1>3, <1>11, <2>4 DEF Normal, MergedTypes, CollectionTypes
    <3>3. QED
      BY <1>3, <1>5, <1>11, <3>1, <3>2
  <2>5. QED
    BY <2>3, <2>4
<1>12. CASE rec.type = "Comparison"
  <2>1. CASE AllLiterals(kids)
    <3>1. p = BooleanPayload(CompareBy(rec.op, kids[1].num, kids[2].num))
      BY <1>12, <2>1 DEF OperatorPayload
    <3> HIDE DEF p
    <3>2. IsPlainConstant(p)
      BY <3>1 DEF BooleanPayload, Payload, IsPlainConstant
    <3>3. QED
      BY <3>2, BooleanIn DEF p
  <2>2. CASE ~AllLiterals(kids)
    <3>1. p = Payload(rec.type, ids, "none", 0, DecZero, rec.op)
      BY <1>12, <2>2 DEF OperatorPayload, kept
    <3>2. p.type = rec.type /\ p.kids = ids /\ p.num = DecZero
      BY <3>1 DEF kept, Payload
    <3>3. Normal(p, kids)
      BY <1>12, <2>2, <3>2 DEF Normal, MergedTypes, CollectionTypes
    <3> HIDE DEF p
    <3>4. QED
      BY <1>5, <1>12, <3>2, <3>3 DEF p
  <2>3. QED
    BY <2>1, <2>2
<1>13. CASE rec.type = "Not"
  <2>1. Len(ids) = 1 /\ 1 \in 1..Len(ids)
    BY <1>4, <1>13 DEF Arity
  <2>2. CASE IsConstant(kids[1])
    <3>1. p = BooleanPayload(kids[1].val = 0)
      BY <1>13, <2>2 DEF OperatorPayload
    <3> HIDE DEF p
    <3>2. IsPlainConstant(p)
      BY <3>1 DEF BooleanPayload, Payload, IsPlainConstant
    <3>3. QED
      BY <3>2, BooleanIn DEF p
  <2>3. CASE ~IsConstant(kids[1])
    <3>1. p = kept
      BY <1>13, <2>3 DEF OperatorPayload, kept
    <3>2. ~AllConstants(kids)
      BY <1>1, <2>1, <2>3 DEF AllConstants
    <3>3. Normal(kept, kids)
      BY <1>3, <1>13, <3>2 DEF Normal, MergedTypes, CollectionTypes
    <3>4. QED
      BY <1>3, <1>5, <1>13, <3>1, <3>3
  <2>4. QED
    BY <2>2, <2>3
<1>14. CASE rec.type \in {"ConditionalValue", "ConditionalContract"}
  <2>1. Len(ids) = 3 /\ 2 \in 1..Len(ids) /\ 3 \in 1..Len(ids)
    <3>1. rec.type \in DOMAIN Arity /\ Arity[rec.type] = 3
      BY <1>14 DEF Arity
    <3>2. Len(ids) = 3
      BY <1>4, <3>1
    <3>3. QED
      BY <3>2
  <2>2. CASE IsConstant(kids[1])
    <3>1. p = IF kids[1].val = 1 THEN kids[2] ELSE kids[3]
      BY <1>14, <2>2 DEF OperatorPayload
    <3>2. QED
      BY <1>2, <2>1, <3>1
  <2>3. CASE ~IsConstant(kids[1])
    <3>1. p = kept
      BY <1>14, <2>3 DEF OperatorPayload, kept
    <3>2. Normal(kept, kids)
      BY <1>3, <1>14, <2>3 DEF Normal, MergedTypes, CollectionTypes
    <3>3. QED
      BY <1>3, <1>5, <1>14, <3>1, <3>2
  <2>4. QED
    BY <2>2, <2>3
<1>15. CASE rec.type = "Multiply"
  <2> DEFINE num == ExactMul(kids[1].num, kids[2].num)
             product == Payload(rec.type, Factors(ids), "none", 0, DecZero, "")
  <2>1. Len(ids) = 2 /\ 1 \in 1..Len(ids) /\ 2 \in 1..Len(ids)
    BY <1>4, <1>15 DEF Arity
  <2>2. num \in Decimals
    BY <1>2, <2>1, MulFacts
  <2>3. CASE AllLiterals(kids) /\ InBounds(num)
    <3>1. p = NumberPayload(rec.unit, num)
      BY <1>15, <2>3 DEF OperatorPayload, Fold
    <3>2. QED
      BY <2>2, <2>3, <3>1, NumberIn
  <2>4. CASE ~(AllLiterals(kids) /\ InBounds(num))
    <3>1. p = product
      BY <1>15, <2>4 DEF OperatorPayload, Fold, kept
    <3>2. product.type = rec.type /\ product.kids = Factors(ids) /\ product.num = DecZero
      BY DEF kept, Payload
    <3> HIDE DEF product, p
    <3>3. PICK a \in DOMAIN table, b \in DOMAIN table :
             /\ Factors(ids) = << a, b >> /\ a <= b
             /\ \/ a = ids[1] /\ b = ids[2]
                \/ a = ids[2] /\ b = ids[1]
      <4>1. ids[1] \in Nat /\ ids[2] \in Nat /\ ids[1] \in DOMAIN table /\ ids[2] \in DOMAIN table
        BY <1>1, <2>1 DEF TableIn
      <4>2. CASE ids[1] <= ids[2]
        BY <4>1, <4>2 DEF Factors
      <4>3. CASE ~(ids[1] <= ids[2])
        <5>1. ids[2] <= ids[1]
          BY <4>1, <4>3
        <5>2. QED
          BY <4>1, <4>3, <5>1 DEF Factors
      <4>4. QED
        BY <4>2, <4>3
    <3>4. product.kids \in Seq(DOMAIN table) /\ Len(product.kids) = 2
      BY <3>2, <3>3
    <3> DEFINE facts == PayloadsOf(product.kids, table)
    <3>5. Len(facts) = 2 /\ facts[1] = table[a] /\ facts[2] = table[b]
      <4>1. product.kids[1] = a /\ product.kids[2] = b
        BY <3>2, <3>3
      <4>2. 1 \in 1..2 /\ 2 \in 1..2
        OBVIOUS
      <4>3. QED
        BY <3>4, <4>1, <4>2, PayloadsFacts
    <3>6. kids[1] = table[ids[1]] /\ kids[2] = table[ids[2]] /\ Len(kids) = 2
      BY <1>1, <2>1
    <3> HIDE DEF facts
    <3>7. AllLiterals(facts) => AllLiterals(kids)
      <4>1. \A i \in 1..2 : i = 1 \/ i = 2
        OBVIOUS
      <4>2. 1 \in 1..2 /\ 2 \in 1..2
        OBVIOUS
      <4>3. QED
        BY <3>3, <3>5, <3>6, <4>1, <4>2 DEF AllLiterals
    <3>8. ExactMul(facts[1].num, facts[2].num) = num
      <4>1. kids[1].num \in Decimals /\ kids[2].num \in Decimals
        BY <1>2, <2>1
      <4>2. ExactMul(kids[2].num, kids[1].num) = num
        BY <4>1, MulCommutes
      <4>3. QED
        BY <3>3, <3>5, <3>6, <4>2
    <3>9. \A i \in 1..(Len(product.kids) - 1) : product.kids[i] <= product.kids[i + 1]
      <4>1. product.kids[1] <= product.kids[2] /\ \A i \in 1..(2 - 1) : i = 1
        BY <3>2, <3>3
      <4>2. QED
        BY <3>4, <4>1
    <3>10. Normal(product, facts)
      BY <1>15, <2>4, <3>2, <3>7, <3>8, <3>9 DEF Normal, MergedTypes, CollectionTypes
    <3>11. QED
      BY <1>5, <1>15, <3>1, <3>2, <3>4, <3>10 DEF facts, p
  <2>5. QED
    BY <2>3, <2>4
<1>16. QED
  BY <1>4, <1>6, <1>7, <1>8, <1>9, <1>10, <1>11, <1>12, <1>13, <1>14, <1>15
     DEF SupportedTypes, ScalarTypes, BooleanTypes, ContractTypes, MergedTypes,
         CollectionTypes

\* The best literal of the first i.
Bests(side, kids, n, f) ==
  /\ f[1] = kids[1].num
  /\ \A i \in 1..(n - 1) :
       f[i + 1] = IF ExactCmp(kids[i + 1].num, f[i]) = side THEN kids[i + 1].num ELSE f[i]

LEMMA ExtremeSteps ==
  ASSUME NEW side, NEW kids, Len(kids) \in Nat \ {0}
  PROVE  \E f : ExtremeOf(side, kids) = f[Len(kids)] /\ Bests(side, kids, Len(kids), f)
<1> DEFINE n == Len(kids)
           A == {kids[i].num : i \in 1..n}
           Eq(f) == f = [i \in 1..n |->
                           IF i = 1 THEN kids[1].num
                           ELSE IF ExactCmp(kids[i].num, f[i - 1]) = side
                           THEN kids[i].num ELSE f[i - 1]]
<1>1. n \in Nat \ {0} /\ 1 \in 1..n
  OBVIOUS
<1>2. ExtremeOf(side, kids) = (CHOOSE f : Eq(f))[n]
  BY DEF ExtremeOf
<1>3. \A i \in 1..n : kids[i].num \in A
  OBVIOUS
<1> HIDE DEF n, A
<1>5. \E f : Eq(f)
  <2> DEFINE F == [p \in A \X Nat |->
                     IF p[2] \in 1..n /\ ExactCmp(kids[p[2]].num, p[1]) = side
                     THEN kids[p[2]].num ELSE p[1]]
  <2>1. F \in [A \X Nat -> A]
    BY <1>3
  <2>2. \A a \in A : \A i \in Nat : i \in 1..n =>
          F[<<a, i>>] = IF ExactCmp(kids[i].num, a) = side THEN kids[i].num ELSE a
    BY DEF F
  <2> HIDE DEF F
  <2>3. kids[1].num \in A
    BY <1>1, <1>3
  <2>4. PICK g \in [0..n -> A] : Follows(g, n, kids[1].num, F)
    BY <1>1, <2>1, <2>3, Iterated
  <2>5. \A i \in 1..n : /\ g[i - 1] \in A /\ i \in Nat
                        /\ g[i] = IF ExactCmp(kids[i].num, g[i - 1]) = side
                                  THEN kids[i].num ELSE g[i - 1]
    <3>1. SUFFICES ASSUME NEW i \in 1..n
                   PROVE  /\ g[i - 1] \in A /\ i \in Nat
                          /\ g[i] = IF ExactCmp(kids[i].num, g[i - 1]) = side
                                    THEN kids[i].num ELSE g[i - 1]
      OBVIOUS
    <3>2. i - 1 \in 0..n /\ i \in Nat /\ g[i - 1] \in A
      BY <1>1
    <3>3. g[i] = F[<<g[i - 1], i>>]
      BY <2>4 DEF Follows
    <3>4. QED
      BY <2>2, <3>2, <3>3
  <2>6. g[1] = kids[1].num
    <3>1. g[0] = kids[1].num /\ 1 - 1 = 0
      BY <2>4 DEF Follows
    <3>2. g[1] = kids[1].num \/ g[1] = g[0]
      BY <1>1, <2>5, <3>1
    <3>3. QED
      BY <3>1, <3>2
  <2> DEFINE f == [i \in 1..n |-> g[i]]
  <2>7. ASSUME NEW i \in 1..n
        PROVE  f[i] = IF i = 1 THEN kids[1].num
                      ELSE IF ExactCmp(kids[i].num, f[i - 1]) = side
                      THEN kids[i].num ELSE f[i - 1]
    <3>1. i # 1 => i - 1 \in 1..n
      BY <1>1
    <3>2. i # 1 => f[i - 1] = g[i - 1]
      BY <3>1
    <3>3. QED
      BY <2>5, <2>6, <3>2
  <2>8. Eq(f)
    BY <2>7
  <2>9. QED
    BY <2>8
<1>6. PICK f : Eq(f) /\ f = CHOOSE h : Eq(h)
  BY <1>5
<1>7. \A i \in 1..n : f[i] = IF i = 1 THEN kids[1].num
                             ELSE IF ExactCmp(kids[i].num, f[i - 1]) = side
                             THEN kids[i].num ELSE f[i - 1]
  BY <1>6
<1> HIDE DEF Eq
<1>8. ASSUME NEW i \in 1..(n - 1)
      PROVE  f[i + 1] = IF ExactCmp(kids[i + 1].num, f[i]) = side THEN kids[i + 1].num ELSE f[i]
  <2>1. i + 1 \in 1..n /\ (i + 1) - 1 = i /\ i + 1 # 1
    BY <1>1
  <2>2. QED
    BY <1>7, <2>1
<1>9. f[1] = kids[1].num
  BY <1>1, <1>7
<1>10. Bests(side, kids, n, f)
  BY <1>8, <1>9 DEF Bests
<1>11. QED
  BY <1>2, <1>6, <1>10 DEF n

\* The greatest or least literal is one of the literals.
LEMMA ExtremeIsOne ==
  ASSUME NEW side, NEW kids, Len(kids) \in Nat \ {0}
  PROVE  \E i \in 1..Len(kids) : ExtremeOf(side, kids) = kids[i].num
<1> DEFINE n == Len(kids)
<1>1. PICK f : ExtremeOf(side, kids) = f[n] /\ Bests(side, kids, n, f)
  BY ExtremeSteps
<1>2. n \in Nat \ {0}
  OBVIOUS
<1> HIDE DEF n
<1> DEFINE T == {i \in 0..n : i = 0 \/ \E k \in 1..n : f[i] = kids[k].num}
<1>3. 0 \in T
  BY <1>2
<1>4. ASSUME NEW i \in 0..(n - 1), i \in T PROVE i + 1 \in T
  <2>1. i + 1 \in 1..n /\ i + 1 \in 0..n /\ (i # 0 => i \in 1..(n - 1))
    BY <1>2
  <2>2. i # 0 => f[i + 1] \in {f[i], kids[i + 1].num}
    BY <1>1, <2>1 DEF Bests
  <2>3. i = 0 => i + 1 = 1 /\ f[i + 1] = kids[1].num
    BY <1>1 DEF Bests
  <2>4. i # 0 => \E k \in 1..n : f[i] = kids[k].num
    BY <1>4
  <2>5. QED
    BY <2>1, <2>2, <2>3, <2>4
<1> HIDE DEF T
<1>5. n \in T
  <2>1. 0..n \subseteq T
    BY <1>2, <1>3, <1>4, Climb
  <2>2. QED
    BY <1>2, <2>1
<1>6. \E k \in 1..n : f[n] = kids[k].num
  BY <1>2, <1>5 DEF T
<1>7. QED
  BY <1>1, <1>6 DEF n

Unmerged(type, table) == {id \in DOMAIN table : table[id].type # type}

\* A collection of sorted operands, none of which is a collection of its type.
LEMMA CollectionIn ==
  ASSUME NEW table, TableIn(table), NEW rec, rec.type \in MergedTypes,
         NEW ids, ids \in NonEmptySeqs(Unmerged(rec.type, table)),
         \A i \in 1..(Len(ids) - 1) : ids[i] <= ids[i + 1]
  PROVE  PayloadIn(CollectionPayload(rec, ids, PayloadsOf(ids, table)), table)
<1> DEFINE kids == PayloadsOf(ids, table)
           kept == Payload(rec.type, ids, "none", 0, DecZero, "")
           p == CollectionPayload(rec, ids, kids)
<1>1. /\ ids \in Seq(DOMAIN table) /\ ids # << >> /\ Len(ids) \in Nat \ {0}
      /\ \A i \in 1..Len(ids) : table[ids[i]].type # rec.type
  <2>1. ids \in Seq(Unmerged(rec.type, table)) /\ ids # << >>
    BY DEF NonEmptySeqs
  <2>2. Unmerged(rec.type, table) \subseteq DOMAIN table
    BY DEF Unmerged
  <2>3. ids \in Seq(DOMAIN table)
    BY <2>1, <2>2, WiderSeq
  <2>4. \A i \in 1..Len(ids) : ids[i] \in Unmerged(rec.type, table)
    BY <2>1, ElementOfSeq
  <2>5. QED
    BY <2>1, <2>3, <2>4, EmptySeq, LenProperties DEF Unmerged
<1>2. /\ Len(kids) = Len(ids)
      /\ \A i \in 1..Len(ids) : ids[i] \in DOMAIN table /\ kids[i] = table[ids[i]]
  BY <1>1, PayloadsFacts
<1>3. \A i \in 1..Len(ids) :
        /\ kids[i].num \in Decimals
        /\ IsLiteral(kids[i]) => InBounds(kids[i].num)
  <2>1. ASSUME NEW id \in DOMAIN table
        PROVE  /\ table[id].num \in Decimals
               /\ IsLiteral(table[id]) => InBounds(table[id].num)
    BY <2>1 DEF TableIn, PayloadIn, Normal, IsLiteral
  <2>2. QED
    BY <1>2, <2>1
<1>4. kept.type = rec.type /\ kept.kids = ids /\ kept.num = DecZero
  BY DEF Payload
<1>5. \A i \in 1..Len(kids) : kids[i].type # rec.type
  BY <1>1, <1>2
<1>6. Numbered(kids)
  BY <1>1, PayloadsNumbered
<1> HIDE DEF kids, kept
<1>7. ASSUME \/ rec.type = "Add" /\ ~(AllLiterals(kids) /\ InBounds(SumOf(kids)))
             \/ rec.type \in {"Maximum", "Minimum"} /\ ~AllLiterals(kids)
             \/ rec.type \in {"AllOf", "AnyOf"} /\ ~AllConstants(kids)
      PROVE  PayloadIn(kept, table)
  <2>1. rec.type \in SupportedTypes
    BY DEF SupportedTypes, ScalarTypes, BooleanTypes, MergedTypes, CollectionTypes
  <2>2. Normal(kept, kids)
    BY <1>4, <1>5, <1>7 DEF Normal
  <2>3. QED
    BY <1>1, <1>4, <2>1, <2>2, ZeroFacts DEF PayloadIn, kids
<1>8. CASE rec.type = "Add"
  <2>1. CASE AllLiterals(kids) /\ InBounds(SumOf(kids))
    <3>1. p = NumberPayload(rec.unit, SumOf(kids))
      BY <1>8, <2>1 DEF CollectionPayload, Fold
    <3> HIDE DEF p
    <3>2. QED
      BY <1>6, <2>1, <3>1, SumTyped, NumberIn DEF p, kids
  <2>2. CASE ~(AllLiterals(kids) /\ InBounds(SumOf(kids)))
    <3>1. p = kept
      BY <1>8, <2>2 DEF CollectionPayload, Fold, kept
    <3>2. QED
      BY <1>7, <1>8, <2>2, <3>1 DEF kids
  <2>3. QED
    BY <2>1, <2>2
<1>9. CASE rec.type \in {"Maximum", "Minimum"}
  <2>1. CASE AllLiterals(kids)
    <3> DEFINE side == IF rec.type = "Maximum" THEN 1 ELSE -1
               x == ExtremeOf(side, kids)
    <3>1. p = NumberPayload(rec.unit, x)
      BY <1>9, <2>1 DEF CollectionPayload
    <3> HIDE DEF p, side
    <3>2. PICK i \in 1..Len(kids) : x = kids[i].num
      BY <1>1, <1>2, ExtremeIsOne
    <3>3. x \in Decimals /\ InBounds(x)
      BY <1>2, <1>3, <2>1, <3>2 DEF AllLiterals
    <3>4. QED
      BY <3>1, <3>3, NumberIn DEF p, kids
  <2>2. CASE ~AllLiterals(kids)
    <3>1. p = kept
      BY <1>9, <2>2 DEF CollectionPayload, kept
    <3>2. QED
      BY <1>7, <1>9, <2>2, <3>1 DEF kids
  <2>3. QED
    BY <2>1, <2>2
<1>10. CASE rec.type \in {"AllOf", "AnyOf"}
  <2>1. CASE AllConstants(kids)
    <3>1. IsPlainConstant(p)
      <4>1. CASE rec.type = "AllOf"
        BY <2>1, <4>1 DEF CollectionPayload, BooleanPayload, Payload, IsPlainConstant
      <4>2. CASE rec.type = "AnyOf"
        BY <2>1, <4>2 DEF CollectionPayload, BooleanPayload, Payload, IsPlainConstant
      <4>3. QED
        BY <1>10, <4>1, <4>2
    <3> HIDE DEF p
    <3>2. QED
      BY <3>1, BooleanIn DEF p, kids
  <2>2. CASE ~AllConstants(kids)
    <3>1. p = kept
      BY <1>10, <2>2 DEF CollectionPayload, kept
    <3>2. QED
      BY <1>7, <1>10, <2>2, <3>1 DEF kids
  <2>3. QED
    BY <2>1, <2>2
<1>11. QED
  BY <1>8, <1>9, <1>10 DEF MergedTypes, CollectionTypes

\* The operand lists that are merged into one.
OperandLists(type, ids, kids) ==
  [i \in 1..Len(ids) |-> IF kids[i].type = type THEN kids[i].kids ELSE << ids[i] >>]

\* The operands of a collection after nested ones have been merged into it.
LEMMA FlattenedIn ==
  ASSUME NEW table, NEW type, NEW ids \in Seq(DOMAIN table), ids # << >>, NEW U,
         \A i \in 1..Len(ids) :
           /\ table[ids[i]].type = type => table[ids[i]].kids \in NonEmptySeqs(U)
           /\ table[ids[i]].type # type => ids[i] \in U
  PROVE  /\ Flattened(type, ids, PayloadsOf(ids, table)) \in NonEmptySeqs(U)
         /\ Len(Flattened(type, ids, PayloadsOf(ids, table))) >= Len(ids)
         /\ OperandLists(type, ids, PayloadsOf(ids, table)) \in NonEmptySeqs(NonEmptySeqs(U))
         /\ Len(OperandLists(type, ids, PayloadsOf(ids, table))) = Len(ids)
<1> DEFINE kids == PayloadsOf(ids, table)
           n == Len(ids)
           A == NonEmptySeqs(U)
           ss == OperandLists(type, ids, kids)
<1>1. /\ n \in Nat \ {0} /\ Len(kids) = n
      /\ \A i \in 1..n : ids[i] \in DOMAIN table /\ kids[i] = table[ids[i]]
  BY PayloadsFacts, EmptySeq
<1>2. ASSUME NEW i \in 1..n PROVE ss[i] \in A
  <2>1. CASE kids[i].type = type
    BY <1>1, <2>1 DEF OperandLists
  <2>2. CASE kids[i].type # type
    <3>1. ids[i] \in U /\ ss[i] = << ids[i] >>
      BY <1>1, <2>2 DEF OperandLists
    <3>2. << ids[i] >> \in Seq(U) /\ << ids[i] >> # << >>
      BY <3>1
    <3>3. QED
      BY <3>1, <3>2 DEF NonEmptySeqs
  <2>3. QED
    BY <2>1, <2>2
<1>3. Flattened(type, ids, kids) = FlattenSeq(ss)
  BY <1>1 DEF Flattened, OperandLists
<1> HIDE DEF A, n
<1>4. ss \in [1..n -> A]
  BY <1>2 DEF n, OperandLists
<1> HIDE DEF ss
<1>5. ss \in Seq(A) /\ Len(ss) = n
  <2>1. ss \in Seq(A)
    BY <1>1, <1>4, SeqDef
  <2>2. QED
    BY <1>1, <1>4, <2>1, LenProperties
<1>6. ss # << >>
  BY <1>1, <1>5, EmptySeq
<1>7. FlattenSeq(ss) \in NonEmptySeqs(U) /\ Len(FlattenSeq(ss)) >= Len(ss)
  BY <1>5, <1>6, FlattenTyped DEF A, NonEmptySeqs
<1>8. ss \in NonEmptySeqs(A)
  BY <1>5, <1>6 DEF NonEmptySeqs
<1>9. QED
  BY <1>3, <1>5, <1>7, <1>8 DEF n, A, ss

LEMMA MergedOperands ==
  ASSUME NEW table, TableIn(table), NEW type \in MergedTypes,
         NEW ids \in Seq(DOMAIN table), ids # << >>
  PROVE  /\ Flattened(type, ids, PayloadsOf(ids, table))
              \in NonEmptySeqs(Unmerged(type, table))
         /\ OperandLists(type, ids, PayloadsOf(ids, table))
              \in NonEmptySeqs(NonEmptySeqs(Unmerged(type, table)))
         /\ Len(OperandLists(type, ids, PayloadsOf(ids, table))) = Len(ids)
<1> DEFINE U == Unmerged(type, table)
<1>1. \A i \in 1..Len(ids) : ids[i] \in DOMAIN table
  BY PayloadsFacts
<1>2. ASSUME NEW id \in DOMAIN table, table[id].type = type
      PROVE  table[id].kids \in NonEmptySeqs(U)
  <2> DEFINE p == table[id]
             below == PayloadsOf(p.kids, table)
  <2>1. p.type = type /\ PayloadIn(p, table)
    BY <1>2 DEF TableIn
  <2> HIDE DEF p
  <2>2. p.kids \in Seq(DOMAIN table) /\ p.kids # << >>
    BY <2>1 DEF PayloadIn
  <2>3. /\ Len(below) = Len(p.kids)
        /\ \A j \in 1..Len(p.kids) :
             p.kids[j] \in DOMAIN table /\ below[j] = table[p.kids[j]]
    BY <2>2, PayloadsFacts
  <2>4. \A j \in 1..Len(below) : below[j].type # type
    BY <2>1 DEF PayloadIn, Normal
  <2>5. \A j \in 1..Len(p.kids) : p.kids[j] \in U
    BY <2>3, <2>4 DEF Unmerged
  <2>6. p.kids \in Seq(U)
    BY <2>2, <2>5, NarrowerSeq
  <2>7. QED
    BY <2>2, <2>6 DEF NonEmptySeqs, p
<1>3. \A id \in DOMAIN table : table[id].type # type => id \in U
  BY DEF Unmerged
<1> HIDE DEF U
<1>4. QED
  BY <1>1, <1>2, <1>3, FlattenedIn DEF U

\* _build_payload makes a payload that can stand in the table.
LEMMA PayloadBuilt ==
  ASSUME NEW table, TableIn(table), NEW ids \in Seq(DOMAIN table), NEW rec,
         SourceOK(rec, ids)
  PROVE  /\ PayloadIn(PayloadOf(rec, ids, table), table)
         /\ rec.type \in MergedTypes =>
              SortedIds(Flattened(rec.type, ids, PayloadsOf(ids, table)))
                \in Seq(DOMAIN table)
<1> DEFINE kids == PayloadsOf(ids, table)
           flat == Flattened(rec.type, ids, kids)
           operands == SortedIds(flat)
           U == Unmerged(rec.type, table)
<1>1. ASSUME rec.type \in MergedTypes
      PROVE  /\ PayloadIn(CollectionPayload(rec, operands, PayloadsOf(operands, table)), table)
             /\ operands \in Seq(DOMAIN table)
  <2>1. flat \in NonEmptySeqs(U)
    BY <1>1, MergedOperands DEF SourceOK
  <2>2. U \in SUBSET Nat /\ U \subseteq DOMAIN table
    BY DEF Unmerged, TableIn
  <2> HIDE DEF U, flat
  <2>3. flat \in Seq(U) /\ flat # << >>
    BY <2>1 DEF NonEmptySeqs
  <2>4. /\ operands \in Seq(U) /\ Len(operands) = Len(flat)
        /\ \A i \in 1..(Len(flat) - 1) : operands[i] <= operands[i + 1]
    BY <2>2, <2>3, SortedFacts
  <2>5. operands # << >>
    BY <2>3, <2>4, EmptySeq
  <2> HIDE DEF operands
  <2>6. operands \in NonEmptySeqs(Unmerged(rec.type, table))
    BY <2>4, <2>5 DEF NonEmptySeqs, U
  <2>7. PayloadIn(CollectionPayload(rec, operands, PayloadsOf(operands, table)), table)
    BY <1>1, <2>4, <2>6, CollectionIn
  <2>8. operands \in Seq(DOMAIN table)
    BY <2>2, <2>4, WiderSeq
  <2>9. QED
    BY <2>7, <2>8
<1>2. rec.type \notin MergedTypes => PayloadIn(OperatorPayload(rec, ids, kids), table)
  BY OperatorIn
<1>3. QED
  BY <1>1, <1>2 DEF PayloadOf

\* The table only grows, and what it held it holds.
Grows(table, wider) ==
  /\ DOMAIN table \subseteq DOMAIN wider
  /\ \A id \in DOMAIN table : wider[id] = table[id]

LEMMA SamePayloads ==
  ASSUME NEW table, NEW wider, Grows(table, wider), NEW ids \in Seq(DOMAIN table)
  PROVE  PayloadsOf(ids, wider) = PayloadsOf(ids, table)
BY PayloadsFacts DEF PayloadsOf, Grows

\* ... so that a payload stays in the table, and an object would be given the
\* same payload again.
LEMMA PayloadStays ==
  ASSUME NEW table, NEW wider, Grows(table, wider), NEW p, PayloadIn(p, table)
  PROVE  PayloadIn(p, wider)
<1>1. p.kids \in Seq(DOMAIN wider)
  BY WiderSeq DEF PayloadIn, Grows
<1>2. PayloadsOf(p.kids, wider) = PayloadsOf(p.kids, table)
  BY SamePayloads DEF PayloadIn
<1>3. QED
  BY <1>1, <1>2 DEF PayloadIn

LEMMA PayloadAgain ==
  ASSUME NEW table, TableIn(table), NEW wider, Grows(table, wider),
         NEW ids \in Seq(DOMAIN table), NEW rec, SourceOK(rec, ids)
  PROVE  PayloadOf(rec, ids, wider) = PayloadOf(rec, ids, table)
<1>1. PayloadsOf(ids, wider) = PayloadsOf(ids, table)
  BY SamePayloads
<1> DEFINE operands == SortedIds(Flattened(rec.type, ids, PayloadsOf(ids, table)))
<1>2. rec.type \in MergedTypes => PayloadsOf(operands, wider) = PayloadsOf(operands, table)
  BY PayloadBuilt, SamePayloads
<1>3. QED
  BY <1>1, <1>2 DEF PayloadOf

-----------------------------------------------------------------------------
(* What validation has found out about an accepted object.                 *)

\* A number that validation accepts is one that its constructor let through.
LEMMA NumberAccepted ==
  ASSUME NEW g \in Graphs, NEW n \in Node, NodeAccepted(g, n),
         g[n].type = "Number"
  PROVE  IntegerDec(g[n].val) \in Decimals /\ InBounds(IntegerDec(g[n].val))
<1> DEFINE rec == g[n]
<1>1. WellTyped(rec)
  BY CanonicalAssumption
<1>2. rec.sound
  BY <1>1, LeafRules DEF NodeAccepted, WellTyped
<1>3. rec.val \in Int /\ InBounds(IntegerDec(rec.val))
  BY <1>1, <1>2 DEF WellTyped
<1>4. IntegerDec(rec.val) \in Decimals
  <2>1. DecAbs(rec.val) \in Nat
    BY <1>3 DEF DecAbs
  <2>2. QED
    BY <2>1 DEF IntegerDec, Dec, Decimals
<1>5. QED
  BY <1>3, <1>4

-----------------------------------------------------------------------------
(* Classes and units.                                                      *)

\* The payload p of rec is of the class of rec, and its value has its unit.
SameKind(rec, p, unit) ==
  /\ IsScalar(rec) => p.type \in ScalarTypes /\ unit = rec.unit
  /\ IsBoolean(rec) => p.type \in BooleanTypes
  /\ IsContract(rec) => p.type \in ContractTypes

\* rec has the operands that its class requires, with units that fit, and a
\* scalar states the unit that follows from them.
Fits(rec, kids, units) ==
  /\ OperandsFit(rec, kids)
  /\ UnitsFit(rec, units)
  /\ rec.type \in ScalarTypes =>
       rec.unit \in ValidUnits /\ DerivedUnit(rec, units) = rec.unit

LEMMA FitsNumber ==
  ASSUME NEW rec, rec.type \in {"Number", "Observable"}, rec.unit \in ValidUnits,
         NEW kids, Len(kids) = 0, NEW units
  PROVE  Fits(rec, kids, units)
<1>1. OperandsFit(rec, kids)
  BY DEF OperandsFit, Arity, ScalarTypes, CollectionTypes
<1>2. UnitsFit(rec, units)
  BY DEF UnitsFit
<1>3. DerivedUnit(rec, units) = rec.unit
  BY DEF DerivedUnit
<1>4. QED
  BY <1>1, <1>2, <1>3 DEF Fits

LEMMA FitsCollection ==
  ASSUME NEW rec, rec.type \in {"Add", "Maximum", "Minimum"}, rec.unit \in ValidUnits,
         NEW kids, NEW units, Len(kids) >= 2, Len(kids) \in Nat,
         DOMAIN units = 1..Len(kids),
         \A i \in 1..Len(kids) : kids[i].type \in ScalarTypes /\ units[i] = rec.unit
  PROVE  Fits(rec, kids, units)
<1>1. OperandsFit(rec, kids)
  BY DEF OperandsFit, Arity, ScalarTypes, CollectionTypes
<1>2. units[1] = rec.unit
  OBVIOUS
<1>3. UnitsFit(rec, units)
  BY <1>2 DEF UnitsFit
<1>4. DerivedUnit(rec, units) = rec.unit
  BY <1>2 DEF DerivedUnit
<1>5. QED
  BY <1>1, <1>3, <1>4 DEF Fits

LEMMA FitsBinary ==
  ASSUME NEW rec, rec.type \in {"Subtract", "Multiply", "Divide", "Comparison"},
         rec.type # "Comparison" => rec.unit \in ValidUnits,
         NEW kids, NEW units, Len(kids) = 2, DOMAIN units = 1..2,
         kids[1].type \in ScalarTypes, kids[2].type \in ScalarTypes,
         rec.type = "Subtract" => units[1] = units[2] /\ units[1] = rec.unit,
         rec.type = "Comparison" => units[1] = units[2],
         rec.type = "Multiply" => /\ ~(IsMoney(units[1]) /\ IsMoney(units[2]))
                                  /\ MultiplyUnit(units[1], units[2]) = rec.unit,
         rec.type = "Divide" => units[1] = rec.unit /\ units[2] = "scalar"
  PROVE  Fits(rec, kids, units)
<1>0. \A i \in 1..2 : i = 1 \/ i = 2
  OBVIOUS
<1>1. OperandsFit(rec, kids)
  BY <1>0 DEF OperandsFit, Arity, ScalarTypes, CollectionTypes
<1>2. UnitsFit(rec, units)
  BY <1>0 DEF UnitsFit
<1>3. rec.type \in ScalarTypes => DerivedUnit(rec, units) = rec.unit /\ rec.unit \in ValidUnits
  BY DEF DerivedUnit, ScalarTypes
<1>4. QED
  BY <1>1, <1>2, <1>3 DEF Fits

LEMMA FitsNegate ==
  ASSUME NEW rec, rec.type = "Negate", rec.unit \in ValidUnits,
         NEW kids, NEW units, Len(kids) = 1,
         kids[1].type \in ScalarTypes, units[1] = rec.unit
  PROVE  Fits(rec, kids, units)
<1>0. \A i \in 1..1 : i = 1
  OBVIOUS
<1>1. OperandsFit(rec, kids)
  BY <1>0 DEF OperandsFit, Arity, ScalarTypes, CollectionTypes
<1>2. UnitsFit(rec, units)
  BY DEF UnitsFit
<1>3. DerivedUnit(rec, units) = rec.unit
  BY DEF DerivedUnit
<1>4. QED
  BY <1>1, <1>2, <1>3 DEF Fits

LEMMA FitsConditional ==
  ASSUME NEW rec, rec.type \in {"ConditionalValue", "ConditionalContract"},
         NEW kids, NEW units, Len(kids) = 3, kids[1].type \in BooleanTypes,
         rec.type = "ConditionalValue" =>
           /\ rec.unit \in ValidUnits
           /\ kids[2].type \in ScalarTypes /\ kids[3].type \in ScalarTypes
           /\ units[2] = units[3] /\ units[2] = rec.unit,
         rec.type = "ConditionalContract" =>
           kids[2].type \in ContractTypes /\ kids[3].type \in ContractTypes
  PROVE  Fits(rec, kids, units)
<1>1. OperandsFit(rec, kids)
  <2>1. CASE rec.type = "ConditionalValue"
    BY <2>1 DEF OperandsFit, Arity, CollectionTypes, ScalarTypes
  <2>2. CASE rec.type = "ConditionalContract"
    BY <2>2 DEF OperandsFit, Arity, CollectionTypes, ScalarTypes
  <2>3. QED
    BY <2>1, <2>2
<1>2. UnitsFit(rec, units)
  BY DEF UnitsFit
<1>3. rec.type \in ScalarTypes => DerivedUnit(rec, units) = rec.unit /\ rec.unit \in ValidUnits
  BY DEF DerivedUnit, ScalarTypes
<1>4. QED
  BY <1>1, <1>2, <1>3 DEF Fits

LEMMA FitsCondition ==
  ASSUME NEW rec, rec.type \in {"BooleanConstant", "AllOf", "AnyOf", "Not"},
         NEW kids, NEW units,
         rec.type = "BooleanConstant" => Len(kids) = 0,
         rec.type = "Not" => Len(kids) = 1,
         rec.type \in {"AllOf", "AnyOf"} => Len(kids) >= 2,
         \A i \in 1..Len(kids) : kids[i].type \in BooleanTypes
  PROVE  Fits(rec, kids, units)
<1>1. OperandsFit(rec, kids)
  <2>1. CASE rec.type = "BooleanConstant"
    BY <2>1 DEF OperandsFit, Arity, CollectionTypes, ScalarTypes
  <2>2. CASE rec.type = "Not"
    BY <2>2 DEF OperandsFit, Arity, CollectionTypes, ScalarTypes
  <2>3. CASE rec.type \in {"AllOf", "AnyOf"}
    BY <2>3 DEF OperandsFit, Arity, CollectionTypes, ScalarTypes
  <2>4. QED
    BY <2>1, <2>2, <2>3
<1>2. UnitsFit(rec, units) /\ rec.type \notin ScalarTypes
  BY DEF UnitsFit, ScalarTypes
<1>3. QED
  BY <1>1, <1>2 DEF Fits

LEMMA FitsContract ==
  ASSUME NEW rec, rec.type \in {"Zero", "Payment", "Both", "Scale"},
         NEW kids, NEW units,
         rec.type = "Zero" => Len(kids) = 0,
         rec.type = "Payment" => /\ Len(kids) = 1 /\ kids[1].type \in ScalarTypes
                                 /\ IsMoney(rec.unit) /\ units[1] = rec.unit,
         rec.type = "Scale" => /\ Len(kids) = 2 /\ kids[1].type \in ScalarTypes
                               /\ kids[2].type \in ContractTypes
                               /\ units[1] = "scalar",
         rec.type = "Both" => /\ Len(kids) >= 2
                              /\ \A i \in 1..Len(kids) : kids[i].type \in ContractTypes
  PROVE  Fits(rec, kids, units)
<1>0. \A i \in 1..1 : i = 1
  OBVIOUS
<1>1. OperandsFit(rec, kids)
  <2>1. CASE rec.type = "Zero"
    BY <2>1 DEF OperandsFit, Arity, CollectionTypes, ScalarTypes
  <2>2. CASE rec.type = "Payment"
    <3>1. Len(kids) = Arity[rec.type] /\ rec.type \notin CollectionTypes
      BY <2>2 DEF Arity, CollectionTypes
    <3>2. rec.type \notin ScalarTypes
      BY <2>2 DEF ScalarTypes
    <3>3. \A i \in 1..Len(kids) : kids[i].type \in ScalarTypes
      BY <1>0, <2>2
    <3>4. QED
      BY <2>2, <3>1, <3>2, <3>3 DEF OperandsFit
  <2>3. CASE rec.type = "Scale"
    <3>1. Len(kids) = Arity[rec.type] /\ rec.type \notin CollectionTypes
      BY <2>3 DEF Arity, CollectionTypes
    <3>2. rec.type \notin ScalarTypes
      BY <2>3 DEF ScalarTypes
    <3>3. kids[1].type \in ScalarTypes /\ kids[2].type \in ContractTypes
      BY <2>3
    <3>4. QED
      BY <2>3, <3>1, <3>2, <3>3, Zenon DEF OperandsFit
  <2>4. CASE rec.type = "Both"
    BY <2>4 DEF OperandsFit, Arity, CollectionTypes, ScalarTypes
  <2>5. QED
    BY <2>1, <2>2, <2>3, <2>4
<1>2. UnitsFit(rec, units) /\ rec.type \notin ScalarTypes
  BY DEF UnitsFit, ScalarTypes
<1>4. QED
  BY <1>1, <1>2 DEF Fits

\* What validation has found out about an accepted object holds of the
\* payloads that its children were given.
LEMMA Accepted ==
  ASSUME NEW g \in Graphs, NEW n \in Node, NodeAccepted(g, n),
         NEW kids, NEW units, Len(kids) = Len(g[n].kids),
         DOMAIN units = 1..Len(kids),
         \A i \in 1..Len(kids) : SameKind(g[g[n].kids[i]], kids[i], units[i])
  PROVE  Fits(g[n], kids, units)
<1> DEFINE rec == g[n]
           kid(i) == g[rec.kids[i]]
           len == Len(rec.kids)
<1>1. /\ NodeError(g, n) = Pass /\ rec.type \in SupportedTypes /\ rec.sound \in BOOLEAN
      /\ rec.kids \in Seq(Node) /\ len \in Nat
      /\ rec.type \in DOMAIN Arity => len = Arity[rec.type]
  BY CanonicalAssumption, KidsFacts DEF NodeAccepted, IsSupported, WellTyped
<1>2. Len(kids) = len /\ DOMAIN units = 1..len
  OBVIOUS
<1>3. \A i \in 1..len :
        /\ IsScalar(kid(i)) => kids[i].type \in ScalarTypes /\ units[i] = kid(i).unit
        /\ IsBoolean(kid(i)) => kids[i].type \in BooleanTypes
        /\ IsContract(kid(i)) => kids[i].type \in ContractTypes
  BY DEF SameKind
<1>4. \A i \in 1..len : rec.kids[i] \in Seq2Set(rec.kids)
  BY DEF Seq2Set
<1> HIDE DEF len
<1>5. CASE rec.type \in {"Number", "Observable"}
  <2>1. len = 0
    BY <1>1, <1>5 DEF Arity
  <2>2. rec.unit \in ValidUnits
    BY <1>1, <1>5, LeafRules
  <2>3. QED
    BY <1>2, <1>5, <2>1, <2>2, FitsNumber
<1>6. CASE rec.type \in {"Add", "Maximum", "Minimum"}
  <2>1. /\ rec.unit \in ValidUnits /\ len >= 2
        /\ \A i \in 1..len : IsScalar(kid(i)) /\ kid(i).unit = rec.unit
    BY <1>1, <1>4, <1>6, ScalarCollectionRules DEF len
  <2>2. \A i \in 1..len : kids[i].type \in ScalarTypes /\ units[i] = rec.unit
    BY <1>3, <2>1
  <2>3. QED
    BY <1>1, <1>2, <1>6, <2>1, <2>2, FitsCollection
<1>7. CASE rec.type \in {"Subtract", "Multiply", "Divide", "Comparison"}
  <2>1. len = 2 /\ 1 \in 1..len /\ 2 \in 1..len
    BY <1>1, <1>7 DEF Arity
  <2>2. /\ IsScalar(kid(1)) /\ IsScalar(kid(2))
        /\ rec.type # "Comparison" => rec.unit \in ValidUnits
        /\ rec.type = "Subtract" => kid(1).unit = kid(2).unit /\ kid(1).unit = rec.unit
        /\ rec.type = "Comparison" => kid(1).unit = kid(2).unit
        /\ rec.type = "Multiply" => /\ ~(IsMoney(kid(1).unit) /\ IsMoney(kid(2).unit))
                                    /\ MultiplyUnit(kid(1).unit, kid(2).unit) = rec.unit
        /\ rec.type = "Divide" => kid(1).unit = rec.unit /\ kid(2).unit = "scalar"
    BY <1>1, <1>7, SubtractRules, MultiplyRules, DivideRules, ComparisonRules
  <2>3. /\ kids[1].type \in ScalarTypes /\ units[1] = kid(1).unit
        /\ kids[2].type \in ScalarTypes /\ units[2] = kid(2).unit
    BY <1>3, <2>1, <2>2
  <2>4. Len(kids) = 2 /\ DOMAIN units = 1..2
    BY <1>2, <2>1
  <2>5. QED
    BY <1>7, <2>2, <2>3, <2>4, FitsBinary
<1>8. CASE rec.type = "Negate"
  <2>1. len = 1 /\ 1 \in 1..len
    BY <1>1, <1>8 DEF Arity
  <2>2. rec.unit \in ValidUnits /\ IsScalar(kid(1)) /\ kid(1).unit = rec.unit
    BY <1>1, <1>8, NegateRules
  <2>3. kids[1].type \in ScalarTypes /\ units[1] = rec.unit
    BY <1>3, <2>1, <2>2
  <2>4. QED
    BY <1>2, <1>8, <2>1, <2>2, <2>3, FitsNegate
<1>9. CASE rec.type \in {"ConditionalValue", "ConditionalContract"}
  <2>1. len = 3 /\ 1 \in 1..len /\ 2 \in 1..len /\ 3 \in 1..len
    <3>1. rec.type \in DOMAIN Arity /\ Arity[rec.type] = 3
      BY <1>9 DEF Arity
    <3>2. QED
      BY <1>1, <3>1
  <2>2. /\ IsBoolean(kid(1))
        /\ rec.type = "ConditionalValue" =>
             /\ rec.unit \in ValidUnits /\ IsScalar(kid(2)) /\ IsScalar(kid(3))
             /\ kid(2).unit = kid(3).unit /\ kid(2).unit = rec.unit
        /\ rec.type = "ConditionalContract" => IsContract(kid(2)) /\ IsContract(kid(3))
    BY <1>1, <1>9, ConditionalValueRules, ConditionalContractRules
  <2>3. /\ kids[1].type \in BooleanTypes
        /\ rec.type = "ConditionalValue" =>
             /\ rec.unit \in ValidUnits
             /\ kids[2].type \in ScalarTypes /\ kids[3].type \in ScalarTypes
             /\ units[2] = units[3] /\ units[2] = rec.unit
        /\ rec.type = "ConditionalContract" =>
             kids[2].type \in ContractTypes /\ kids[3].type \in ContractTypes
    BY <1>3, <2>1, <2>2
  <2>4. QED
    BY <1>2, <1>9, <2>1, <2>3, FitsConditional
<1>10. CASE rec.type \in {"BooleanConstant", "AllOf", "AnyOf", "Not"}
  <2>1. /\ rec.type = "BooleanConstant" => len = 0
        /\ rec.type = "Not" => len = 1
    BY <1>1 DEF Arity
  <2>2. rec.type \in {"AllOf", "AnyOf"} =>
          len >= 2 /\ \A i \in 1..len : IsBoolean(kid(i))
    BY <1>1, <1>4, BooleanCollectionRules DEF len
  <2>3. rec.type = "Not" => IsBoolean(kid(1))
    BY <1>1, NotRules
  <2>4. \A i \in 1..len : IsBoolean(kid(i))
    <3>1. \A i \in 1..1 : i = 1
      OBVIOUS
    <3>2. CASE rec.type = "BooleanConstant"
      BY <2>1, <3>2
    <3>3. CASE rec.type = "Not"
      BY <2>1, <2>3, <3>1, <3>3
    <3>4. QED
      BY <1>10, <2>2, <3>2, <3>3
  <2>5. \A i \in 1..Len(kids) : kids[i].type \in BooleanTypes
    BY <1>2, <1>3, <2>4
  <2>6. /\ rec.type = "BooleanConstant" => Len(kids) = 0
        /\ rec.type = "Not" => Len(kids) = 1
        /\ rec.type \in {"AllOf", "AnyOf"} => Len(kids) >= 2
    BY <1>2, <2>1, <2>2
  <2>7. QED
    BY <1>10, <2>5, <2>6, FitsCondition
<1>11. CASE rec.type \in {"Zero", "Payment", "Both", "Scale"}
  <2>1. /\ rec.type = "Zero" => len = 0
        /\ rec.type = "Payment" => len = 1 /\ 1 \in 1..len
        /\ rec.type = "Scale" => len = 2 /\ 1 \in 1..len /\ 2 \in 1..len
    BY <1>1 DEF Arity
  <2>2. rec.type = "Payment" =>
          IsScalar(kid(1)) /\ rec.unit \in Currencies /\ kid(1).unit = rec.unit
    BY <1>1, PaymentRules
  <2>3. rec.type = "Scale" =>
          IsScalar(kid(1)) /\ IsContract(kid(2)) /\ kid(1).unit = "scalar"
    BY <1>1, ScaleRules
  <2>4. rec.type = "Both" => len >= 2 /\ \A i \in 1..len : IsContract(kid(i))
    BY <1>1, <1>4, BothRules DEF len
  <2>5. /\ rec.type = "Zero" => Len(kids) = 0
        /\ rec.type = "Payment" => /\ Len(kids) = 1 /\ kids[1].type \in ScalarTypes
                                   /\ IsMoney(rec.unit) /\ units[1] = rec.unit
        /\ rec.type = "Scale" => /\ Len(kids) = 2 /\ kids[1].type \in ScalarTypes
                                 /\ kids[2].type \in ContractTypes
                                 /\ units[1] = "scalar"
        /\ rec.type = "Both" => /\ Len(kids) >= 2
                                /\ \A i \in 1..Len(kids) : kids[i].type \in ContractTypes
    BY <1>2, <1>3, <2>1, <2>2, <2>3, <2>4 DEF IsMoney
  <2>6. QED
    BY <1>11, <2>5, FitsContract
<1>12. QED
  BY <1>1, <1>5, <1>6, <1>7, <1>8, <1>9, <1>10, <1>11
     DEF SupportedTypes, ScalarTypes, BooleanTypes, ContractTypes

MemoIds(m, kids) == [i \in 1..Len(kids) |-> m[kids[i]]]

\* The children of an accepted object whose children are finished.
LEMMA SourceFacts ==
  ASSUME NEW g \in Graphs, NEW n \in Node, NodeAccepted(g, n),
         NEW m, NEW T, ChildSet(g, n) \subseteq DOMAIN m,
         \A k \in DOMAIN m : m[k] \in T
  PROVE  /\ MemoIds(m, g[n].kids) \in Seq(T)
         /\ SourceOK(g[n], MemoIds(m, g[n].kids))
<1> DEFINE rec == g[n]
           ids == MemoIds(m, rec.kids)
<1>1. /\ rec.kids \in Seq(Node) /\ Len(rec.kids) \in Nat
      /\ \A i \in 1..Len(rec.kids) : rec.kids[i] \in ChildSet(g, n)
  BY KidsFacts DEF Seq2Set
<1>2. ids \in [1..Len(rec.kids) -> T]
  BY <1>1 DEF MemoIds
<1>3. ids \in Seq(T) /\ Len(ids) = Len(rec.kids)
  <2> HIDE DEF ids
  <2>1. ids \in Seq(T)
    BY <1>1, <1>2, SeqDef
  <2>2. QED
    BY <1>1, <1>2, <2>1, LenProperties
<1> HIDE DEF ids
<1>4. rec.type \in MergedTypes => ids # << >>
  <2>1. rec.type \in {"Add", "Maximum", "Minimum"} => Len(rec.kids) >= 2
    BY <1>1, ScalarCollectionRules DEF NodeAccepted
  <2>2. rec.type \in {"AllOf", "AnyOf"} => Len(rec.kids) >= 2
    BY <1>1, BooleanCollectionRules DEF NodeAccepted
  <2>3. QED
    BY <1>3, <2>1, <2>2, EmptySeq DEF MergedTypes, CollectionTypes
<1>5. rec.type \in SupportedTypes /\ IsIterable(rec) /\ WellTyped(rec)
  BY CanonicalAssumption DEF NodeAccepted, IsSupported
<1>6. SourceOK(rec, ids)
  BY <1>3, <1>4, <1>5, NumberAccepted DEF SourceOK, WellTyped
<1>7. QED
  BY <1>3, <1>6 DEF ids

-----------------------------------------------------------------------------
(* The table and the digests.                                              *)

\* Every finished object has in the table what _build_payload gives it.
Accounted(g, m, table) ==
  \A n \in DOMAIN m :
    /\ m[n] \in DOMAIN table
    /\ table[m[n]] = PayloadOf(g[n], MemoIds(m, g[n].kids), table)

TableInv ==
  /\ ContentAddressed(canonNodes, digests)
  /\ DigestsTyped(digests)
  /\ DOMAIN canonNodes \subseteq Ids
  /\ TableIn(canonNodes)
  /\ Accounted(graph, memo, canonNodes)

LEMMA TableGrows ==
  ASSUME NEW table, TableIn(table), NEW p, PayloadIn(p, table),
         NEW id \in Nat, id \in DOMAIN table => table[id] = p
  PROVE  /\ Grows(table, Extended(table, id, p))
         /\ TableIn(Extended(table, id, p))
         /\ id \in DOMAIN Extended(table, id, p) /\ Extended(table, id, p)[id] = p
<1> DEFINE wider == Extended(table, id, p)
<1>1. /\ DOMAIN wider = DOMAIN table \cup {id}
      /\ wider[id] = p /\ \A x \in DOMAIN table : wider[x] = table[x]
  BY DEF Extended
<1> HIDE DEF wider
<1>2. Grows(table, wider)
  BY <1>1 DEF Grows
<1>3. ASSUME NEW x \in DOMAIN wider PROVE PayloadIn(wider[x], wider)
  <2>1. PayloadIn(wider[x], table)
    BY <1>1, <1>3 DEF TableIn
  <2>2. QED
    BY <1>2, <2>1, PayloadStays
<1>4. TableIn(wider)
  BY <1>1, <1>3 DEF TableIn
<1>5. QED
  BY <1>1, <1>2, <1>4 DEF wider

\* A finished object more: the payloads of the others stay what they are.
LEMMA AccountedGrows ==
  ASSUME NEW g \in Graphs, NEW m, NEW table, TableIn(table), Accounted(g, m, table),
         DOMAIN m \subseteq Node,
         \A k \in DOMAIN m : NodeAccepted(g, k) /\ ChildSet(g, k) \subseteq DOMAIN m,
         NEW n \in Node \ DOMAIN m, NodeAccepted(g, n), ChildSet(g, n) \subseteq DOMAIN m,
         NEW wider, Grows(table, wider), NEW id \in DOMAIN wider,
         wider[id] = PayloadOf(g[n], MemoIds(m, g[n].kids), table)
  PROVE  Accounted(g, Extended(m, n, id), wider)
<1> DEFINE later == Extended(m, n, id)
<1>1. /\ DOMAIN later = DOMAIN m \cup {n}
      /\ later[n] = id /\ \A k \in DOMAIN m : later[k] = m[k]
  BY DEF Extended
<1> HIDE DEF later
<1>2. ASSUME NEW k \in DOMAIN later
      PROVE  /\ later[k] \in DOMAIN wider
             /\ wider[later[k]] = PayloadOf(g[k], MemoIds(later, g[k].kids), wider)
  <2> DEFINE ids == MemoIds(m, g[k].kids)
  <2>1. k \in Node /\ NodeAccepted(g, k) /\ ChildSet(g, k) \subseteq DOMAIN m
    BY <1>1
  <2>2. ids \in Seq(DOMAIN table) /\ SourceOK(g[k], ids)
    BY <2>1, SourceFacts DEF Accounted
  <2>3. MemoIds(later, g[k].kids) = ids
    <3>1. \A i \in 1..Len(g[k].kids) : g[k].kids[i] \in DOMAIN m
      BY <2>1, KidsFacts DEF Seq2Set
    <3>2. QED
      BY <1>1, <3>1 DEF MemoIds
  <2>4. PayloadOf(g[k], ids, wider) = PayloadOf(g[k], ids, table)
    BY <2>2, PayloadAgain
  <2>5. later[k] \in DOMAIN wider /\ wider[later[k]] = PayloadOf(g[k], ids, table)
    <3>1. CASE k = n
      BY <1>1, <3>1
    <3>2. CASE k \in DOMAIN m
      BY <1>1, <3>2 DEF Accounted, Grows
    <3>3. QED
      BY <1>1, <3>1, <3>2
  <2>6. QED
    BY <2>3, <2>4, <2>5
<1>3. QED
  BY <1>2 DEF Accounted, later

\* The object whose marker surfaces, and what is known of it.
LEMMA Surfacing ==
  ASSUME IInv, TableInv, Popping(TRUE)
  PROVE  /\ Top.node \in Node \ DOMAIN memo
         /\ NodeAccepted(graph, Top.node)
         /\ ChildSet(graph, Top.node) \subseteq DOMAIN memo
         /\ \A k \in DOMAIN memo : NodeAccepted(graph, k)
         /\ BuildPayload(Top.node)
              = PayloadOf(graph[Top.node], MemoIds(memo, graph[Top.node].kids), canonNodes)
         /\ PayloadIn(BuildPayload(Top.node), canonNodes)
<1> DEFINE n == stack[Len(stack)].node
<1>1. Top.node = n /\ pc = "walk" /\ stack # << >> /\ stack[Len(stack)].leaving
  BY DEF Popping, Top
<1>2. Reached \subseteq Node
  BY ReachFacts DEF Reached, IInv
<1>3. WalkInv
  BY <1>1 DEF IInv
<1>4. NonEmpty(stack, Frames(Reached))
  BY <1>1, <1>3 DEF WalkInv, NonEmpty
<1>5. n \in Reached \ DOMAIN memo /\ ChildSet(graph, n) \subseteq DOMAIN memo
  <2>1. PICK L \in [Reached -> Nat] : StackInv(graph, root, stack, DOMAIN memo, L)
    BY <1>3 DEF WalkInv
  <2>2. QED
    BY <1>1, <1>4, <2>1, PopFinished
<1> HIDE DEF n
<1>6. NodeAccepted(graph, n) /\ \A k \in DOMAIN memo : NodeAccepted(graph, k)
  BY <1>3, <1>5 DEF WalkInv, IInv, MemoInv
<1> DEFINE ids == MemoIds(memo, graph[n].kids)
<1>7. BuildPayload(n) = PayloadOf(graph[n], ids, canonNodes)
  BY DEF BuildPayload, ChildIds, MemoIds
<1>8. \A k \in DOMAIN memo : memo[k] \in DOMAIN canonNodes
  BY DEF TableInv, Accounted
<1>9. ids \in Seq(DOMAIN canonNodes) /\ SourceOK(graph[n], ids)
  BY <1>2, <1>5, <1>6, <1>8, SourceFacts DEF IInv
<1>10. PayloadIn(PayloadOf(graph[n], ids, canonNodes), canonNodes)
  BY <1>9, PayloadBuilt DEF TableInv
<1>11. QED
  BY <1>1, <1>2, <1>5, <1>6, <1>7, <1>10

LEMMA TableBuilds ==
  ASSUME IInv, TableInv, Build
  PROVE  TableInv'
<1> DEFINE n == Top.node
           payload == BuildPayload(n)
<1>1. PICK id \in Answers(digests, payload) :
        /\ digests' = Extended(digests, payload, id)
        /\ id \in DOMAIN canonNodes => canonNodes[id] = payload
        /\ canonNodes' = Extended(canonNodes, id, payload)
        /\ memo' = Extended(memo, n, id)
  BY DEF Build, Register
<1>2. Popping(TRUE) /\ graph' = graph
  BY DEF Build, Register, callArgs
<1>3. /\ n \in Node \ DOMAIN memo
      /\ NodeAccepted(graph, n)
      /\ ChildSet(graph, n) \subseteq DOMAIN memo
      /\ \A k \in DOMAIN memo : NodeAccepted(graph, k)
      /\ payload = PayloadOf(graph[n], MemoIds(memo, graph[n].kids), canonNodes)
      /\ PayloadIn(payload, canonNodes)
  BY <1>2, Surfacing
<1>4. /\ graph \in Graphs /\ DOMAIN memo \subseteq Node
      /\ \A k \in DOMAIN memo : ChildSet(graph, k) \subseteq DOMAIN memo
  BY ReachFacts DEF IInv, MemoInv, Reached
<1> HIDE DEF n, payload
<1>5. id \in Ids /\ id \in Nat /\ DigestsTyped(digests')
  BY <1>1, AnswersTyped DEF TableInv
<1> DEFINE wider == Extended(canonNodes, id, payload)
<1>6. /\ Grows(canonNodes, wider) /\ TableIn(wider)
      /\ id \in DOMAIN wider /\ wider[id] = payload
  BY <1>1, <1>3, <1>5, TableGrows DEF TableInv
<1>7. ContentAddressed(wider, digests')
  BY <1>1, EnteringKeepsTable DEF TableInv
<1>8. DOMAIN wider \subseteq Ids
  BY <1>5 DEF TableInv, Extended
<1> HIDE DEF wider
<1>9. Accounted(graph, Extended(memo, n, id), wider)
  BY <1>3, <1>4, <1>6, AccountedGrows DEF TableInv
<1>10. canonNodes' = wider
  BY <1>1 DEF wider
<1>11. QED
  BY <1>1, <1>2, <1>5, <1>6, <1>7, <1>8, <1>9, <1>10 DEF TableInv

LEMMA TableCollides ==
  ASSUME TableInv, DetectCollision
  PROVE  TableInv'
<1> DEFINE payload == BuildPayload(Top.node)
<1>1. PICK id \in Answers(digests, payload) :
        digests' = Extended(digests, payload, id)
  BY DEF DetectCollision, Register
<1> HIDE DEF payload
<1>2. memo' = memo /\ canonNodes' = canonNodes /\ graph' = graph
  BY DEF DetectCollision, Register, callArgs
<1>3. ContentAddressed(canonNodes, digests') /\ DigestsTyped(digests')
  BY <1>1, AskingKeepsTable, AnswersTyped DEF TableInv
<1>4. QED
  BY <1>2, <1>3 DEF TableInv

LEMMA TableFresh == Fresh => TableInv
<1>1. SUFFICES ASSUME Fresh PROVE TableInv
  OBVIOUS
<1>2. DOMAIN canonNodes = {} /\ DOMAIN memo = {} /\ DigestsTyped(digests)
  BY <1>1 DEF Fresh
<1>3. QED
  BY <1>2 DEF TableInv, ContentAddressed, TableIn, Accounted

LEMMA TableNext == IInv /\ TableInv /\ [Next]_vars => TableInv'
<1>1. SUFFICES ASSUME IInv, TableInv, [Next]_vars PROVE TableInv'
  OBVIOUS
<1>2. CASE Build
  BY <1>1, <1>2, TableBuilds
<1>3. CASE DetectCollision
  BY <1>1, <1>3, TableCollides
<1>4. CASE \/ RejectConfig \/ AcceptConfig \/ ValidationFails \/ FoldEscapes
           \/ ValidationPasses \/ SkipMemoized \/ Enter
           \/ BeginPrune \/ PruneSeen \/ PruneVisit
           \/ AssembleTooComplex \/ Assemble \/ UNCHANGED vars
  <2>1. UNCHANGED <<graph, memo, canonNodes, digests>>
    BY <1>4 DEF RejectConfig, AcceptConfig, FoldEscapes, ValidationFails,
       ValidationPasses, SkipMemoized, Enter, BeginPrune, PruneSeen,
       PruneVisit, AssembleTooComplex, Assemble, callArgs, core, oracle, vars
  <2>2. QED
    BY <1>1, <2>1 DEF TableInv
<1>5. QED
  BY <1>1, <1>2, <1>3, <1>4 DEF Next

LEMMA TableHolds == Spec => []TableInv
BY FreshInit, TableFresh, TableNext, InvariantHolds, PTL DEF Spec

\* register lets no collision through and every payload is what _build_payload
\* would make of the object now: for every graph and digest function, each id
\* in canon_nodes stands for the payload that hashes to it, each finished
\* object for its own payload, and each reference leads to a node of the table,
\* so the sort, the flattening and the prune never read another node's payload.
THEOREM TableIsSound == Spec => []TableSound
<1>1. IInv /\ TableInv => TableSound
  <2>1. SUFFICES ASSUME IInv, TableInv PROVE TableSound
    OBVIOUS
  <2>2. ASSUME NEW id \in DOMAIN canonNodes
        PROVE  Seq2Set(canonNodes[id].kids) \subseteq DOMAIN canonNodes
    <3>1. canonNodes[id].kids \in Seq(DOMAIN canonNodes)
      BY <2>1 DEF TableInv, TableIn, PayloadIn
    <3>2. QED
      BY <3>1, ElementOfSeq DEF Seq2Set
  <2>3. ASSUME NEW n \in DOMAIN memo
        PROVE  memo[n] \in DOMAIN canonNodes /\ canonNodes[memo[n]] = BuildPayload(n)
    BY <2>1, <2>3 DEF TableInv, Accounted, BuildPayload, ChildIds, MemoIds
  <2>4. QED
    BY <2>1, <2>2, <2>3 DEF TableSound, TableInv
<1>2. QED
  BY <1>1, InvariantHolds, TableHolds, PTL

-----------------------------------------------------------------------------
(* The prune traversal: R has been visited from r, s is still to do.       *)

RefsClosed(table, S) == \A id \in S : Seq2Set(table[id].kids) \subseteq S

Pruning(table, r, s, R) ==
  /\ s \in Seq(DOMAIN table) /\ R \subseteq DOMAIN table
  /\ r \in R \cup Seq2Set(s)
  /\ \A id \in R : Seq2Set(table[id].kids) \subseteq R \cup Seq2Set(s)
  /\ \A S \in SUBSET DOMAIN table :
       r \in S /\ RefsClosed(table, S) => R \cup Seq2Set(s) \subseteq S

LEMMA LastAndRest ==
  ASSUME NEW D, NEW s, NonEmpty(s, D)
  PROVE  /\ s[Len(s)] \in D /\ Popped(s) \in Seq(D)
         /\ Seq2Set(s) = Seq2Set(Popped(s)) \cup {s[Len(s)]}
<1> DEFINE t == Popped(s)
           n == Len(s)
<1>1. /\ n \in Nat \ {0} /\ s[n] \in D /\ t \in Seq(D) /\ Len(t) = n - 1
      /\ \A i \in 1..(n - 1) : t[i] = s[i]
  BY PopFacts
<1> HIDE DEF t, n
<1>2. 1..n = (1..(n - 1)) \cup {n}
  BY <1>1
<1>3. Seq2Set(s) = {s[i] : i \in 1..n} /\ Seq2Set(t) = {t[i] : i \in 1..(n - 1)}
  BY <1>1 DEF Seq2Set, n
<1>4. Seq2Set(s) = Seq2Set(t) \cup {s[n]}
  BY <1>1, <1>2, <1>3
<1>5. QED
  BY <1>1, <1>4 DEF t, n

LEMMA PruneSkips ==
  ASSUME NEW table, NEW r, NEW s, s # << >>, NEW R, Pruning(table, r, s, R),
         s[Len(s)] \in R
  PROVE  Pruning(table, r, Popped(s), R)
<1>1. NonEmpty(s, DOMAIN table)
  BY DEF Pruning, NonEmpty
<1>2. /\ Popped(s) \in Seq(DOMAIN table)
      /\ Seq2Set(s) = Seq2Set(Popped(s)) \cup {s[Len(s)]}
  BY <1>1, LastAndRest
<1>3. R \cup Seq2Set(s) = R \cup Seq2Set(Popped(s))
  BY <1>2
<1>4. QED
  BY <1>2, <1>3 DEF Pruning

LEMMA JoinedSet ==
  ASSUME NEW D, NEW a \in Seq(D), NEW b \in Seq(D)
  PROVE  a \o b \in Seq(D) /\ Seq2Set(a \o b) = Seq2Set(a) \cup Seq2Set(b)
<1>1. /\ a \o b \in Seq(D) /\ Len(a \o b) = Len(a) + Len(b)
      /\ \A i \in 1..(Len(a) + Len(b)) :
           (a \o b)[i] = IF i <= Len(a) THEN a[i] ELSE b[i - Len(a)]
  BY ConcatProperties
<1> DEFINE c == a \o b
           m == Len(a)
           n == Len(b)
<1>2. m \in Nat /\ n \in Nat /\ Len(c) = m + n /\ c \in Seq(D)
      /\ \A i \in 1..(m + n) : c[i] = IF i <= m THEN a[i] ELSE b[i - m]
  BY <1>1, LenProperties
<1> HIDE DEF c
<1>3. Seq2Set(a) = {a[i] : i \in 1..m} /\ Seq2Set(b) = {b[i] : i \in 1..n}
      /\ Seq2Set(c) = {c[i] : i \in 1..(m + n)}
  BY <1>2 DEF Seq2Set
<1> HIDE DEF m, n
<1>4. \A x \in Seq2Set(c) : x \in Seq2Set(a) \cup Seq2Set(b)
  <2>1. ASSUME NEW i \in 1..(m + n) PROVE c[i] \in Seq2Set(a) \cup Seq2Set(b)
    <3>1. CASE i <= m
      BY <1>2, <1>3, <3>1
    <3>2. CASE ~(i <= m)
      <4>1. i - m \in 1..n /\ c[i] = b[i - m]
        BY <1>2, <3>2
      <4>2. QED
        BY <1>3, <4>1
    <3>3. QED
      BY <3>1, <3>2
  <2>2. QED
    BY <1>3, <2>1
<1>5. \A x \in Seq2Set(a) : x \in Seq2Set(c)
  <2>1. \A i \in 1..m : i \in 1..(m + n) /\ c[i] = a[i]
    BY <1>2
  <2>2. QED
    BY <1>3, <2>1
<1>6. \A x \in Seq2Set(b) : x \in Seq2Set(c)
  <2>1. ASSUME NEW i \in 1..n PROVE b[i] \in Seq2Set(c)
    <3>1. m + i \in 1..(m + n) /\ ~(m + i <= m) /\ (m + i) - m = i
      BY <1>2
    <3>2. c[m + i] = b[i]
      BY <1>2, <3>1
    <3>3. QED
      BY <1>3, <3>1, <3>2
  <2>2. QED
    BY <1>3, <2>1
<1>7. QED
  BY <1>2, <1>4, <1>5, <1>6 DEF c

LEMMA PruneVisits ==
  ASSUME NEW table, TableIn(table), NEW r, NEW s, s # << >>, NEW R,
         Pruning(table, r, s, R)
  PROVE  /\ s[Len(s)] \in DOMAIN table
         /\ Pruning(table, r, Popped(s) \o table[s[Len(s)]].kids, R \cup {s[Len(s)]})
<1> DEFINE id == s[Len(s)]
           t == Popped(s)
           kids == table[id].kids
           Q == R \cup {id}
           u == t \o kids
<1>1. NonEmpty(s, DOMAIN table)
  BY DEF Pruning, NonEmpty
<1>2. id \in DOMAIN table /\ t \in Seq(DOMAIN table) /\ Seq2Set(s) = Seq2Set(t) \cup {id}
  BY <1>1, LastAndRest
<1>3. kids \in Seq(DOMAIN table)
  BY <1>2 DEF TableIn, PayloadIn
<1> HIDE DEF t
<1>4. u \in Seq(DOMAIN table) /\ Seq2Set(u) = Seq2Set(t) \cup Seq2Set(kids)
  BY <1>2, <1>3, JoinedSet
<1> HIDE DEF u
<1>5. Q \cup Seq2Set(u) = (R \cup Seq2Set(s)) \cup Seq2Set(kids)
  BY <1>2, <1>4
<1>6. \A x \in Q : Seq2Set(table[x].kids) \subseteq Q \cup Seq2Set(u)
  BY <1>2, <1>4, <1>5 DEF Pruning
<1>7. ASSUME NEW S \in SUBSET DOMAIN table, r \in S, RefsClosed(table, S)
      PROVE  Q \cup Seq2Set(u) \subseteq S
  <2>1. R \cup Seq2Set(s) \subseteq S
    BY <1>7 DEF Pruning
  <2>2. id \in S
    BY <1>2, <2>1
  <2>3. Seq2Set(kids) \subseteq S
    BY <1>7, <2>2 DEF RefsClosed
  <2>4. QED
    BY <1>5, <2>1, <2>3
<1>8. Q \subseteq DOMAIN table /\ r \in Q \cup Seq2Set(u)
  BY <1>2, <1>5 DEF Pruning
<1>9. Pruning(table, r, u, Q)
  BY <1>4, <1>6, <1>7, <1>8 DEF Pruning
<1>10. QED
  BY <1>2, <1>9 DEF u, t

LEMMA PruneStarts ==
  ASSUME NEW table, NEW r \in DOMAIN table
  PROVE  Pruning(table, r, << r >>, {})
<1>1. Seq2Set(<< r >>) = {r} /\ << r >> \in Seq(DOMAIN table)
  BY DEF Seq2Set
<1>2. QED
  BY <1>1 DEF Pruning, RefsClosed

\* Nothing is left to do: what has been visited is a document.
LEMMA PruneEnds ==
  ASSUME NEW table, TableIn(table), NEW r, NEW R, Pruning(table, r, << >>, R),
         NEW document, document = [root |-> r, nodes |-> [id \in R |-> table[id]]]
  PROVE  IsReach(document) /\ IsNormal(document.nodes)
<1> DEFINE nodes == document.nodes
<1>1. Seq2Set(<< >>) = {}
  BY DEF Seq2Set
<1>2. /\ R \subseteq DOMAIN table /\ r \in R
      /\ \A id \in R : Seq2Set(table[id].kids) \subseteq R
      /\ \A S \in SUBSET DOMAIN table : r \in S /\ RefsClosed(table, S) => R \subseteq S
  BY <1>1 DEF Pruning
<1>3. document.root = r /\ DOMAIN nodes = R /\ \A id \in R : nodes[id] = table[id]
  OBVIOUS
<1> HIDE DEF nodes
<1>4. ASSUME NEW S \in SUBSET R, r \in S,
             \A id \in S : Seq2Set(nodes[id].kids) \subseteq S
      PROVE  S = R
  <2>1. RefsClosed(table, S) /\ S \in SUBSET DOMAIN table
    BY <1>2, <1>3, <1>4 DEF RefsClosed
  <2>2. QED
    BY <1>2, <1>4, <2>1
<1>5. IsReach(document)
  BY <1>2, <1>3, <1>4 DEF IsReach, nodes
<1>6. ASSUME NEW id \in R PROVE Normal(nodes[id], PayloadsOf(nodes[id].kids, nodes))
  <2> DEFINE kids == table[id].kids
  <2>1. id \in DOMAIN table /\ nodes[id] = table[id]
    BY <1>2, <1>3
  <2>2. kids \in Seq(DOMAIN table) /\ Normal(table[id], PayloadsOf(kids, table))
    BY <2>1 DEF TableIn, PayloadIn
  <2>3. \A i \in 1..Len(kids) : nodes[kids[i]] = table[kids[i]]
    BY <1>2, <1>3 DEF Seq2Set
  <2>4. PayloadsOf(kids, nodes) = PayloadsOf(kids, table)
    BY <2>3 DEF PayloadsOf
  <2>5. QED
    BY <2>1, <2>2, <2>4
<1>7. QED
  BY <1>3, <1>5, <1>6 DEF IsNormal, nodes

PruneInv ==
  /\ pruneStack \in Seq(DOMAIN canonNodes) /\ reachable \subseteq DOMAIN canonNodes
  /\ pc \in {"config", "validate", "walk"} => pruneStack = << >> /\ reachable = {}
  /\ pc = "prune" => Pruning(canonNodes, memo[root], pruneStack, reachable)
  /\ result.kind = "canonical" => IsNormal(result.document.nodes)

ArgumentsInv ==
  /\ root \in Roots /\ config \in Configs
  /\ pc \in {"config", "validate", "walk", "prune", "done"}
  /\ result.kind \in {"none", "canonical"} \cup CanonicalizationErrors

LEMMA NoErrorIsCanonical ==
  ASSUME NEW kind, Raise(kind), kind # "canonical"
  PROVE  result'.kind # "canonical" /\ result'.kind = kind /\ pc' = "done"
BY DEF Raise, NoResult

LEMMA Translated ==
  ASSUME NEW kind \in Failures
  PROVE  Translation(kind) \in CanonicalizationErrors
BY DEF Failures, Translation, CanonicalizationErrors, Invalid, Mismatch

LEMMA ArgumentsFresh == Fresh => ArgumentsInv
BY DEF Fresh, ArgumentsInv, NoResult

LEMMA ArgumentsNext == ArgumentsInv /\ [Next]_vars => ArgumentsInv'
<1>1. SUFFICES ASSUME ArgumentsInv, [Next]_vars PROVE ArgumentsInv'
  OBVIOUS
<1>2. root' = root /\ config' = config
  BY <1>1 DEF Next, vars, RejectConfig, AcceptConfig, FoldEscapes, ValidationFails,
     ValidationPasses, SkipMemoized, Enter, Build, DetectCollision, Register,
     BeginPrune, PruneSeen, PruneVisit, AssembleTooComplex, Assemble, callArgs
<1>3. ASSUME NEW kind \in CanonicalizationErrors, Raise(kind) PROVE ArgumentsInv'
  BY <1>1, <1>2, <1>3 DEF ArgumentsInv, Raise, NoResult
<1>4. CASE RejectConfig \/ FoldEscapes \/ DetectCollision \/ AssembleTooComplex
  BY <1>3, <1>4 DEF RejectConfig, FoldEscapes, DetectCollision, AssembleTooComplex,
                    CanonicalizationErrors
<1>5. CASE ValidationFails
  <2>1. PICK kind \in Failures : Raise(Translation(kind))
    BY <1>5 DEF ValidationFails, Verdicts
  <2>2. QED
    BY <1>3, <2>1, Translated
<1>6. CASE PruneVisit
  BY <1>1, <1>2, <1>3, <1>6 DEF PruneVisit, CanonicalizationErrors, ArgumentsInv
<1>7. CASE Assemble
  BY <1>1, <1>2, <1>7 DEF Assemble, ArgumentsInv
<1>8. CASE \/ AcceptConfig \/ ValidationPasses \/ SkipMemoized \/ Enter \/ Build
           \/ BeginPrune \/ PruneSeen \/ UNCHANGED vars
  BY <1>1, <1>2, <1>8 DEF AcceptConfig, ValidationPasses, SkipMemoized, Enter,
     Build, BeginPrune, PruneSeen, vars, ArgumentsInv
<1>9. QED
  BY <1>1, <1>4, <1>5, <1>6, <1>7, <1>8 DEF Next

LEMMA PruneFresh == Fresh => PruneInv
<1>1. SUFFICES ASSUME Fresh PROVE PruneInv
  OBVIOUS
<1>2. /\ DOMAIN canonNodes = {} /\ pruneStack = << >> /\ reachable = {}
      /\ pc = "config" /\ result.kind = "none"
  BY <1>1 DEF Fresh, NoResult
<1>3. << >> \in Seq({})
  OBVIOUS
<1>4. QED
  BY <1>2, <1>3 DEF PruneInv

LEMMA PruneNext == IInv /\ TableInv /\ PruneInv /\ [Next]_vars => PruneInv'
<1>1. SUFFICES ASSUME IInv, TableInv, PruneInv, [Next]_vars PROVE PruneInv'
  OBVIOUS
<1>2. TableIn(canonNodes)
  BY <1>1 DEF TableInv
<1>3. ASSUME NEW kind, kind # "canonical", Raise(kind),
             canonNodes' = canonNodes, UNCHANGED prune
      PROVE  PruneInv'
  BY <1>1, <1>3, NoErrorIsCanonical DEF PruneInv, prune
<1>4. CASE RejectConfig \/ FoldEscapes \/ DetectCollision \/ AssembleTooComplex
  <2>1. canonNodes' = canonNodes /\ UNCHANGED prune
    BY <1>4 DEF RejectConfig, FoldEscapes, DetectCollision, Register, AssembleTooComplex, core
  <2>2. QED
    BY <1>3, <1>4, <2>1 DEF RejectConfig, FoldEscapes, DetectCollision, AssembleTooComplex
<1>5. CASE ValidationFails
  <2>1. PICK kind \in Failures : Raise(Translation(kind))
    BY <1>5 DEF ValidationFails, Verdicts
  <2>2. Translation(kind) # "canonical"
    BY <2>1, Translated DEF CanonicalizationErrors
  <2>3. canonNodes' = canonNodes /\ UNCHANGED prune
    BY <1>5 DEF ValidationFails, core
  <2>4. QED
    BY <1>3, <2>1, <2>2, <2>3
<1>6. ASSUME canonNodes' = canonNodes, UNCHANGED prune, result' = result,
             pc \in {"config", "validate", "walk"}, pc' \in {"config", "validate", "walk"}
      PROVE  PruneInv'
  BY <1>1, <1>6 DEF PruneInv, prune
<1>7. CASE AcceptConfig \/ ValidationPasses \/ SkipMemoized \/ Enter
  BY <1>6, <1>7 DEF AcceptConfig, ValidationPasses, SkipMemoized, Enter, Popping, core
<1>8. CASE Build
  <2>1. /\ pc = "walk" /\ pc' = "walk" /\ result' = result /\ UNCHANGED prune
    BY <1>8 DEF Build, Popping, Register
  <2>2. pruneStack' = << >> /\ reachable' = {}
    BY <1>1, <2>1 DEF PruneInv, prune
  <2>3. << >> \in Seq(DOMAIN canonNodes')
    OBVIOUS
  <2>4. QED
    BY <1>1, <2>1, <2>2, <2>3 DEF PruneInv
<1>9. CASE BeginPrune
  <2>1. /\ pc = "walk" /\ pc' = "prune" /\ pruneStack' = << memo[root] >>
        /\ reachable' = {} /\ canonNodes' = canonNodes /\ memo' = memo /\ root' = root
        /\ result' = result /\ stack = << >>
    BY <1>1, <1>9 DEF BeginPrune, PruneInv, core, callArgs
  <2>2. root \in DOMAIN memo
    <3>1. Awaited(root, stack, DOMAIN memo)
      BY <1>1, <2>1 DEF IInv, WalkInv, StackInv
    <3>2. Len(stack) = 0
      BY <2>1
    <3>3. QED
      BY <3>1, <3>2 DEF Awaited
  <2>3. memo[root] \in DOMAIN canonNodes
    BY <1>1, <2>2 DEF TableInv, Accounted
  <2>4. Pruning(canonNodes, memo[root], << memo[root] >>, {})
    BY <2>3, PruneStarts
  <2>5. << memo[root] >> \in Seq(DOMAIN canonNodes)
    BY <2>4 DEF Pruning
  <2>6. QED
    BY <1>1, <2>1, <2>4, <2>5 DEF PruneInv
<1>10. CASE PruneSeen
  <2>1. /\ pc = "prune" /\ pc' = "prune" /\ pruneStack # << >>
        /\ pruneStack[Len(pruneStack)] \in reachable
        /\ pruneStack' = Popped(pruneStack) /\ reachable' = reachable
        /\ canonNodes' = canonNodes /\ memo' = memo /\ root' = root /\ result' = result
    BY <1>10 DEF PruneSeen, PruneTop, PruneRest, Popped, core, callArgs
  <2>2. Pruning(canonNodes, memo[root], Popped(pruneStack), reachable)
    BY <1>1, <2>1, PruneSkips DEF PruneInv
  <2>3. Popped(pruneStack) \in Seq(DOMAIN canonNodes)
    BY <2>2 DEF Pruning
  <2>4. QED
    BY <1>1, <2>1, <2>2, <2>3 DEF PruneInv
<1>11. CASE PruneVisit
  <2> DEFINE id == pruneStack[Len(pruneStack)]
             t == Popped(pruneStack) \o canonNodes[id].kids
  <2>1. /\ pc = "prune" /\ pruneStack # << >>
        /\ canonNodes' = canonNodes /\ memo' = memo /\ root' = root
    BY <1>11 DEF PruneVisit, core, callArgs
  <2>2. /\ id \in DOMAIN canonNodes
        /\ Pruning(canonNodes, memo[root], t, reachable \cup {id})
    BY <1>1, <1>2, <2>1, PruneVisits DEF PruneInv
  <2>3. /\ reachable' = reachable \cup {id} /\ pruneStack' = t
        /\ pc' = pc /\ result' = result
    BY <1>11, <2>2 DEF PruneVisit, PruneTop, PruneRest, Popped, Refs
  <2> HIDE DEF id, t
  <2>4. t \in Seq(DOMAIN canonNodes) /\ reachable \cup {id} \subseteq DOMAIN canonNodes
    BY <2>2 DEF Pruning
  <2>5. QED
    BY <1>1, <2>1, <2>2, <2>3, <2>4 DEF PruneInv
<1>12. CASE Assemble
  <2>1. /\ pc = "prune" /\ pc' = "done" /\ pruneStack = << >>
        /\ canonNodes' = canonNodes /\ UNCHANGED prune
        /\ result'.document = Document
    BY <1>12 DEF Assemble, core
  <2>2. Pruning(canonNodes, memo[root], << >>, reachable)
    BY <1>1, <2>1 DEF PruneInv
  <2>3. IsNormal(Document.nodes)
    BY <1>2, <2>2, PruneEnds DEF Document
  <2>4. QED
    BY <1>1, <2>1, <2>3 DEF PruneInv, prune
<1>13. CASE UNCHANGED vars
  BY <1>1, <1>13 DEF PruneInv, vars
<1>14. QED
  BY <1>1, <1>4, <1>5, <1>7, <1>8, <1>9, <1>10, <1>11, <1>12, <1>13 DEF Next

LEMMA PruneHolds == Spec => []PruneInv
BY FreshInit, PruneFresh, PruneNext, InvariantHolds, TableHolds, PTL DEF Spec

\* Nothing is left to normalize in a document: one pass of _build_payload over
\* the objects, children first, reaches the normal form, although folding and
\* flattening look one level down only.
THEOREM DocumentsAreNormal == Spec => []DocumentIsNormal
BY PruneHolds, PTL DEF PruneInv, DocumentIsNormal

-----------------------------------------------------------------------------
(* The classes and units of the payloads in the table.                     *)

\* units are the units of the values of the payloads in the table.
TableTyped(table, units) ==
  /\ DOMAIN units = DOMAIN table
  /\ \A id \in DOMAIN table :
       TypedIn(table[id], table, units) /\ units[id] = UnitAt(table[id], units)

\* p is a payload for rec.
Stands(rec, p, table, units) ==
  TypedIn(p, table, units) /\ SameKind(rec, p, UnitAt(p, units))

LEMMA UnitsAtFacts ==
  ASSUME NEW units, NEW ids
  PROVE  /\ DOMAIN UnitsAt(units, ids) = 1..Len(ids)
         /\ \A i \in 1..Len(ids) : UnitsAt(units, ids)[i] = units[ids[i]]
<1>1. DOMAIN UnitsAt(units, ids) = 1..Len(ids)
  BY DEF UnitsAt
<1>2. \A i \in 1..Len(ids) : UnitsAt(units, ids)[i] = units[ids[i]]
  BY DEF UnitsAt
<1>3. QED
  BY <1>1, <1>2

Shaped(p) == p = Payload(p.type, p.kids, p.unit, p.val, p.num, p.op)

LEMMA PayloadShape ==
  ASSUME NEW t, NEW ids, NEW u, NEW v, NEW num, NEW op
  PROVE  /\ Shaped(Payload(t, ids, u, v, num, op))
         /\ Payload(t, ids, u, v, num, op).type = t
         /\ Payload(t, ids, u, v, num, op).kids = ids
         /\ Payload(t, ids, u, v, num, op).unit = u
<1> DEFINE q == Payload(t, ids, u, v, num, op)
<1>1. q.type = t /\ q.kids = ids /\ q.unit = u /\ q.val = v /\ q.num = num /\ q.op = op
  BY DEF Payload
<1>2. q = Payload(t, ids, u, v, num, op)
  OBVIOUS
<1> HIDE DEF q
<1>3. Shaped(q)
  BY <1>1, <1>2 DEF Shaped
<1>4. QED
  BY <1>1, <1>3 DEF q

\* A class of its own, or no operands: what is required of p is required of rec.
LEMMA SameRules ==
  ASSUME NEW rec, NEW p, p.type = rec.type,
         p.type \in {"Number", "Observable", "Payment"} => p.unit = rec.unit,
         NEW kids, NEW units, Fits(rec, kids, units)
  PROVE  /\ OperandsFit(p, kids) /\ UnitsFit(p, units)
         /\ rec.type \in ScalarTypes => DerivedUnit(p, units) = rec.unit
<1>1. OperandsFit(rec, kids) /\ UnitsFit(rec, units)
  BY DEF Fits
<1>2. OperandsFit(p, kids)
  BY <1>1 DEF OperandsFit
<1>3. UnitsFit(p, units)
  BY <1>1 DEF UnitsFit
<1>4. ASSUME rec.type \in ScalarTypes PROVE DerivedUnit(p, units) = rec.unit
  <2>1. DerivedUnit(rec, units) = rec.unit
    BY <1>4 DEF Fits
  <2>2. DerivedUnit(p, units) = DerivedUnit(rec, units)
    BY <1>4 DEF DerivedUnit, ScalarTypes
  <2>3. QED
    BY <2>1, <2>2
<1>5. QED
  BY <1>2, <1>3, <1>4

LEMMA NumberStands ==
  ASSUME NEW rec, rec.type \in ScalarTypes, rec.unit \in ValidUnits, NEW num,
         NEW table, NEW units
  PROVE  Stands(rec, NumberPayload(rec.unit, num), table, units)
<1> DEFINE p == NumberPayload(rec.unit, num)
<1>1. /\ Shaped(p) /\ p.type = "Number" /\ p.kids = << >> /\ p.unit = rec.unit
  <2> DEFINE t == "Number"
             ids == << >>
             v == 0
             c == Canonical(num)
             op == ""
             q == Payload(t, ids, rec.unit, v, c, op)
  <2> HIDE DEF t, ids, v, c, op
  <2>1. Shaped(q) /\ q.type = t /\ q.kids = ids /\ q.unit = rec.unit
    BY PayloadShape
  <2>2. p = q
    BY Zenon DEF NumberPayload, t, ids, v, c, op
  <2>3. QED
    BY <2>1, <2>2, Zenon DEF t, ids
<1> HIDE DEF p
<1>2. Len(PayloadsOf(p.kids, table)) = 0
  <2>1. << >> \in Seq(DOMAIN table) /\ Len(<< >>) = 0
    OBVIOUS
  <2>2. Len(PayloadsOf(<< >>, table)) = 0
    BY <2>1, PayloadsFacts
  <2>3. QED
    BY <1>1, <2>2, Zenon
<1>3. Fits(p, PayloadsOf(p.kids, table), UnitsAt(units, p.kids))
  BY <1>1, <1>2, FitsNumber
<1>4. p.type \in ScalarTypes /\ UnitAt(p, units) = rec.unit
  BY <1>1 DEF ScalarTypes, UnitAt, DerivedUnit
<1>5. SameKind(rec, p, rec.unit)
  BY <1>4 DEF SameKind, IsScalar, IsBoolean, IsContract, ScalarTypes, BooleanTypes,
              ContractTypes
<1>6. QED
  BY <1>1, <1>3, <1>4, <1>5 DEF Stands, TypedIn, Fits, Shaped, p

LEMMA BooleanStands ==
  ASSUME NEW rec, rec.type \in BooleanTypes, NEW p, NEW holds, p = BooleanPayload(holds),
         NEW table, NEW units
  PROVE  Stands(rec, p, table, units)
<1>1. /\ Shaped(p) /\ p.type = "BooleanConstant" /\ p.kids = << >>
  <2> DEFINE v == IF holds THEN 1 ELSE 0
             t == "BooleanConstant"
             ids == << >>
             unit == "none"
             op == ""
             q == Payload(t, ids, unit, v, DecZero, op)
  <2> HIDE DEF v, t, ids, unit, op
  <2>1. Shaped(q) /\ q.type = t /\ q.kids = ids
    BY PayloadShape
  <2>2. p = q
    BY Zenon DEF BooleanPayload, v, t, ids, unit, op
  <2>3. QED
    BY <2>1, <2>2, Zenon DEF t, ids
<1>2. Len(PayloadsOf(p.kids, table)) = 0
  <2>1. << >> \in Seq(DOMAIN table) /\ Len(<< >>) = 0
    OBVIOUS
  <2>2. Len(PayloadsOf(<< >>, table)) = 0
    BY <2>1, PayloadsFacts
  <2>3. QED
    BY <1>1, <2>2, Zenon
<1>3. Fits(p, PayloadsOf(p.kids, table), UnitsAt(units, p.kids))
  BY <1>1, <1>2, FitsCondition
<1>4. SameKind(rec, p, UnitAt(p, units))
  BY <1>1 DEF SameKind, IsScalar, IsBoolean, IsContract, ScalarTypes, BooleanTypes,
              ContractTypes
<1>5. QED
  BY <1>1, <1>3, <1>4 DEF Stands, TypedIn, Fits, Shaped

\* The operator stays, with its operands.
LEMMA KeptStands ==
  ASSUME NEW rec, rec.type \in SupportedTypes, NEW ids, NEW u, NEW v, NEW op,
         rec.type \in {"Number", "Observable", "Payment"} => u = rec.unit,
         NEW table, NEW units,
         Fits(rec, PayloadsOf(ids, table), UnitsAt(units, ids))
  PROVE  Stands(rec, Payload(rec.type, ids, u, v, DecZero, op), table, units)
<1> DEFINE p == Payload(rec.type, ids, u, v, DecZero, op)
<1>1. /\ Shaped(p) /\ p.type = rec.type /\ p.kids = ids /\ p.unit = u
  BY PayloadShape
<1> HIDE DEF p
<1>2. /\ OperandsFit(p, PayloadsOf(p.kids, table)) /\ UnitsFit(p, UnitsAt(units, p.kids))
      /\ rec.type \in ScalarTypes => UnitAt(p, units) = rec.unit
  BY <1>1, SameRules DEF UnitAt
<1>3. SameKind(rec, p, UnitAt(p, units))
  BY <1>1, <1>2 DEF SameKind, IsScalar, IsBoolean, IsContract, SupportedTypes,
                    ScalarTypes, BooleanTypes, ContractTypes
<1>4. QED
  BY <1>1, <1>2, <1>3 DEF Stands, TypedIn, Shaped, p

\* A payload that is in the table already.
LEMMA BranchStands ==
  ASSUME NEW rec, NEW table, NEW units, TableTyped(table, units),
         NEW id \in DOMAIN table, SameKind(rec, table[id], units[id])
  PROVE  Stands(rec, table[id], table, units)
BY DEF TableTyped, Stands

LEMMA MultiplyUnitCommutes ==
  ASSUME NEW a, NEW b
  PROVE  MultiplyUnit(a, b) = MultiplyUnit(b, a)
BY DEF MultiplyUnit, IsMoney

\* What Fits says of the operands of a class.
LEMMA FitsBranch ==
  ASSUME NEW rec, NEW kids, NEW units, Fits(rec, kids, units),
         rec.type \in {"ConditionalValue", "ConditionalContract"},
         NEW i \in {2, 3}
  PROVE  SameKind(rec, kids[i], units[i])
<1>1. OperandsFit(rec, kids) /\ UnitsFit(rec, units)
  BY DEF Fits
<1>2. CASE rec.type = "ConditionalValue"
  <2>1. kids[i].type \in ScalarTypes
    BY <1>1, <1>2 DEF OperandsFit
  <2>2. units[2] = rec.unit /\ units[2] = units[3]
    <3>1. rec.type \in ScalarTypes /\ DerivedUnit(rec, units) = units[2]
      BY <1>2 DEF ScalarTypes, DerivedUnit
    <3>2. QED
      BY <1>1, <1>2, <3>1 DEF Fits, UnitsFit
  <2>3. QED
    BY <1>2, <2>1, <2>2 DEF SameKind, IsBoolean, IsContract, BooleanTypes, ContractTypes
<1>3. CASE rec.type = "ConditionalContract"
  <2>1. kids[i].type \in ContractTypes
    BY <1>1, <1>3 DEF OperandsFit
  <2>2. QED
    BY <1>3, <2>1 DEF SameKind, IsScalar, IsBoolean, BooleanTypes, ScalarTypes
<1>4. QED
  BY <1>2, <1>3

LEMMA FitsProduct ==
  ASSUME NEW rec, NEW kids, NEW units, Fits(rec, kids, units), rec.type = "Multiply",
         NEW swapped, NEW swappedUnits, Len(swapped) = 2, DOMAIN swappedUnits = 1..2,
         \/ /\ swapped[1] = kids[1] /\ swapped[2] = kids[2]
            /\ swappedUnits[1] = units[1] /\ swappedUnits[2] = units[2]
         \/ /\ swapped[1] = kids[2] /\ swapped[2] = kids[1]
            /\ swappedUnits[1] = units[2] /\ swappedUnits[2] = units[1]
  PROVE  Fits(rec, swapped, swappedUnits)
<1>1. OperandsFit(rec, kids) /\ UnitsFit(rec, units)
  BY DEF Fits
<1>2. rec.type \in ScalarTypes /\ rec.type \in ScalarTypes \ {"ConditionalValue"}
  BY DEF ScalarTypes
<1>3. Len(kids) = 2
  BY <1>1 DEF OperandsFit, Arity
<1>4. kids[1].type \in ScalarTypes /\ kids[2].type \in ScalarTypes
  <2>1. \A i \in 1..Len(kids) : kids[i].type \in ScalarTypes
    BY <1>1, <1>2 DEF OperandsFit
  <2>2. 1 \in 1..Len(kids) /\ 2 \in 1..Len(kids)
    BY <1>3
  <2>3. QED
    BY <2>1, <2>2
<1>5. /\ rec.unit \in ValidUnits
      /\ MultiplyUnit(units[1], units[2]) = rec.unit
      /\ ~(IsMoney(units[1]) /\ IsMoney(units[2]))
  <2>1. DerivedUnit(rec, units) = MultiplyUnit(units[1], units[2])
    BY DEF DerivedUnit
  <2>2. QED
    BY <1>1, <1>2, <2>1 DEF Fits, UnitsFit
<1>6. MultiplyUnit(units[2], units[1]) = rec.unit
  BY <1>5, MultiplyUnitCommutes
<1>7. /\ swapped[1].type \in ScalarTypes /\ swapped[2].type \in ScalarTypes
      /\ MultiplyUnit(swappedUnits[1], swappedUnits[2]) = rec.unit
      /\ ~(IsMoney(swappedUnits[1]) /\ IsMoney(swappedUnits[2]))
  BY <1>4, <1>5, <1>6
<1>8. QED
  BY <1>5, <1>7, FitsBinary

\* _build_payload gives an operator node a payload of its class and its unit.
LEMMA OperatorStands ==
  ASSUME NEW table, TableIn(table), NEW units, TableTyped(table, units),
         NEW ids \in Seq(DOMAIN table), NEW rec, SourceOK(rec, ids),
         rec.type \notin MergedTypes,
         Fits(rec, PayloadsOf(ids, table), UnitsAt(units, ids))
  PROVE  Stands(rec, OperatorPayload(rec, ids, PayloadsOf(ids, table)), table, units)
<1> DEFINE kids == PayloadsOf(ids, table)
           us == UnitsAt(units, ids)
           none == "none"
           zero == 0
           noOp == ""
           kept == Payload(rec.type, ids, none, zero, DecZero, noOp)
           p == OperatorPayload(rec, ids, kids)
<1>1. /\ Len(ids) \in Nat /\ Len(kids) = Len(ids)
      /\ \A i \in 1..Len(ids) : ids[i] \in DOMAIN table /\ kids[i] = table[ids[i]]
  BY PayloadsFacts
<1>2. /\ DOMAIN us = 1..Len(ids)
      /\ \A i \in 1..Len(ids) : us[i] = units[ids[i]]
  BY UnitsAtFacts
<1>3. /\ rec.type \in SupportedTypes
      /\ rec.type \in DOMAIN Arity => Len(ids) = Arity[rec.type]
  BY DEF SourceOK
<1>4. Fits(rec, kids, us)
  OBVIOUS
<1>5. rec.type \in ScalarTypes => rec.unit \in ValidUnits
  BY DEF Fits
<1>6. p = kept /\ rec.type \notin {"Number", "Observable", "Payment"} =>
        Stands(rec, p, table, units)
  <2> HIDE DEF none, zero, noOp, p
  <2>1. QED
    BY <1>3, KeptStands DEF kept
<1>7. ASSUME NEW num, p = NumberPayload(rec.unit, num), rec.type \in ScalarTypes
      PROVE  Stands(rec, p, table, units)
  <2> HIDE DEF p
  <2>1. QED
    BY <1>5, <1>7, NumberStands
<1>8. ASSUME NEW holds, p = BooleanPayload(holds), rec.type \in BooleanTypes
      PROVE  Stands(rec, p, table, units)
  <2> HIDE DEF p
  <2>1. QED
    BY <1>8, BooleanStands
<1> HIDE DEF us
<1>9. CASE rec.type = "Number"
  <2>1. p = NumberPayload(rec.unit, IntegerDec(rec.val)) /\ rec.type \in ScalarTypes
    BY <1>9 DEF OperatorPayload, ScalarTypes
  <2>2. QED
    BY <1>7, <2>1
<1>10. CASE rec.type \in {"Observable", "Payment"}
  <2>1. p = Payload(rec.type, ids, rec.unit, rec.val, DecZero, noOp)
    BY <1>10, Zenon DEF OperatorPayload
  <2> HIDE DEF noOp, p
  <2> DEFINE u == rec.unit
             v == rec.val
  <2>2. u = rec.unit /\ p = Payload(rec.type, ids, u, v, DecZero, noOp)
    BY <2>1
  <2> HIDE DEF u, v
  <2>3. Stands(rec, Payload(rec.type, ids, u, v, DecZero, noOp), table, units)
    BY <1>3, <2>2, KeptStands
  <2>4. QED
    BY <2>2, <2>3 DEF p
<1>11. CASE rec.type = "BooleanConstant"
  <2>1. p = BooleanPayload(rec.val = 1) /\ rec.type \in BooleanTypes
    BY <1>11 DEF OperatorPayload, BooleanTypes
  <2>2. QED
    BY <1>8, <2>1
<1>12. CASE rec.type \in {"Zero", "Divide", "Both", "Scale"}
  <2>1. p = kept
    BY <1>12 DEF OperatorPayload, kept
  <2>2. QED
    BY <1>6, <1>12, <2>1
<1>13. CASE rec.type \in {"Negate", "Subtract"}
  <2>1. rec.type \in ScalarTypes
    BY <1>13 DEF ScalarTypes
  <2>2. p = kept \/ \E num : p = NumberPayload(rec.unit, num)
    BY <1>13 DEF OperatorPayload, kept, Fold
  <2>3. QED
    BY <1>6, <1>7, <1>13, <2>1, <2>2
<1>14. CASE rec.type \in {"ConditionalValue", "ConditionalContract"}
  <2>1. Len(ids) = 3
    <3>1. rec.type \in DOMAIN Arity /\ Arity[rec.type] = 3
      BY <1>14 DEF Arity
    <3>2. QED
      BY <1>3, <3>1
  <2>2. ASSUME NEW i \in {2, 3}, p = kids[i] PROVE Stands(rec, p, table, units)
    <3>1. ids[i] \in DOMAIN table /\ kids[i] = table[ids[i]] /\ us[i] = units[ids[i]]
      <4>1. i \in 1..Len(ids)
        BY <2>1
      <4>2. QED
        BY <1>1, <1>2, <4>1
    <3> HIDE DEF p, kids
    <3>2. SameKind(rec, kids[i], us[i])
      BY <1>4, <1>14, FitsBranch
    <3>3. QED
      BY <2>2, <3>1, <3>2, BranchStands
  <2>3. p = kept \/ p = kids[2] \/ p = kids[3]
    BY <1>14 DEF OperatorPayload, kept
  <2>4. QED
    BY <1>6, <1>14, <2>2, <2>3
<1>15. CASE rec.type = "Comparison"
  <2>1. CASE AllLiterals(kids)
    <3>1. p = BooleanPayload(CompareBy(rec.op, kids[1].num, kids[2].num))
      BY <1>15, <2>1 DEF OperatorPayload
    <3>2. rec.type \in BooleanTypes
      BY <1>15 DEF BooleanTypes
    <3>3. QED
      BY <1>8, <3>1, <3>2
  <2>2. CASE ~AllLiterals(kids)
    <3> DEFINE op == rec.op
    <3>1. p = Payload(rec.type, ids, none, zero, DecZero, op)
      BY <1>15, <2>2, Zenon DEF OperatorPayload
    <3> HIDE DEF none, zero, op, p
    <3>2. Stands(rec, Payload(rec.type, ids, none, zero, DecZero, op), table, units)
      BY <1>3, <1>15, KeptStands
    <3>3. QED
      BY <3>1, <3>2 DEF p
  <2>3. QED
    BY <2>1, <2>2
<1>16. CASE rec.type = "Not"
  <2>1. rec.type \in BooleanTypes
    BY <1>16 DEF BooleanTypes
  <2>2. p = kept \/ p = BooleanPayload(kids[1].val = 0)
    BY <1>16 DEF OperatorPayload, kept
  <2>3. QED
    BY <1>6, <1>8, <1>16, <2>1, <2>2
<1>17. CASE rec.type = "Multiply"
  <2> DEFINE factors == Factors(ids)
             product == Payload(rec.type, factors, none, zero, DecZero, noOp)
  <2>1. rec.type \in ScalarTypes
    BY <1>17 DEF ScalarTypes
  <2>2. p = product \/ \E num : p = NumberPayload(rec.unit, num)
    BY <1>17 DEF OperatorPayload, Fold
  <2>3. Len(ids) = 2 /\ 1 \in 1..Len(ids) /\ 2 \in 1..Len(ids)
    BY <1>3, <1>17 DEF Arity
  <2>4. \/ factors = << ids[1], ids[2] >>
        \/ factors = << ids[2], ids[1] >>
    BY DEF Factors
  <2> HIDE DEF factors
  <2>5. factors \in Seq(DOMAIN table) /\ Len(factors) = 2
    <3> DEFINE a == ids[1]
               b == ids[2]
    <3>1. a \in DOMAIN table /\ b \in DOMAIN table
      BY <1>1, <2>3
    <3> HIDE DEF a, b
    <3>2. << a, b >> \in Seq(DOMAIN table) /\ << b, a >> \in Seq(DOMAIN table)
      BY <3>1
    <3>3. Len(<< a, b >>) = 2 /\ Len(<< b, a >>) = 2
      OBVIOUS
    <3>4. factors = << a, b >> \/ factors = << b, a >>
      BY <2>4 DEF a, b
    <3>5. QED
      BY <3>2, <3>3, <3>4
  <2> DEFINE swapped == PayloadsOf(factors, table)
             swappedUnits == UnitsAt(units, factors)
  <2>6. /\ Len(swapped) = 2 /\ DOMAIN swappedUnits = 1..2
        /\ swapped[1] = table[factors[1]] /\ swapped[2] = table[factors[2]]
        /\ swappedUnits[1] = units[factors[1]] /\ swappedUnits[2] = units[factors[2]]
    <3>1. 1 \in 1..2 /\ 2 \in 1..2
      OBVIOUS
    <3>2. QED
      BY <2>5, <3>1, PayloadsFacts, UnitsAtFacts
  <2>7. \/ factors[1] = ids[1] /\ factors[2] = ids[2]
        \/ factors[1] = ids[2] /\ factors[2] = ids[1]
    BY <2>4
  <2> HIDE DEF factors, swapped, swappedUnits
  <2>8. \/ /\ swapped[1] = kids[1] /\ swapped[2] = kids[2]
           /\ swappedUnits[1] = us[1] /\ swappedUnits[2] = us[2]
        \/ /\ swapped[1] = kids[2] /\ swapped[2] = kids[1]
           /\ swappedUnits[1] = us[2] /\ swappedUnits[2] = us[1]
    BY <1>1, <1>2, <2>3, <2>6, <2>7
  <2>9. Fits(rec, swapped, swappedUnits)
    <3> HIDE DEF kids
    <3>1. QED
      BY <1>4, <1>17, <2>6, <2>8, FitsProduct
  <2>10. p = product => Stands(rec, p, table, units)
    <3> HIDE DEF none, zero, noOp, p
    <3>1. QED
      BY <1>3, <1>17, <2>9, KeptStands DEF swapped, swappedUnits, product
  <2>11. QED
    BY <1>7, <2>1, <2>2, <2>10
<1>18. QED
  BY <1>3, <1>9, <1>10, <1>11, <1>12, <1>13, <1>14, <1>15, <1>16, <1>17
     DEF SupportedTypes, ScalarTypes, BooleanTypes, ContractTypes, MergedTypes,
         CollectionTypes

\* What may stand under a collection of the type, whose value has the unit.
Suitable(type, unit, table, units) ==
  {id \in DOMAIN table :
     /\ type \in ScalarTypes => table[id].type \in ScalarTypes /\ units[id] = unit
     /\ type \in BooleanTypes => table[id].type \in BooleanTypes}

LEMMA SuitableOperands ==
  ASSUME NEW table, NEW units, NEW ids \in Seq(DOMAIN table),
         NEW p, p.type \in MergedTypes, NEW unit,
         OperandsFit(p, PayloadsOf(ids, table)), UnitsFit(p, UnitsAt(units, ids)),
         p.type \in ScalarTypes => DerivedUnit(p, UnitsAt(units, ids)) = unit
  PROVE  ids \in NonEmptySeqs(Suitable(p.type, unit, table, units)) /\ Len(ids) >= 2
<1> DEFINE kids == PayloadsOf(ids, table)
           us == UnitsAt(units, ids)
           U == Suitable(p.type, unit, table, units)
<1>1. /\ Len(ids) \in Nat /\ Len(kids) = Len(ids)
      /\ \A i \in 1..Len(ids) : ids[i] \in DOMAIN table /\ kids[i] = table[ids[i]]
  BY PayloadsFacts
<1>2. /\ DOMAIN us = 1..Len(ids)
      /\ \A i \in 1..Len(ids) : us[i] = units[ids[i]]
  BY UnitsAtFacts
<1> HIDE DEF kids, us
<1>3. Len(ids) >= 2
  <2>1. p.type \in CollectionTypes
    BY DEF MergedTypes, CollectionTypes
  <2>2. QED
    BY <1>1, <2>1 DEF OperandsFit, kids
<1>4. ASSUME NEW i \in 1..Len(ids), p.type \in ScalarTypes
      PROVE  kids[i].type \in ScalarTypes /\ us[i] = unit
  <2>1. p.type \in {"Add", "Maximum", "Minimum"}
    BY <1>4 DEF MergedTypes, CollectionTypes, ScalarTypes
  <2>2. p.type \in ScalarTypes \ {"ConditionalValue"}
    BY <1>4, <2>1
  <2>3. kids[i].type \in ScalarTypes
    BY <1>1, <2>2 DEF OperandsFit, kids
  <2>4. us[i] = us[1]
    BY <1>2, <2>1 DEF UnitsFit, us
  <2>5. DerivedUnit(p, us) = us[1]
    BY <2>1 DEF DerivedUnit
  <2>6. QED
    BY <1>4, <2>3, <2>4, <2>5 DEF us
<1>5. ASSUME NEW i \in 1..Len(ids), p.type \in BooleanTypes
      PROVE  kids[i].type \in BooleanTypes
  <2>1. p.type \in {"AllOf", "AnyOf", "Not"}
    BY <1>5 DEF MergedTypes, CollectionTypes, BooleanTypes
  <2>2. QED
    BY <1>1, <2>1 DEF OperandsFit, kids
<1>6. \A i \in 1..Len(ids) : ids[i] \in U
  BY <1>1, <1>2, <1>4, <1>5 DEF Suitable
<1> HIDE DEF U
<1>7. ids \in Seq(U)
  BY <1>6, NarrowerSeq
<1>8. ids # << >>
  BY <1>1, <1>3
<1>9. QED
  BY <1>3, <1>7, <1>8 DEF NonEmptySeqs, U

\* A collection of at least two such operands is well typed.
LEMMA SuitableFit ==
  ASSUME NEW table, NEW units, NEW rec, rec.type \in MergedTypes,
         rec.type \in ScalarTypes => rec.unit \in ValidUnits,
         NEW ids \in Seq(Suitable(rec.type, rec.unit, table, units)), Len(ids) >= 2
  PROVE  Fits(rec, PayloadsOf(ids, table), UnitsAt(units, ids))
<1> DEFINE kids == PayloadsOf(ids, table)
           us == UnitsAt(units, ids)
           U == Suitable(rec.type, rec.unit, table, units)
<1>1. /\ U \subseteq DOMAIN table
      /\ \A i \in 1..Len(ids) : ids[i] \in U
  <2>1. U \subseteq DOMAIN table
    BY DEF Suitable
  <2> HIDE DEF U
  <2>2. \A i \in 1..Len(ids) : ids[i] \in U
    BY ElementOfSeq DEF U
  <2>3. QED
    BY <2>1, <2>2
<1>2. ids \in Seq(DOMAIN table)
  BY <1>1, WiderSeq
<1>3. /\ Len(ids) \in Nat /\ Len(kids) = Len(ids)
      /\ \A i \in 1..Len(ids) : kids[i] = table[ids[i]]
  BY <1>2, PayloadsFacts
<1>4. /\ DOMAIN us = 1..Len(ids)
      /\ \A i \in 1..Len(ids) : us[i] = units[ids[i]]
  BY UnitsAtFacts
<1>5. \A i \in 1..Len(ids) :
        /\ rec.type \in ScalarTypes => kids[i].type \in ScalarTypes /\ us[i] = rec.unit
        /\ rec.type \in BooleanTypes => kids[i].type \in BooleanTypes
  BY <1>1, <1>3, <1>4 DEF Suitable
<1> HIDE DEF kids, us, U
<1>6. CASE rec.type \in {"Add", "Maximum", "Minimum"}
  <2>1. rec.type \in ScalarTypes
    BY <1>6 DEF ScalarTypes
  <2>2. \A i \in 1..Len(kids) : kids[i].type \in ScalarTypes /\ us[i] = rec.unit
    BY <1>3, <1>5, <2>1
  <2>3. Fits(rec, kids, us)
    BY <1>3, <1>4, <1>6, <2>1, <2>2, FitsCollection
  <2>4. QED
    BY <2>3 DEF kids, us
<1>7. CASE rec.type \in {"AllOf", "AnyOf"}
  <2>1. rec.type \in BooleanTypes
    BY <1>7 DEF BooleanTypes
  <2>2. \A i \in 1..Len(kids) : kids[i].type \in BooleanTypes
    BY <1>3, <1>5, <2>1
  <2>3. Fits(rec, kids, us)
    BY <1>3, <1>7, <2>2, FitsCondition
  <2>4. QED
    BY <2>3 DEF kids, us
<1>8. QED
  BY <1>6, <1>7 DEF MergedTypes, CollectionTypes

\* _build_payload gives a collection a payload of its class and its unit.
LEMMA CollectionStands ==
  ASSUME NEW table, NEW units, NEW ids, NEW rec, rec.type \in MergedTypes,
         rec.type \in ScalarTypes => rec.unit \in ValidUnits,
         Fits(rec, PayloadsOf(ids, table), UnitsAt(units, ids))
  PROVE  Stands(rec, CollectionPayload(rec, ids, PayloadsOf(ids, table)), table, units)
<1> DEFINE kids == PayloadsOf(ids, table)
           none == "none"
           zero == 0
           noOp == ""
           kept == Payload(rec.type, ids, none, zero, DecZero, noOp)
           p == CollectionPayload(rec, ids, kids)
<1>1. rec.type \in SupportedTypes /\ rec.type \notin {"Number", "Observable", "Payment"}
  BY DEF MergedTypes, CollectionTypes, SupportedTypes, ScalarTypes, BooleanTypes,
         ContractTypes
<1>2. p = kept => Stands(rec, p, table, units)
  <2> HIDE DEF none, zero, noOp, p
  <2>1. QED
    BY <1>1, KeptStands DEF kept
<1>3. ASSUME NEW num, p = NumberPayload(rec.unit, num), rec.type \in ScalarTypes
      PROVE  Stands(rec, p, table, units)
  <2> HIDE DEF p
  <2>1. QED
    BY <1>3, NumberStands
<1>4. ASSUME NEW holds, p = BooleanPayload(holds), rec.type \in BooleanTypes
      PROVE  Stands(rec, p, table, units)
  <2> HIDE DEF p
  <2>1. QED
    BY <1>4, BooleanStands
<1>5. CASE rec.type \in {"Add", "Maximum", "Minimum"}
  <2>1. rec.type \in ScalarTypes
    BY <1>5 DEF ScalarTypes
  <2>2. p = kept \/ \E num : p = NumberPayload(rec.unit, num)
    BY <1>5 DEF CollectionPayload, kept, Fold
  <2>3. QED
    BY <1>2, <1>3, <2>1, <2>2
<1>6. CASE rec.type = "AllOf"
  <2> DEFINE holds == \A i \in 1..Len(kids) : kids[i].val = 1
  <2>1. rec.type \in BooleanTypes
    BY <1>6 DEF BooleanTypes
  <2>2. p = IF AllConstants(kids) THEN BooleanPayload(holds) ELSE kept
    BY <1>6, Zenon DEF CollectionPayload, kept
  <2> HIDE DEF p, kept, holds
  <2>3. p = kept \/ p = BooleanPayload(holds)
    BY <2>2
  <2>4. QED
    BY <1>2, <1>4, <2>1, <2>3 DEF p, kept
<1>7. CASE rec.type = "AnyOf"
  <2> DEFINE holds == \E i \in 1..Len(kids) : kids[i].val = 1
  <2>1. rec.type \in BooleanTypes
    BY <1>7 DEF BooleanTypes
  <2>2. p = IF AllConstants(kids) THEN BooleanPayload(holds) ELSE kept
    BY <1>7, Zenon DEF CollectionPayload, kept
  <2> HIDE DEF p, kept, holds
  <2>3. p = kept \/ p = BooleanPayload(holds)
    BY <2>2
  <2>4. QED
    BY <1>2, <1>4, <2>1, <2>3 DEF p, kept
<1>8. QED
  BY <1>5, <1>6, <1>7 DEF MergedTypes, CollectionTypes

\* _build_payload gives every object a payload of its class and its unit, with
\* operands that its constructor would accept.
LEMMA PayloadStands ==
  ASSUME NEW table, TableIn(table), NEW units, TableTyped(table, units),
         NEW ids \in Seq(DOMAIN table), NEW rec, SourceOK(rec, ids),
         Fits(rec, PayloadsOf(ids, table), UnitsAt(units, ids))
  PROVE  Stands(rec, PayloadOf(rec, ids, table), table, units)
<1> DEFINE kids == PayloadsOf(ids, table)
           flat == Flattened(rec.type, ids, kids)
           operands == SortedIds(flat)
           U == Suitable(rec.type, rec.unit, table, units)
<1>1. CASE rec.type \in MergedTypes
  <2>1. /\ rec.type \in ScalarTypes => rec.unit \in ValidUnits
        /\ rec.type \in ScalarTypes => DerivedUnit(rec, UnitsAt(units, ids)) = rec.unit
        /\ OperandsFit(rec, kids) /\ UnitsFit(rec, UnitsAt(units, ids))
    BY DEF Fits
  <2>2. ids \in NonEmptySeqs(U) /\ Len(ids) >= 2
    <3> HIDE DEF kids
    <3> DEFINE unit == rec.unit
    <3>1. rec.type \in ScalarTypes => DerivedUnit(rec, UnitsAt(units, ids)) = unit
      BY <2>1
    <3> HIDE DEF unit
    <3>2. ids \in NonEmptySeqs(Suitable(rec.type, unit, table, units)) /\ Len(ids) >= 2
      BY <1>1, <2>1, <3>1, SuitableOperands DEF kids
    <3>3. QED
      BY <3>2 DEF unit
  <2>3. ASSUME NEW id \in U, table[id].type = rec.type
        PROVE  table[id].kids \in NonEmptySeqs(U)
    <3> DEFINE p == table[id]
               below == p.kids
               unit == rec.unit
               type == rec.type
    <3>1. /\ id \in DOMAIN table /\ p.type = type
          /\ TypedIn(p, table, units) /\ units[id] = UnitAt(p, units)
          /\ rec.type \in ScalarTypes => units[id] = unit
          /\ below \in Seq(DOMAIN table)
      BY <2>3 DEF Suitable, TableTyped, TableIn, PayloadIn
    <3>2. /\ OperandsFit(p, PayloadsOf(below, table))
          /\ UnitsFit(p, UnitsAt(units, below))
          /\ p.type \in ScalarTypes => DerivedUnit(p, UnitsAt(units, below)) = unit
          /\ p.type \in MergedTypes
      BY <1>1, <3>1 DEF TypedIn, UnitAt
    <3> HIDE DEF p, below, unit, type
    <3>3. below \in NonEmptySeqs(Suitable(p.type, unit, table, units))
      BY <3>1, <3>2, SuitableOperands
    <3>4. QED
      BY <3>1, <3>3 DEF below, p, unit, type
  <2>4. U \subseteq DOMAIN table /\ U \in SUBSET Nat
    BY DEF Suitable, TableIn
  <2>5. ids \in Seq(U) /\ ids # << >> /\ \A i \in 1..Len(ids) : ids[i] \in U
    <3> HIDE DEF U
    <3>1. ids \in Seq(U) /\ ids # << >>
      BY <2>2 DEF NonEmptySeqs
    <3>2. QED
      BY <3>1, ElementOfSeq
  <2> HIDE DEF U
  <2>6. flat \in NonEmptySeqs(U) /\ Len(flat) >= Len(ids)
    <3> DEFINE type == rec.type
    <3> HIDE DEF type
    <3>1. \A i \in 1..Len(ids) :
            /\ table[ids[i]].type = type => table[ids[i]].kids \in NonEmptySeqs(U)
            /\ table[ids[i]].type # type => ids[i] \in U
      BY <2>3, <2>5 DEF type
    <3>2. /\ Flattened(type, ids, PayloadsOf(ids, table)) \in NonEmptySeqs(U)
          /\ Len(Flattened(type, ids, PayloadsOf(ids, table))) >= Len(ids)
      BY <2>5, <3>1, FlattenedIn
    <3>3. QED
      BY <3>2 DEF type
  <2> HIDE DEF flat
  <2>7. flat \in Seq(U)
    BY <2>6 DEF NonEmptySeqs
  <2>8. operands \in Seq(U) /\ Len(operands) = Len(flat)
    BY <2>4, <2>7, SortedFacts
  <2>9. Len(operands) >= 2
    <3>1. Len(flat) \in Nat /\ Len(ids) \in Nat
      BY <2>5, <2>7, LenProperties
    <3>2. QED
      BY <2>2, <2>6, <2>8, <3>1
  <2> HIDE DEF operands
  <2>10. Fits(rec, PayloadsOf(operands, table), UnitsAt(units, operands))
    BY <1>1, <2>1, <2>8, <2>9, SuitableFit DEF U
  <2>11. Stands(rec, CollectionPayload(rec, operands, PayloadsOf(operands, table)), table, units)
    BY <1>1, <2>1, <2>10, CollectionStands
  <2>12. QED
    BY <1>1, <2>11 DEF PayloadOf, operands, flat
<1>2. CASE rec.type \notin MergedTypes
  <2>1. Stands(rec, OperatorPayload(rec, ids, kids), table, units)
    BY <1>2, OperatorStands
  <2>2. QED
    BY <1>2, <2>1 DEF PayloadOf
<1>3. QED
  BY <1>1, <1>2
\* References of the table go down, and every new payload refers to old ones.
LEMMA AcyclicGrows ==
  ASSUME NEW table, IsAcyclic(table),
         \A x \in DOMAIN table : Seq2Set(table[x].kids) \subseteq DOMAIN table,
         NEW id, id \notin DOMAIN table,
         NEW p, Seq2Set(p.kids) \subseteq DOMAIN table
  PROVE  IsAcyclic(Extended(table, id, p))
<1> DEFINE wider == Extended(table, id, p)
<1>1. /\ DOMAIN wider = DOMAIN table \cup {id}
      /\ wider[id] = p /\ \A x \in DOMAIN table : wider[x] = table[x]
  BY DEF Extended
<1> HIDE DEF wider
<1>2. ASSUME NEW S \in SUBSET DOMAIN wider, S # {}
      PROVE  \E x \in S : Seq2Set(wider[x].kids) \cap S = {}
  <2> DEFINE T == S \ {id}
  <2>1. T \in SUBSET DOMAIN table
    BY <1>1
  <2>2. CASE T = {}
    <3>1. id \in S /\ \A x \in S : x = id
      BY <1>2, <2>2
    <3>2. Seq2Set(wider[id].kids) \cap S = {}
      BY <1>1, <3>1
    <3>3. QED
      BY <3>1, <3>2
  <2>3. CASE T # {}
    <3>1. PICK x \in T : Seq2Set(table[x].kids) \cap T = {}
      BY <2>1, <2>3 DEF IsAcyclic
    <3>2. wider[x] = table[x] /\ id \notin Seq2Set(table[x].kids) /\ x \in S
      BY <1>1, <2>1, <3>1
    <3>3. QED
      BY <3>1, <3>2
  <2>4. QED
    BY <2>2, <2>3
<1>3. QED
  BY <1>2 DEF IsAcyclic, wider

LEMMA SameUnits ==
  ASSUME NEW units, NEW wider, \A id \in DOMAIN units : wider[id] = units[id],
         NEW ids \in Seq(DOMAIN units)
  PROVE  UnitsAt(wider, ids) = UnitsAt(units, ids)
<1>1. \A i \in 1..Len(ids) : ids[i] \in DOMAIN units
  BY ElementOfSeq
<1>2. QED
  BY <1>1 DEF UnitsAt

LEMMA TypedStays ==
  ASSUME NEW table, NEW units, DOMAIN units = DOMAIN table,
         NEW wider, Grows(table, wider),
         NEW widerUnits, \A id \in DOMAIN units : widerUnits[id] = units[id],
         NEW p, p.kids \in Seq(DOMAIN table), TypedIn(p, table, units)
  PROVE  TypedIn(p, wider, widerUnits) /\ UnitAt(p, widerUnits) = UnitAt(p, units)
<1>1. UnitsAt(widerUnits, p.kids) = UnitsAt(units, p.kids)
  BY SameUnits
<1>2. PayloadsOf(p.kids, wider) = PayloadsOf(p.kids, table)
  BY SamePayloads
<1>3. QED
  BY <1>1, <1>2 DEF TypedIn, UnitAt

LEMMA TypedGrows ==
  ASSUME NEW table, TableIn(table), NEW units, TableTyped(table, units),
         NEW p, p.kids \in Seq(DOMAIN table), TypedIn(p, table, units),
         NEW id, id \notin DOMAIN table
  PROVE  TableTyped(Extended(table, id, p), Extended(units, id, UnitAt(p, units)))
<1> DEFINE wider == Extended(table, id, p)
           unit == UnitAt(p, units)
           widerUnits == Extended(units, id, unit)
<1>1. /\ DOMAIN wider = DOMAIN table \cup {id}
      /\ wider[id] = p /\ \A x \in DOMAIN table : wider[x] = table[x]
  BY DEF Extended
<1>2. /\ DOMAIN units = DOMAIN table /\ DOMAIN widerUnits = DOMAIN units \cup {id}
      /\ widerUnits[id] = unit /\ \A x \in DOMAIN units : widerUnits[x] = units[x]
  BY DEF Extended, TableTyped
<1>3. Grows(table, wider)
  BY <1>1 DEF Grows
<1> HIDE DEF wider, widerUnits, unit
<1>4. TypedIn(p, wider, widerUnits) /\ UnitAt(p, widerUnits) = UnitAt(p, units)
  BY <1>2, <1>3, TypedStays
<1>5. ASSUME NEW x \in DOMAIN table
      PROVE  /\ TypedIn(wider[x], wider, widerUnits)
             /\ widerUnits[x] = UnitAt(wider[x], widerUnits)
  <2> DEFINE q == table[x]
  <2>1. q.kids \in Seq(DOMAIN table) /\ TypedIn(q, table, units) /\ units[x] = UnitAt(q, units)
    BY <1>5 DEF TableIn, PayloadIn, TableTyped
  <2> HIDE DEF q
  <2>2. TypedIn(q, wider, widerUnits) /\ UnitAt(q, widerUnits) = UnitAt(q, units)
    BY <1>2, <1>3, <2>1, TypedStays
  <2>3. wider[x] = q /\ widerUnits[x] = units[x]
    BY <1>1, <1>2 DEF q
  <2>4. QED
    BY <2>1, <2>2, <2>3
<1>6. TableTyped(wider, widerUnits)
  BY <1>1, <1>2, <1>4, <1>5 DEF TableTyped, unit
<1>7. QED
  BY <1>6 DEF wider, widerUnits, unit

\* Every finished object has in the table a payload of its class and its unit.
KindsMatch(g, m, table, units) ==
  \A n \in DOMAIN m : SameKind(g[n], table[m[n]], units[m[n]])

LEMMA KindsGrow ==
  ASSUME NEW g, NEW m, NEW table, TableIn(table), NEW units,
         TableTyped(table, units), KindsMatch(g, m, table, units),
         \A k \in DOMAIN m : m[k] \in DOMAIN table,
         NEW n, n \notin DOMAIN m, NEW p, p.kids \in Seq(DOMAIN table),
         Stands(g[n], p, table, units),
         NEW id, id \in DOMAIN table => table[id] = p
  PROVE  \E later : /\ TableTyped(Extended(table, id, p), later)
                    /\ KindsMatch(g, Extended(m, n, id), Extended(table, id, p), later)
<1> DEFINE wider == Extended(table, id, p)
           finished == Extended(m, n, id)
<1>1. /\ DOMAIN wider = DOMAIN table \cup {id}
      /\ wider[id] = p /\ \A x \in DOMAIN table : wider[x] = table[x]
  BY DEF Extended
<1>2. /\ DOMAIN finished = DOMAIN m \cup {n}
      /\ finished[n] = id /\ \A k \in DOMAIN m : finished[k] = m[k]
  BY DEF Extended
<1>3. TypedIn(p, table, units) /\ SameKind(g[n], p, UnitAt(p, units))
  BY DEF Stands
<1>4. ASSUME NEW later, TableTyped(wider, later), later[id] = UnitAt(p, units),
             \A x \in DOMAIN table : later[x] = units[x]
      PROVE  KindsMatch(g, finished, wider, later)
  <2> HIDE DEF wider, finished
  <2>1. SameKind(g[n], wider[finished[n]], later[finished[n]])
    BY <1>1, <1>2, <1>3, <1>4
  <2>2. ASSUME NEW k \in DOMAIN m
        PROVE  SameKind(g[k], wider[finished[k]], later[finished[k]])
    BY <1>1, <1>2, <1>4 DEF KindsMatch
  <2>3. QED
    BY <1>2, <2>1, <2>2 DEF KindsMatch
<1>5. CASE id \in DOMAIN table
  <2>1. DOMAIN wider = DOMAIN table /\ \A x \in DOMAIN table : wider[x] = table[x]
    BY <1>1, <1>5
  <2> HIDE DEF wider
  <2>2. TableTyped(wider, units) /\ units[id] = UnitAt(p, units)
    <3>1. Grows(table, wider) /\ DOMAIN units = DOMAIN table
      BY <2>1 DEF Grows, TableTyped
    <3>2. ASSUME NEW x \in DOMAIN table
          PROVE  TypedIn(wider[x], wider, units) /\ units[x] = UnitAt(wider[x], units)
      <4> DEFINE q == table[x]
      <4>1. q.kids \in Seq(DOMAIN table) /\ TypedIn(q, table, units) /\ units[x] = UnitAt(q, units)
        BY <3>2 DEF TableIn, PayloadIn, TableTyped
      <4> HIDE DEF q
      <4>2. TypedIn(q, wider, units)
        BY <3>1, <4>1, TypedStays
      <4>3. QED
        BY <2>1, <4>1, <4>2 DEF q
    <3>3. QED
      BY <1>5, <2>1, <3>1, <3>2 DEF TableTyped
  <2>3. KindsMatch(g, finished, wider, units)
    BY <1>4, <2>2
  <2>4. QED
    BY <2>2, <2>3 DEF wider
<1>6. CASE id \notin DOMAIN table
  <2> DEFINE unit == UnitAt(p, units)
             later == Extended(units, id, unit)
  <2>1. TableTyped(wider, later)
    BY <1>3, <1>6, TypedGrows
  <2>2. later[id] = unit /\ \A x \in DOMAIN table : later[x] = units[x]
    BY <1>6 DEF Extended, TableTyped
  <2> HIDE DEF later
  <2>3. KindsMatch(g, finished, wider, later)
    BY <1>4, <2>1, <2>2
  <2>4. QED
    BY <2>1, <2>3
<1>7. QED
  BY <1>5, <1>6

\* What the fields and children of an accepted object say of their payloads.
LEMMA SourceFits ==
  ASSUME NEW g \in Graphs, NEW n \in Node, NodeAccepted(g, n),
         NEW m, NEW table, NEW units, KindsMatch(g, m, table, units),
         \A k \in DOMAIN m : m[k] \in DOMAIN table,
         ChildSet(g, n) \subseteq DOMAIN m
  PROVE  Fits(g[n], PayloadsOf(MemoIds(m, g[n].kids), table),
              UnitsAt(units, MemoIds(m, g[n].kids)))
<1> DEFINE rec == g[n]
           ids == MemoIds(m, rec.kids)
           kids == PayloadsOf(ids, table)
           us == UnitsAt(units, ids)
<1>1. /\ rec.kids \in Seq(Node) /\ Len(rec.kids) \in Nat
      /\ \A i \in 1..Len(rec.kids) : rec.kids[i] \in ChildSet(g, n)
  BY KidsFacts DEF Seq2Set
<1>2. /\ DOMAIN ids = 1..Len(rec.kids)
      /\ \A i \in 1..Len(rec.kids) : ids[i] = m[rec.kids[i]]
  BY DEF MemoIds
<1>3. ids \in Seq(DOMAIN table)
  BY SourceFacts
<1> HIDE DEF ids
<1>4. Len(ids) = Len(rec.kids)
  <2>1. DOMAIN ids = 1..Len(ids) /\ Len(ids) \in Nat
    BY <1>3, LenProperties
  <2>2. QED
    BY <1>1, <1>2, <2>1
<1>5. /\ Len(kids) = Len(ids)
      /\ \A i \in 1..Len(ids) : kids[i] = table[ids[i]]
  BY <1>3, PayloadsFacts
<1>6. /\ DOMAIN us = 1..Len(ids)
      /\ \A i \in 1..Len(ids) : us[i] = units[ids[i]]
  BY UnitsAtFacts
<1> HIDE DEF kids, us
<1>7. \A i \in 1..Len(kids) : SameKind(g[g[n].kids[i]], kids[i], us[i])
  BY <1>1, <1>2, <1>4, <1>5, <1>6 DEF KindsMatch
<1>8. Fits(g[n], kids, us)
  BY <1>4, <1>5, <1>6, <1>7, Accepted
<1>9. QED
  BY <1>8 DEF kids, us, ids

KindInv ==
  /\ IsFiniteSet(DOMAIN canonNodes)
  /\ IsAcyclic(canonNodes)
  /\ \E units : /\ TableTyped(canonNodes, units)
                /\ KindsMatch(graph, memo, canonNodes, units)
  /\ pc \in {"validate", "walk", "prune"} => IsContract(graph[root])

LEMMA KindBuilds ==
  ASSUME IInv, TableInv, KindInv, Build
  PROVE  KindInv'
<1> DEFINE n == Top.node
           payload == BuildPayload(n)
           ids == MemoIds(memo, graph[n].kids)
<1>1. PICK id \in Answers(digests, payload) :
        /\ id \in DOMAIN canonNodes => canonNodes[id] = payload
        /\ canonNodes' = Extended(canonNodes, id, payload)
        /\ memo' = Extended(memo, n, id)
  BY DEF Build, Register
<1>2. Popping(TRUE) /\ graph' = graph /\ root' = root /\ pc' = pc /\ pc = "walk"
  BY DEF Build, Register, callArgs, Popping
<1>3. /\ n \in Node \ DOMAIN memo
      /\ NodeAccepted(graph, n)
      /\ ChildSet(graph, n) \subseteq DOMAIN memo
      /\ payload = PayloadOf(graph[n], ids, canonNodes)
      /\ PayloadIn(payload, canonNodes)
  BY <1>2, Surfacing
<1>4. graph \in Graphs /\ TableIn(canonNodes) /\ \A k \in DOMAIN memo : memo[k] \in DOMAIN canonNodes
  BY DEF IInv, TableInv, Accounted
<1> HIDE DEF n, payload, ids
<1>5. PICK units : /\ TableTyped(canonNodes, units)
                   /\ KindsMatch(graph, memo, canonNodes, units)
  BY DEF KindInv
<1>6. ids \in Seq(DOMAIN canonNodes) /\ SourceOK(graph[n], ids)
  BY <1>3, <1>4, SourceFacts DEF ids
<1>7. Fits(graph[n], PayloadsOf(ids, canonNodes), UnitsAt(units, ids))
  BY <1>3, <1>4, <1>5, SourceFits DEF ids
<1>8. Stands(graph[n], payload, canonNodes, units)
  <2> DEFINE rec == graph[n]
  <2>1. SourceOK(rec, ids) /\ Fits(rec, PayloadsOf(ids, canonNodes), UnitsAt(units, ids))
    BY <1>6, <1>7
  <2> HIDE DEF rec
  <2>2. Stands(rec, PayloadOf(rec, ids, canonNodes), canonNodes, units)
    BY <1>4, <1>5, <1>6, <2>1, PayloadStands
  <2>3. QED
    BY <1>3, <2>2 DEF rec
<1>9. payload.kids \in Seq(DOMAIN canonNodes)
  BY <1>3 DEF PayloadIn
<1>10. \E later : /\ TableTyped(canonNodes', later)
                  /\ KindsMatch(graph', memo', canonNodes', later)
  <2>1. n \notin DOMAIN memo
    BY <1>3
  <2>2. \E later : /\ TableTyped(Extended(canonNodes, id, payload), later)
                   /\ KindsMatch(graph, Extended(memo, n, id),
                                 Extended(canonNodes, id, payload), later)
    BY <1>1, <1>4, <1>5, <1>8, <1>9, <2>1, KindsGrow
  <2>3. QED
    BY <1>1, <1>2, <2>2
<1>11. IsFiniteSet(DOMAIN canonNodes')
  <2>1. DOMAIN canonNodes' = DOMAIN canonNodes \cup {id}
    BY <1>1 DEF Extended
  <2>2. QED
    BY <2>1, FS_AddElement DEF KindInv
<1>12. IsAcyclic(canonNodes')
  <2>1. CASE id \in DOMAIN canonNodes
    <3>1. canonNodes' = [x \in DOMAIN canonNodes |-> canonNodes[x]]
      BY <1>1, <2>1 DEF Extended
    <3>2. DOMAIN canonNodes' = DOMAIN canonNodes
          /\ \A x \in DOMAIN canonNodes : canonNodes'[x] = canonNodes[x]
      BY <3>1
    <3>3. QED
      BY <3>2 DEF KindInv, IsAcyclic
  <2>2. CASE id \notin DOMAIN canonNodes
    <3>1. Seq2Set(payload.kids) \subseteq DOMAIN canonNodes
      BY <1>9, ElementOfSeq DEF Seq2Set
    <3>2. ASSUME NEW x \in DOMAIN canonNodes
          PROVE  Seq2Set(canonNodes[x].kids) \subseteq DOMAIN canonNodes
      <4>1. canonNodes[x].kids \in Seq(DOMAIN canonNodes)
        BY <1>4 DEF TableIn, PayloadIn
      <4>2. QED
        BY <4>1, ElementOfSeq DEF Seq2Set
    <3>3. QED
      BY <1>1, <2>2, <3>1, <3>2, AcyclicGrows DEF KindInv
  <2>3. QED
    BY <2>1, <2>2
<1>13. QED
  BY <1>2, <1>10, <1>11, <1>12 DEF KindInv

LEMMA KindFresh == Fresh => KindInv
<1>1. SUFFICES ASSUME Fresh PROVE KindInv
  OBVIOUS
<1>2. DOMAIN canonNodes = {} /\ DOMAIN memo = {} /\ pc = "config"
  BY <1>1 DEF Fresh
<1>3. TableTyped(canonNodes, canonNodes) /\ KindsMatch(graph, memo, canonNodes, canonNodes)
  BY <1>2 DEF TableTyped, KindsMatch
<1>4. IsFiniteSet(DOMAIN canonNodes) /\ IsAcyclic(canonNodes)
  BY <1>2, FS_EmptySet DEF IsAcyclic
<1>5. QED
  BY <1>2, <1>3, <1>4 DEF KindInv

LEMMA KindNext == IInv /\ TableInv /\ KindInv /\ [Next]_vars => KindInv'
<1>1. SUFFICES ASSUME IInv, TableInv, KindInv, [Next]_vars PROVE KindInv'
  OBVIOUS
<1>2. CASE Build
  BY <1>1, <1>2, KindBuilds
<1>3. ASSUME UNCHANGED <<graph, root, memo, canonNodes>>,
             pc' \in {"validate", "walk", "prune"} => IsContract(graph[root])
      PROVE  KindInv'
  BY <1>1, <1>3 DEF KindInv
<1>4. CASE \/ RejectConfig \/ AcceptConfig \/ ValidationFails \/ FoldEscapes
           \/ ValidationPasses \/ SkipMemoized \/ Enter \/ DetectCollision
           \/ BeginPrune \/ PruneSeen \/ PruneVisit
           \/ AssembleTooComplex \/ Assemble \/ UNCHANGED vars
  <2>1. UNCHANGED <<graph, root, memo, canonNodes>>
    BY <1>4 DEF RejectConfig, AcceptConfig, FoldEscapes, ValidationFails,
       ValidationPasses, SkipMemoized, Enter, DetectCollision, Register, BeginPrune,
       PruneSeen, PruneVisit, AssembleTooComplex, Assemble, callArgs, core, oracle, vars
  <2>2. CASE AcceptConfig
    BY <1>3, <2>1, <2>2 DEF AcceptConfig
  <2>3. CASE RejectConfig \/ FoldEscapes \/ ValidationFails \/ DetectCollision
             \/ AssembleTooComplex \/ Assemble
    <3>1. pc' = "done"
      BY <2>3 DEF RejectConfig, FoldEscapes, ValidationFails, DetectCollision, AssembleTooComplex,
                  Assemble, Raise
    <3>2. QED
      BY <1>3, <2>1, <3>1
  <2>4. CASE \/ ValidationPasses \/ SkipMemoized \/ Enter \/ BeginPrune \/ PruneSeen
             \/ PruneVisit \/ UNCHANGED vars
    <3>1. pc' \in {"validate", "walk", "prune"} => pc \in {"validate", "walk", "prune"}
      BY <2>4 DEF ValidationPasses, SkipMemoized, Enter, Popping, BeginPrune, PruneSeen,
                  PruneVisit, Raise, vars
    <3>2. QED
      BY <1>1, <1>3, <2>1, <3>1 DEF KindInv
  <2>5. QED
    BY <1>4, <2>2, <2>3, <2>4
<1>5. QED
  BY <1>1, <1>2, <1>4 DEF Next

LEMMA KindHolds == Spec => []KindInv
BY FreshInit, KindFresh, KindNext, InvariantHolds, TableHolds, PTL DEF Spec

-----------------------------------------------------------------------------
(* Documents are contracts again.                                          *)
\* What the prune traversal has visited is a contract again.
LEMMA PrunedIsWellFormed ==
  ASSUME NEW table, TableIn(table), IsFiniteSet(DOMAIN table), IsAcyclic(table),
         \A a, b \in DOMAIN table : table[a] = table[b] => a = b,
         NEW units, TableTyped(table, units),
         NEW r, NEW R, Pruning(table, r, << >>, R), table[r].type \in ContractTypes,
         NEW document, document = [root |-> r, nodes |-> [id \in R |-> table[id]]]
  PROVE  IsWellFormed(document)
<1> DEFINE nodes == document.nodes
           u == [id \in R |-> units[id]]
<1>1. Seq2Set(<< >>) = {}
  BY DEF Seq2Set
<1>2. /\ R \subseteq DOMAIN table /\ r \in R
      /\ \A id \in R : Seq2Set(table[id].kids) \subseteq R
  BY <1>1 DEF Pruning
<1>3. document.root = r /\ DOMAIN nodes = R /\ \A id \in R : nodes[id] = table[id]
  OBVIOUS
<1>4. IsReach(document)
  BY PruneEnds
<1> HIDE DEF nodes
<1>5. ASSUME NEW id \in R
      PROVE  /\ table[id].kids \in Seq(R) /\ PayloadIn(table[id], table)
             /\ TypedIn(table[id], table, units) /\ units[id] = UnitAt(table[id], units)
             /\ \A i \in 1..Len(table[id].kids) : table[id].kids[i] \in R
  <2> DEFINE kids == table[id].kids
  <2>1. PayloadIn(table[id], table) /\ kids \in Seq(DOMAIN table)
    BY <1>2 DEF TableIn, PayloadIn
  <2>2. \A i \in 1..Len(kids) : kids[i] \in R
    BY <1>2 DEF Seq2Set
  <2>3. kids \in Seq(R)
    BY <2>1, <2>2, NarrowerSeq
  <2>4. TypedIn(table[id], table, units) /\ units[id] = UnitAt(table[id], units)
    BY <1>2 DEF TableTyped
  <2>5. QED
    BY <2>1, <2>2, <2>3, <2>4
<1>6. DOMAIN nodes \subseteq Nat /\ IsFiniteSet(DOMAIN nodes)
  BY <1>2, <1>3, FS_Subset DEF TableIn
<1>7. \A id \in DOMAIN nodes : nodes[id].kids \in Seq(DOMAIN nodes)
  BY <1>3, <1>5
<1>8. IsAcyclic(nodes)
  <2>1. ASSUME NEW S \in SUBSET R, S # {}
        PROVE  \E id \in S : Seq2Set(nodes[id].kids) \cap S = {}
    <3>1. PICK id \in S : Seq2Set(table[id].kids) \cap S = {}
      BY <1>2, <2>1 DEF IsAcyclic
    <3>2. QED
      BY <1>3, <3>1
  <2>2. QED
    BY <1>3, <2>1 DEF IsAcyclic
<1>9. \A a, b \in DOMAIN nodes : nodes[a] = nodes[b] => a = b
  BY <1>2, <1>3
<1>10. nodes[document.root].type \in ContractTypes
  BY <1>2, <1>3
<1>11. ASSUME NEW id \in R
       PROVE  /\ UnitsAt(u, nodes[id].kids) = UnitsAt(units, table[id].kids)
              /\ PayloadsOf(nodes[id].kids, nodes) = PayloadsOf(table[id].kids, table)
  <2> DEFINE kids == table[id].kids
  <2>1. \A i \in 1..Len(kids) : u[kids[i]] = units[kids[i]] /\ nodes[kids[i]] = table[kids[i]]
    BY <1>3, <1>5
  <2> HIDE DEF u
  <2>2. UnitsAt(u, kids) = UnitsAt(units, kids) /\ PayloadsOf(kids, nodes) = PayloadsOf(kids, table)
    BY <2>1 DEF UnitsAt, PayloadsOf
  <2>3. QED
    BY <1>3, <2>2
<1>12. u = [id \in DOMAIN nodes |-> u[id]] /\ \A id \in R : u[id] = units[id]
  BY <1>3
<1> HIDE DEF u
<1>13. UnitsOf(nodes) = u
  <2>1. \A id \in DOMAIN nodes : u[id] = UnitAt(nodes[id], u)
    BY <1>3, <1>5, <1>11, <1>12 DEF UnitAt
  <2>2. QED
    BY <1>7, <1>8, <1>12, <2>1, UnitsAreUnique
<1>14. IsTyped(nodes)
  <2>1. ASSUME NEW id \in DOMAIN nodes
        PROVE  /\ nodes[id].type \in SupportedTypes
               /\ nodes[id] = Payload(nodes[id].type, nodes[id].kids, nodes[id].unit,
                                      nodes[id].val, nodes[id].num, nodes[id].op)
               /\ OperandsFit(nodes[id], PayloadsOf(nodes[id].kids, nodes))
               /\ UnitsFit(nodes[id], UnitsAt(u, nodes[id].kids))
    <3> DEFINE p == table[id]
    <3>1. nodes[id] = p /\ id \in R
      BY <1>3
    <3>2. p.type \in SupportedTypes /\ TypedIn(p, table, units)
      BY <1>5, <3>1 DEF PayloadIn
    <3>3. /\ UnitsAt(u, p.kids) = UnitsAt(units, p.kids)
          /\ PayloadsOf(p.kids, nodes) = PayloadsOf(p.kids, table)
      BY <1>11, <3>1
    <3> HIDE DEF p
    <3>4. QED
      BY <3>1, <3>2, <3>3 DEF TypedIn
  <2>2. QED
    BY <1>13, <2>1 DEF IsTyped
<1>15. QED
  BY <1>4, <1>6, <1>7, <1>8, <1>9, <1>10, <1>14 DEF IsWellFormed, nodes

LEMMA WellFormedNext ==
  /\ IInv /\ TableInv /\ PruneInv /\ KindInv
  /\ DocumentIsWellFormed /\ [Next]_vars
  => DocumentIsWellFormed'
<1>1. SUFFICES ASSUME IInv, TableInv, PruneInv, KindInv, DocumentIsWellFormed, [Next]_vars
               PROVE  DocumentIsWellFormed'
  OBVIOUS
<1>2. CASE Assemble
  <2>1. pc = "prune" /\ pruneStack = << >> /\ result'.document = Document
    BY <1>2 DEF Assemble
  <2>2. Pruning(canonNodes, memo[root], << >>, reachable) /\ TableIn(canonNodes)
    BY <1>1, <2>1 DEF PruneInv, TableInv
  <2>3. PICK units : /\ TableTyped(canonNodes, units)
                     /\ KindsMatch(graph, memo, canonNodes, units)
    BY <1>1 DEF KindInv
  <2>4. root \in DOMAIN memo /\ IsContract(graph[root])
    BY <1>1, <2>1, ReachFacts DEF IInv, KindInv, Reached
  <2>5. canonNodes[memo[root]].type \in ContractTypes
    BY <2>3, <2>4 DEF KindsMatch, SameKind
  <2>6. \A a, b \in DOMAIN canonNodes : canonNodes[a] = canonNodes[b] => a = b
    BY <1>1 DEF TableInv, ContentAddressed
  <2>7. Document = [root |-> memo[root], nodes |-> [id \in reachable |-> canonNodes[id]]]
    BY DEF Document
  <2> DEFINE r == memo[root]
             document == Document
  <2>8. IsWellFormed(document)
    <3>1. /\ Pruning(canonNodes, r, << >>, reachable)
          /\ canonNodes[r].type \in ContractTypes
          /\ document = [root |-> r, nodes |-> [id \in reachable |-> canonNodes[id]]]
      BY <2>2, <2>5, <2>7
    <3> HIDE DEF r, document
    <3>2. IsFiniteSet(DOMAIN canonNodes) /\ IsAcyclic(canonNodes)
      BY <1>1 DEF KindInv
    <3>3. QED
      BY <2>2, <2>3, <2>6, <3>1, <3>2, PrunedIsWellFormed
  <2>9. QED
    BY <2>1, <2>8 DEF DocumentIsWellFormed
<1>3. ASSUME NEW kind, kind # "canonical", Raise(kind) PROVE DocumentIsWellFormed'
  BY <1>3, NoErrorIsCanonical DEF DocumentIsWellFormed
<1>4. CASE RejectConfig \/ FoldEscapes \/ DetectCollision \/ AssembleTooComplex
  BY <1>3, <1>4 DEF RejectConfig, FoldEscapes, DetectCollision, AssembleTooComplex
<1>5. CASE ValidationFails
  <2>1. PICK kind \in Failures : Raise(Translation(kind))
    BY <1>5 DEF ValidationFails, Verdicts
  <2>2. Translation(kind) # "canonical"
    BY <2>1, Translated DEF CanonicalizationErrors
  <2>3. QED
    BY <1>3, <2>1, <2>2
<1>6. CASE PruneVisit
  <2>1. result' = result \/ Raise("CanonicalizationError")
    BY <1>6 DEF PruneVisit
  <2>2. QED
    BY <1>1, <1>3, <2>1 DEF DocumentIsWellFormed
<1>7. CASE \/ AcceptConfig \/ ValidationPasses \/ SkipMemoized \/ Enter \/ Build
           \/ BeginPrune \/ PruneSeen \/ UNCHANGED vars
  <2>1. result' = result
    BY <1>7 DEF AcceptConfig, ValidationPasses, SkipMemoized, Enter, Build, BeginPrune,
                PruneSeen, vars
  <2>2. QED
    BY <1>1, <2>1 DEF DocumentIsWellFormed
<1>8. QED
  BY <1>1, <1>2, <1>4, <1>5, <1>6, <1>7 DEF Next

\* The document describes a contract again: for every graph, limit and digest
\* function, what canonicalize_contract returns is closed under references and
\* nothing else than what its root reaches, refers to no node in a cycle, gives
\* every node the operands and units its constructor requires, and holds no
\* payload twice, although merging, folding and collapsing leave payloads behind
\* in the table that no object stands for any more.
THEOREM DocumentsAreWellFormed == Spec => []DocumentIsWellFormed
<1>1. Init => DocumentIsWellFormed
  BY DEF Init, NoResult, DocumentIsWellFormed
<1>2. QED
  BY <1>1, WellFormedNext, InvariantHolds, TableHolds, PruneHolds, KindHolds, PTL DEF Spec

-----------------------------------------------------------------------------
(* Types.                                                                  *)

WalkTyped == pc = "walk" => stack \in Seq([node : Node, leaving : BOOLEAN])

TypeInv ==
  /\ stack \in Seq([node : Node, leaving : BOOLEAN])
  /\ DigestsTyped(contractDigests)

LEMMA StackTyped == IInv => WalkTyped
<1>1. SUFFICES ASSUME IInv, pc = "walk"
               PROVE  stack \in Seq([node : Node, leaving : BOOLEAN])
  BY DEF WalkTyped
<1>2. Reached \subseteq Node
  BY <1>1, ReachFacts DEF IInv, Reached
<1>3. Frames(Reached) \subseteq [node : Node, leaving : BOOLEAN]
  BY <1>2 DEF Frames
<1>4. QED
  BY <1>1, <1>3, WiderSeq DEF IInv, WalkInv

LEMMA TypeNext == TypeInv /\ WalkTyped' /\ [Next]_vars => TypeInv'
<1>1. SUFFICES ASSUME TypeInv, WalkTyped', [Next]_vars PROVE TypeInv'
  OBVIOUS
<1>2. DigestsTyped(contractDigests')
  <2>1. CASE Assemble
    <3>1. PICK id \in Answers(contractDigests, Document) :
            contractDigests' = Extended(contractDigests, Document, id)
      BY <2>1 DEF Assemble
    <3>2. QED
      BY <1>1, <3>1, AnswersTyped DEF TypeInv
  <2>2. CASE ~Assemble
    <3>1. contractDigests' = contractDigests
      BY <1>1, <2>2 DEF Next, vars, RejectConfig, AcceptConfig, FoldEscapes, ValidationFails,
         ValidationPasses, SkipMemoized, Enter, Build, DetectCollision, Register,
         BeginPrune, PruneSeen, PruneVisit, AssembleTooComplex, oracle
    <3>2. QED
      BY <1>1, <3>1 DEF TypeInv
  <2>3. QED
    BY <2>1, <2>2
<1>3. stack' \in Seq([node : Node, leaving : BOOLEAN])
  <2>1. CASE pc' = "walk"
    BY <1>1, <2>1 DEF WalkTyped
  <2>2. CASE DetectCollision
    <3>1. stack # << >> /\ stack' = Popped(stack)
      BY <2>2 DEF DetectCollision, Register, Popping, Rest, Popped
    <3>2. QED
      BY <1>1, <3>1, PopFacts DEF TypeInv, NonEmpty
  <2>3. CASE pc' # "walk" /\ ~DetectCollision
    <3>1. stack' = stack
      BY <1>1, <2>3 DEF Next, vars, RejectConfig, AcceptConfig, FoldEscapes, ValidationFails,
         ValidationPasses, SkipMemoized, Enter, Build, Register, Popping,
         BeginPrune, PruneSeen, PruneVisit, AssembleTooComplex, Assemble
    <3>2. QED
      BY <1>1, <3>1 DEF TypeInv
  <2>4. QED
    BY <2>1, <2>2, <2>3
<1>4. QED
  BY <1>2, <1>3 DEF TypeInv

LEMMA TypeHolds == Spec => []TypeInv
<1>1. Init => TypeInv
  <2>1. SUFFICES ASSUME Init PROVE TypeInv
    OBVIOUS
  <2>2. stack = << >> /\ DOMAIN contractDigests = {}
    BY <2>1 DEF Init
  <2>3. QED
    BY <2>2 DEF TypeInv, DigestsTyped
<1>2. QED
  BY <1>1, StackTyped, TypeNext, InvariantHolds, PTL DEF Spec

\* Every variable of canonicalize_contract keeps its type: ids are digests,
\* payloads are supported nodes with decimals for numbers.
THEOREM CanonicalTypes == Spec => []TypeOK
<1>1. IInv /\ TableInv /\ PruneInv /\ ArgumentsInv /\ TypeInv => TypeOK
  <2>1. SUFFICES ASSUME IInv, TableInv, PruneInv, ArgumentsInv, TypeInv PROVE TypeOK
    OBVIOUS
  <2>2. /\ graph \in Graphs /\ root \in Roots /\ config \in Configs
        /\ pc \in {"config", "validate", "walk", "prune", "done"}
        /\ result.kind \in {"none", "canonical"} \cup CanonicalizationErrors
    BY <2>1 DEF IInv, ArgumentsInv
  <2>3. stack \in Seq([node : Node, leaving : BOOLEAN])
    BY <2>1 DEF TypeInv
  <2>4. DOMAIN memo \subseteq Node /\ builds \in [Node -> Nat]
    BY <2>1, ReachFacts DEF IInv, MemoInv, BuildsInv, Reached
  <2>5. /\ DOMAIN canonNodes \subseteq Ids
        /\ \A n \in DOMAIN memo : memo[n] \in Ids
        /\ \A p \in DOMAIN digests : digests[p] \in Ids
    BY <2>1 DEF TableInv, Accounted, DigestsTyped
  <2>6. ASSUME NEW id \in DOMAIN canonNodes PROVE PayloadOK(canonNodes[id])
    <3>1. PayloadIn(canonNodes[id], canonNodes)
      BY <2>1 DEF TableInv, TableIn
    <3>2. Seq2Set(canonNodes[id].kids) \subseteq Ids
      BY <2>5, <3>1, ElementOfSeq DEF PayloadIn, Seq2Set
    <3>3. QED
      BY <3>1, <3>2 DEF PayloadOK, PayloadIn
  <2>7. \A d \in DOMAIN contractDigests : contractDigests[d] \in Ids
    BY <2>1 DEF TypeInv, DigestsTyped
  <2>8. pruneStack \in Seq(Ids) /\ reachable \subseteq Ids
    BY <2>1, <2>5, WiderSeq DEF PruneInv
  <2>9. QED
    BY <2>2, <2>3, <2>4, <2>5, <2>6, <2>7, <2>8 DEF TypeOK
<1>2. ArgumentsInv /\ [Next]_vars => ArgumentsInv'
  BY ArgumentsNext
<1>3. Spec => []ArgumentsInv
  BY FreshInit, ArgumentsFresh, <1>2, PTL DEF Spec
<1>4. QED
  BY <1>1, <1>3, InvariantHolds, TableHolds, PruneHolds, TypeHolds, PTL

-----------------------------------------------------------------------------
(* The size of a payload, of an unfolding and of a document.               *)

\* An operator has the operands of the object, or those of one of its branches,
\* or none.
LEMMA OperatorKids ==
  ASSUME NEW table, TableIn(table), NEW ids \in Seq(DOMAIN table), NEW rec,
         SourceOK(rec, ids), rec.type \notin MergedTypes,
         NEW p, p = OperatorPayload(rec, ids, PayloadsOf(ids, table))
  PROVE  \/ p.kids = ids \/ p.kids = << >>
         \/ Len(p.kids) = 2 /\ Len(ids) = 2
         \/ \E i \in 1..Len(ids) : p = table[ids[i]]
<1> DEFINE kids == PayloadsOf(ids, table)
           kept == Payload(rec.type, ids, "none", 0, DecZero, "")
           product == Payload(rec.type, Factors(ids), "none", 0, DecZero, "")
<1>1. /\ Len(ids) \in Nat /\ Len(kids) = Len(ids)
      /\ \A i \in 1..Len(ids) : ids[i] \in DOMAIN table /\ kids[i] = table[ids[i]]
  BY PayloadsFacts
<1>2. /\ rec.type \in SupportedTypes
      /\ rec.type \in DOMAIN Arity => Len(ids) = Arity[rec.type]
  BY DEF SourceOK
<1>3. /\ kept.kids = ids /\ product.kids = Factors(ids)
      /\ \A unit, num : NumberPayload(unit, num).kids = << >>
      /\ \A b : BooleanPayload(b).kids = << >>
  BY DEF Payload, NumberPayload, BooleanPayload
<1>4. Len(Factors(ids)) = 2
  BY DEF Factors
<1> HIDE DEF kids
<1>5. ASSUME NEW num, NEW q
      PROVE  \/ Fold(rec, num, q) = q \/ Fold(rec, num, q) = NumberPayload(rec.unit, num)
  BY DEF Fold
<1>6. CASE rec.type \in {"Number", "BooleanConstant", "Observable", "Payment", "Zero",
                         "Divide", "Both", "Scale", "Negate", "Comparison", "Not"}
  <2>1. \/ p = kept \/ p.kids = << >> \/ p.kids = ids
    BY <1>3, <1>6, Zenon DEF OperatorPayload, Payload, kids
  <2>2. QED
    BY <1>3, <2>1
<1>7. CASE rec.type = "Subtract"
  <2> DEFINE num == ExactSub(kids[1].num, kids[2].num)
  <2>0. p = IF AllLiterals(kids) THEN Fold(rec, num, kept) ELSE kept
    BY <1>7 DEF OperatorPayload, kids
  <2> HIDE DEF num, kept
  <2>1. p = kept \/ p = NumberPayload(rec.unit, num)
    BY <1>5, <2>0
  <2>2. QED
    BY <1>3, <2>1
<1>8. CASE rec.type = "Multiply"
  <2> DEFINE num == ExactMul(kids[1].num, kids[2].num)
  <2>0. p = IF AllLiterals(kids) THEN Fold(rec, num, product) ELSE product
    BY <1>8 DEF OperatorPayload, kids
  <2> HIDE DEF num, product
  <2>1. p = product \/ p.kids = << >>
    BY <1>3, <1>5, <2>0
  <2>2. Len(ids) = 2
    BY <1>2, <1>8 DEF Arity
  <2>3. QED
    BY <1>3, <1>4, <2>1, <2>2
<1>9. CASE rec.type \in {"ConditionalValue", "ConditionalContract"}
  <2>1. p = kept \/ p = kids[2] \/ p = kids[3]
    BY <1>9 DEF OperatorPayload, kids
  <2>2. Len(ids) = 3
    <3>1. CASE rec.type = "ConditionalValue"
      BY <1>2, <3>1 DEF Arity
    <3>2. CASE rec.type = "ConditionalContract"
      BY <1>2, <3>2 DEF Arity
    <3>3. QED
      BY <1>9, <3>1, <3>2
  <2>3. kids[2] = table[ids[2]] /\ kids[3] = table[ids[3]]
    BY <1>1, <2>2
  <2>4. 2 \in 1..Len(ids) /\ 3 \in 1..Len(ids)
    BY <2>2
  <2>5. QED
    BY <1>3, <2>1, <2>3, <2>4
<1>10. QED
  BY <1>2, <1>6, <1>7, <1>8, <1>9
     DEF SupportedTypes, ScalarTypes, BooleanTypes, ContractTypes, MergedTypes, CollectionTypes

\* A collection has the merged operands, or none.
LEMMA CollectionKids ==
  ASSUME NEW rec, rec.type \in MergedTypes, NEW ids, NEW kids
  PROVE  \/ CollectionPayload(rec, ids, kids).kids = ids
         \/ CollectionPayload(rec, ids, kids).kids = << >>
<1> DEFINE kept == Payload(rec.type, ids, "none", 0, DecZero, "")
           p == CollectionPayload(rec, ids, kids)
<1>1. kept.kids = ids
  BY DEF Payload
<1>2. /\ \A unit, num : NumberPayload(unit, num).kids = << >>
      /\ \A b : BooleanPayload(b).kids = << >>
  BY DEF Payload, NumberPayload, BooleanPayload
<1>3. ASSUME NEW num, NEW q
      PROVE  \/ Fold(rec, num, q) = q \/ Fold(rec, num, q) = NumberPayload(rec.unit, num)
  BY DEF Fold
<1>4. CASE rec.type = "Add"
  <2> DEFINE num == SumOf(kids)
  <2>1. p = IF AllLiterals(kids) THEN Fold(rec, num, kept) ELSE kept
    BY <1>4 DEF CollectionPayload
  <2> HIDE DEF num, kept, p
  <2>2. p = kept \/ p = NumberPayload(rec.unit, num)
    BY <1>3, <2>1
  <2>3. QED
    BY <1>1, <1>2, <2>2 DEF p
<1>5. CASE rec.type \in {"Maximum", "Minimum"}
  <2> DEFINE num == ExtremeOf(IF rec.type = "Maximum" THEN 1 ELSE -1, kids)
  <2>1. p = IF AllLiterals(kids) THEN NumberPayload(rec.unit, num) ELSE kept
    BY <1>5 DEF CollectionPayload
  <2> HIDE DEF num, kept, p
  <2>2. QED
    BY <1>1, <1>2, <2>1 DEF p
<1>6. CASE rec.type \in {"AllOf", "AnyOf"}
  <2>1. p = kept \/ \E b \in BOOLEAN : p = BooleanPayload(b)
    BY <1>6 DEF CollectionPayload
  <2> HIDE DEF kept, p
  <2>2. QED
    BY <1>1, <1>2, <2>1 DEF p
<1>7. QED
  BY <1>4, <1>5, <1>6 DEF MergedTypes, CollectionTypes

\* A payload is no wider than the payloads it is built from, with one more for
\* each.
LEMMA PayloadWidth ==
  ASSUME NEW table, TableIn(table), NEW ids \in Seq(DOMAIN table), NEW rec,
         SourceOK(rec, ids), NEW h,
         \A i \in 1..Len(ids) : h[i] \in Nat /\ Len(table[ids[i]].kids) + 1 <= h[i]
  PROVE  Len(PayloadOf(rec, ids, table).kids) <= Cardinality(Cells(h, 1..Len(ids)))
<1> DEFINE n == Len(ids)
           kids == PayloadsOf(ids, table)
           sum == Cardinality(Cells(h, 1..n))
           p == PayloadOf(rec, ids, table)
<1>1. /\ n \in Nat /\ Len(kids) = n
      /\ \A i \in 1..n : ids[i] \in DOMAIN table /\ kids[i] = table[ids[i]]
  BY PayloadsFacts
<1>2. Sized(h, 1..n)
  <2>1. IsFiniteSet(1..n)
    BY <1>1, FS_Interval
  <2>2. QED
    BY <2>1 DEF Sized
<1>3. sum \in Nat
  BY <1>2, CellsFinite
<1>4. \A i \in 1..n : Len(kids[i].kids) \in Nat
  <2>1. ASSUME NEW id \in DOMAIN table PROVE Len(table[id].kids) \in Nat
    BY <2>1, LenProperties DEF TableIn, PayloadIn
  <2>2. QED
    BY <1>1, <2>1
<1>5. \A i \in 1..n : h[i] \in Nat /\ h[i] >= 1 /\ Len(kids[i].kids) <= h[i]
  <2>1. ASSUME NEW i \in 1..n PROVE h[i] >= 1 /\ Len(kids[i].kids) <= h[i]
    <3>1. /\ Len(kids[i].kids) + 1 <= h[i] /\ h[i] \in Nat
          /\ Len(kids[i].kids) \in Nat
      BY <1>1, <1>4
    <3>2. QED
      BY <3>1
  <2>2. QED
    BY <2>1
<1>6. n <= sum
  BY <1>1, <1>5, CellsCount
<1>7. \A i \in 1..n : h[i] <= sum
  BY <1>2, CellsOfSome
<1> SUFFICES Len(p.kids) <= sum
  OBVIOUS
<1> HIDE DEF n, kids, sum, p
<1>8. Len(<< >>) <= sum
  BY <1>3
<1>9. CASE rec.type \notin MergedTypes
  <2>1. p = OperatorPayload(rec, ids, kids)
    BY <1>9 DEF PayloadOf, p, kids
  <2>2. \/ p.kids = ids \/ p.kids = << >>
        \/ Len(p.kids) = 2 /\ n = 2
        \/ \E i \in 1..n : p = table[ids[i]]
    BY <1>9, <2>1, OperatorKids DEF kids, n
  <2>3. CASE \E i \in 1..n : p = table[ids[i]]
    <3>1. PICK i \in 1..n : p = kids[i]
      BY <1>1, <2>3
    <3>2. /\ Len(kids[i].kids) <= h[i] /\ h[i] <= sum
          /\ Len(kids[i].kids) \in Nat /\ h[i] \in Nat
      BY <1>4, <1>5, <1>7
    <3>3. QED
      BY <1>3, <3>1, <3>2
  <2>4. CASE p.kids = ids \/ (Len(p.kids) = 2 /\ n = 2)
    BY <1>6, <2>4 DEF n
  <2>5. CASE p.kids = << >>
    BY <1>8, <2>5
  <2>6. QED
    BY <2>2, <2>3, <2>4, <2>5
<1>10. CASE rec.type \in MergedTypes
  <2> DEFINE flat == Flattened(rec.type, ids, kids)
             operands == SortedIds(flat)
             U == Unmerged(rec.type, table)
             A == NonEmptySeqs(U)
             ss == OperandLists(rec.type, ids, kids)
  <2>1. flat = FlattenSeq(ss)
    BY DEF Flattened, OperandLists
  <2>2. ids # << >>
    BY <1>10 DEF SourceOK
  <2>3. ss \in NonEmptySeqs(A) /\ Len(ss) = n
    BY <1>10, <2>2, MergedOperands DEF kids, n
  <2>4. ASSUME NEW i \in 1..n PROVE Len(ss[i]) <= h[i]
    <3>1. ss[i] = kids[i].kids \/ ss[i] = << ids[i] >>
      BY DEF OperandLists, n
    <3>2. Len(<< ids[i] >>) = 1
      OBVIOUS
    <3>3. QED
      BY <1>5, <3>1, <3>2
  <2>5. flat \in A
    BY <1>10, <2>2, MergedOperands DEF kids
  <2> HIDE DEF ss, flat
  <2>6. Len(flat) <= sum
    BY <1>2, <2>1, <2>3, <2>4, FlattenLength DEF sum
  <2>7. U \in SUBSET Nat /\ flat \in Seq(U)
    BY <2>5 DEF Unmerged, TableIn, NonEmptySeqs
  <2>8. Len(operands) = Len(flat)
    <3> HIDE DEF U
    <3>1. QED
      BY <2>7, SortedFacts
  <2> HIDE DEF operands
  <2>9. p = CollectionPayload(rec, operands, PayloadsOf(operands, table))
    BY <1>10 DEF PayloadOf, p, operands, flat, kids
  <2>10. p.kids = operands \/ p.kids = << >>
    BY <1>10, <2>9, CollectionKids
  <2>11. QED
    BY <1>8, <2>6, <2>8, <2>10
<1>11. QED
  BY <1>9, <1>10

\* The graph below R: children stay in it and no set of its objects is cyclic.
Grounded(kids, R) ==
  /\ IsFiniteSet(R)
  /\ \A n \in R : kids[n] \in Seq(R)
  /\ \A S \in SUBSET R : S # {} => \E n \in S : Seq2Set(kids[n]) \cap S = {}

WeightAt(s, w) == 1 + Cardinality(Cells(Along(w, s), DOMAIN s))

\* On S, w is one more than the sum of what it is on the children.
Weighs(kids, S, w) == \A n \in S : w[n] \in Nat /\ w[n] = WeightAt(kids[n], w)

LEMMA AlongFacts ==
  ASSUME NEW R, NEW s \in Seq(R), NEW w, \A i \in 1..Len(s) : w[s[i]] \in Nat
  PROVE  /\ Len(s) \in Nat /\ DOMAIN s = 1..Len(s)
         /\ Sized(Along(w, s), DOMAIN s)
         /\ Cardinality(Cells(Along(w, s), DOMAIN s)) \in Nat
         /\ WeightAt(s, w) \in Nat
<1>1. Len(s) \in Nat /\ DOMAIN s = 1..Len(s)
  BY LenProperties
<1>2. IsFiniteSet(1..Len(s))
  BY <1>1, FS_Interval
<1>3. Sized(Along(w, s), DOMAIN s)
  BY <1>1, <1>2 DEF Sized, Along
<1>4. Cardinality(Cells(Along(w, s), DOMAIN s)) \in Nat
  BY <1>3, CellsFinite
<1>5. WeightAt(s, w) \in Nat
  BY <1>4 DEF WeightAt
<1>6. QED
  BY <1>1, <1>3, <1>4, <1>5

LEMMA WeightSame ==
  ASSUME NEW s, NEW S, s \in Seq(S), NEW u, NEW w, \A x \in S : u[x] = w[x]
  PROVE  WeightAt(s, u) = WeightAt(s, w)
<1>1. DOMAIN s = 1..Len(s) /\ \A i \in 1..Len(s) : s[i] \in S
  BY LenProperties, ElementOfSeq
<1>2. Along(u, s) = Along(w, s)
  BY <1>1 DEF Along
<1>3. QED
  BY <1>2 DEF WeightAt

LEMMA WeightsExist ==
  ASSUME NEW kids, NEW R, Grounded(kids, R)
  PROVE  \E w : Weighs(kids, R, w)
<1> DEFINE N == Cardinality(R)
           Down(S) == \A x \in S : kids[x] \in Seq(S)
           Done(k) == \E S \in SUBSET R : /\ Cardinality(S) = k /\ Down(S)
                                         /\ \E u : Weighs(kids, S, u)
           T == {k \in Nat : Done(k)}
<1>1. N \in Nat
  BY FS_CardinalityType DEF Grounded
<1>2. 0 \in T
  <2>1. {} \in SUBSET R /\ Cardinality({}) = 0
    BY FS_EmptySet
  <2>2. Down({}) /\ Weighs(kids, {}, << >>)
    BY DEF Weighs
  <2>3. QED
    BY <2>1, <2>2
<1>3. ASSUME NEW k \in 0..(N - 1), k \in T PROVE k + 1 \in T
  <2>1. PICK S \in SUBSET R : /\ Cardinality(S) = k /\ Down(S)
                              /\ \E u : Weighs(kids, S, u)
    BY <1>3
  <2>2. PICK u : Weighs(kids, S, u)
    BY <2>1
  <2>3. R \ S # {}
    <3>1. S # R
      BY <1>1, <2>1
    <3>2. QED
      BY <3>1
  <2>4. PICK x \in R \ S : Seq2Set(kids[x]) \cap (R \ S) = {}
    BY <2>3 DEF Grounded
  <2>5. kids[x] \in Seq(S)
    <3>1. kids[x] \in Seq(R)
      BY DEF Grounded
    <3>2. \A i \in 1..Len(kids[x]) : kids[x][i] \in R
      BY <3>1, ElementOfSeq
    <3>3. \A i \in 1..Len(kids[x]) : kids[x][i] \in S
      BY <2>4, <3>2 DEF Seq2Set
    <3>4. QED
      BY <3>1, <3>3, NarrowerSeq
  <2> DEFINE S2 == S \cup {x}
             v == [y \in S2 |-> IF y = x THEN WeightAt(kids[x], u) ELSE u[y]]
  <2>6. S2 \in SUBSET R /\ Cardinality(S2) = k + 1
    <3>1. IsFiniteSet(S) /\ x \notin S
      BY FS_Subset DEF Grounded
    <3>2. QED
      BY <2>1, <3>1, FS_AddElement
  <2>7. \A y \in S2 : kids[y] \in Seq(S)
    BY <2>1, <2>5
  <2>8. \A y \in S : v[y] = u[y]
    OBVIOUS
  <2>9. v[x] = WeightAt(kids[x], u)
    OBVIOUS
  <2> HIDE DEF v
  <2>10. ASSUME NEW y \in S2 PROVE WeightAt(kids[y], v) = WeightAt(kids[y], u)
    <3> DEFINE s == kids[y]
    <3>1. s \in Seq(S)
      BY <2>7
    <3> HIDE DEF s
    <3>2. WeightAt(s, v) = WeightAt(s, u)
      BY <2>8, <3>1, WeightSame
    <3>3. QED
      BY <3>2 DEF s
  <2>11. WeightAt(kids[x], u) \in Nat
    <3>1. \A i \in 1..Len(kids[x]) : u[kids[x][i]] \in Nat
      BY <2>2, <2>5, ElementOfSeq DEF Weighs
    <3>2. QED
      BY <2>5, <3>1, AlongFacts
  <2>12. Weighs(kids, S2, v)
    BY <2>2, <2>8, <2>9, <2>10, <2>11 DEF Weighs
  <2>13. Down(S2)
    <3>1. S \subseteq S2
      OBVIOUS
    <3> HIDE DEF S2
    <3>2. QED
      BY <2>7, <3>1, WiderSeq
  <2> HIDE DEF S2, Down
  <2>14. k + 1 \in Nat /\ Done(k + 1)
    BY <1>1, <2>6, <2>12, <2>13
  <2>15. QED
    BY <2>14
<1>4. N \in T
  <2> HIDE DEF T
  <2>1. 0..N \subseteq T
    BY <1>1, <1>2, <1>3, Climb
  <2>2. QED
    BY <1>1, <2>1
<1>5. PICK S \in SUBSET R : Cardinality(S) = N /\ \E u : Weighs(kids, S, u)
  BY <1>4
<1>6. S = R
  BY <1>5, FS_Subset DEF Grounded
<1>7. QED
  BY <1>5, <1>6

\* UnfoldedSize adds up the weights.
LEMMA UnfoldedIsSum ==
  ASSUME NEW g, NEW r, NEW kids, kids = [n \in Reach(g, r) |-> g[n].kids],
         Grounded(kids, Reach(g, r))
  PROVE  \E w : /\ Weighs(kids, Reach(g, r), w)
                /\ UnfoldedSize(g, r) = Cardinality(Cells(w, Reach(g, r)))
<1> DEFINE R == Reach(g, r)
           Eq(f) == f = [n \in R |->
                           1 + FoldLeft(LAMBDA sum, k : sum + f[k], 0, g[n].kids)]
           f == CHOOSE e : Eq(e)
<1>1. UnfoldedSize(g, r) = MapThenSumSet(LAMBDA n : f[n], R)
  BY DEF UnfoldedSize
<1> HIDE DEF R
<1>2. \A n \in R : kids[n] = g[n].kids /\ kids[n] \in Seq(R)
  BY DEF Grounded, R
<1>3. Grounded(kids, R) /\ IsFiniteSet(R)
  BY DEF Grounded, R
\* Where w is a number on the children, the fold is what it should be.
<1>4. ASSUME NEW n \in R, NEW w, \A i \in 1..Len(kids[n]) : w[kids[n][i]] \in Nat
      PROVE  /\ 1 + FoldLeft(LAMBDA sum, k : sum + w[k], 0, g[n].kids) = WeightAt(kids[n], w)
             /\ WeightAt(kids[n], w) \in Nat
  <2> DEFINE s == g[n].kids
  <2>1. kids[n] = s /\ s \in Seq(R)
    BY <1>2
  <2>2. \A i \in 1..Len(s) : w[s[i]] \in Nat
    BY <1>4, <2>1
  <2> HIDE DEF s
  <2>3. Len(s) \in Nat /\ DOMAIN s = 1..Len(s) /\ WeightAt(s, w) \in Nat
    BY <2>1, <2>2, AlongFacts
  <2>4. FoldLeft(LAMBDA sum, k : sum + w[k], 0, s)
          = Cardinality(Cells(Along(w, s), DOMAIN s))
    BY <2>2, <2>3, SumAlongSeq
  <2>5. 1 + FoldLeft(LAMBDA sum, k : sum + w[k], 0, s) = WeightAt(s, w)
    BY <2>4 DEF WeightAt
  <2>6. QED
    BY <2>1, <2>3, <2>5 DEF s
<1>5. \A n \in R : \A i \in 1..Len(kids[n]) : kids[n][i] \in R
  BY <1>2, ElementOfSeq
<1>6. \E e : Eq(e)
  <2>1. PICK u : Weighs(kids, R, u)
    BY <1>3, WeightsExist
  <2> DEFINE v == [n \in R |-> u[n]]
  <2>2. \A n \in R : v[n] = u[n] /\ v[n] \in Nat
    BY <2>1 DEF Weighs
  <2>3. v = [n \in R |-> v[n]]
    OBVIOUS
  <2> HIDE DEF v
  <2>4. ASSUME NEW n \in R
        PROVE  v[n] = 1 + FoldLeft(LAMBDA sum, k : sum + v[k], 0, g[n].kids)
    <3>1. \A i \in 1..Len(kids[n]) : v[kids[n][i]] \in Nat
      BY <1>5, <2>2
    <3>2. 1 + FoldLeft(LAMBDA sum, k : sum + v[k], 0, g[n].kids) = WeightAt(kids[n], v)
      BY <1>4, <3>1
    <3>3. WeightAt(kids[n], v) = WeightAt(kids[n], u)
      <4> DEFINE s == kids[n]
      <4>1. s \in Seq(R)
        BY <1>2
      <4> HIDE DEF s
      <4>2. WeightAt(s, v) = WeightAt(s, u)
        BY <2>2, <4>1, WeightSame
      <4>3. QED
        BY <4>2 DEF s
    <3>4. u[n] = WeightAt(kids[n], u)
      BY <2>1 DEF Weighs
    <3>5. QED
      BY <2>2, <3>2, <3>3, <3>4
  <2>5. Eq(v)
    BY <2>3, <2>4
  <2>6. QED
    BY <2>5
<1>7. Eq(f)
  BY <1>6
<1> HIDE DEF f
<1>8. \A n \in R : f[n] = 1 + FoldLeft(LAMBDA sum, k : sum + f[k], 0, g[n].kids)
  BY <1>7
<1> HIDE DEF Eq
<1>9. ASSUME NEW n \in R, \A i \in 1..Len(kids[n]) : f[kids[n][i]] \in Nat
      PROVE  f[n] = WeightAt(kids[n], f) /\ f[n] \in Nat
  <2>1. /\ 1 + FoldLeft(LAMBDA sum, k : sum + f[k], 0, g[n].kids) = WeightAt(kids[n], f)
        /\ WeightAt(kids[n], f) \in Nat
    BY <1>4, <1>9
  <2>2. f[n] = 1 + FoldLeft(LAMBDA sum, k : sum + f[k], 0, g[n].kids)
    BY <1>8
  <2> DEFINE x == 1 + FoldLeft(LAMBDA sum, k : sum + f[k], 0, g[n].kids)
  <2> HIDE DEF x
  <2>3. f[n] = x /\ x = WeightAt(kids[n], f)
    BY <2>1, <2>2 DEF x
  <2>4. QED
    BY <2>1, <2>3
<1>10. \A n \in R : f[n] \in Nat
  <2> DEFINE S == {n \in R : f[n] \notin Nat}
  <2>1. ASSUME S # {} PROVE FALSE
    <3>1. PICK n \in S : Seq2Set(kids[n]) \cap S = {}
      BY <1>3, <2>1 DEF Grounded
    <3>2. n \in R /\ f[n] \notin Nat
      BY <3>1
    <3>3. \A i \in 1..Len(kids[n]) : f[kids[n][i]] \in Nat
      BY <1>5, <3>1, <3>2 DEF Seq2Set
    <3>4. QED
      BY <1>9, <3>2, <3>3
  <2>2. QED
    BY <2>1
<1>11. Weighs(kids, R, f)
  BY <1>5, <1>9, <1>10 DEF Weighs
<1>12. MapThenSumSet(LAMBDA n : f[n], R) = Cardinality(Cells(f, R))
  BY <1>3, <1>10, SumOverSet DEF Sized
<1>13. QED
  BY <1>1, <1>11, <1>12 DEF R

\* A graph with a depth has no cycle, and below any of its objects there is one
\* without children among them.
LEMMA DepthGrounds ==
  ASSUME NEW g, NEW r, NEW d \in Nat, FitsDepth(g, r, d),
         NEW S \in SUBSET Reach(g, r), S # {}
  PROVE  \E n \in S : ChildSet(g, n) \cap S = {}
<1> DEFINE R == Reach(g, r)
<1>1. PICK L \in [R -> 1..d] : IncreasingLabels(g, R, L)
  BY DEF FitsDepth
<1> DEFINE T == {d - L[n] : n \in S}
<1>2. \A n \in S : L[n] \in 1..d
  BY <1>1
<1>3. T \subseteq Nat /\ T # {}
  <2>1. ASSUME NEW n \in S PROVE d - L[n] \in Nat
    BY <1>2
  <2>2. QED
    BY <2>1
<1>4. PICK y \in T : \A z \in T : y <= z
  BY <1>3, LeastOf
<1>5. PICK n \in S : y = d - L[n]
  BY <1>4
<1>6. ASSUME NEW c \in ChildSet(g, n), c \in S PROVE FALSE
  <2>1. L[c] > L[n]
    BY <1>1, <1>5 DEF IncreasingLabels
  <2>2. d - L[n] <= d - L[c]
    BY <1>4, <1>5, <1>6
  <2>3. L[c] \in 1..d /\ L[n] \in 1..d
    BY <1>2, <1>6
  <2>4. QED
    BY <2>1, <2>2, <2>3
<1>7. QED
  BY <1>6

LEMMA AcceptableIsAcyclic ==
  ASSUME NEW g, NEW r, NEW d \in Nat, FitsDepth(g, r, d)
  PROVE  ~Cyclic(g, r)
BY DepthGrounds DEF Cyclic

\* Nodes placed at different elements of R, none of them wider than its place.
LEMMA BytesFit ==
  ASSUME NEW nodes, NEW document, document.nodes = nodes,
         NEW R, NEW w, Sized(w, R), NEW at,
         \A id \in DOMAIN nodes :
           /\ at[id] \in R /\ Len(nodes[id].kids) \in Nat
           /\ Len(nodes[id].kids) + 1 <= w[at[id]],
         \A a, b \in DOMAIN nodes : at[a] = at[b] => a = b
  PROVE  /\ Cardinality(DOMAIN nodes) \in Nat /\ Cardinality(DOMAIN nodes) <= Cardinality(R)
         /\ ByteLength(document) \in Nat /\ ByteLength(document) <= Cardinality(Cells(w, R))
<1> DEFINE D == DOMAIN nodes
           A == BytesOf(document)
           B == Cells(w, R)
           f == [id \in D |-> at[id]]
           g == [x \in A |-> <<at[x[1]], x[2] + 1>>]
<1>1. f \in Injection(D, R)
  BY DEF Injection, IsInjective
<1>2. IsFiniteSet(D) /\ Cardinality(D) <= Cardinality(R)
  BY <1>1, FS_Injection DEF Sized
<1>3. Cardinality(D) \in Nat
  BY <1>2, FS_CardinalityType
<1>4. \A x \in A : \E id \in D : \E i \in 0..Len(nodes[id].kids) : x = <<id, i>>
  BY DEF BytesOf
<1>5. ASSUME NEW id \in D, NEW i \in 0..Len(nodes[id].kids)
      PROVE  <<at[id], i + 1>> \in B
  <2>1. /\ at[id] \in R /\ Len(nodes[id].kids) \in Nat /\ w[at[id]] \in Nat
        /\ Len(nodes[id].kids) + 1 <= w[at[id]]
    BY DEF Sized
  <2>2. i + 1 \in 1..w[at[id]]
    BY <2>1
  <2>3. QED
    BY <2>1, <2>2, CellOf
<1> HIDE DEF A, B
<1>6. g \in [A -> B]
  <2>1. ASSUME NEW x \in A PROVE <<at[x[1]], x[2] + 1>> \in B
    <3>1. PICK id \in D : \E i \in 0..Len(nodes[id].kids) : x = <<id, i>>
      BY <1>4
    <3>2. PICK i \in 0..Len(nodes[id].kids) : x = <<id, i>>
      BY <3>1
    <3>3. x[1] = id /\ x[2] = i
      BY <3>2
    <3>4. QED
      BY <1>5, <3>3
  <2>2. QED
    BY <2>1
<1>7. ASSUME NEW x \in A, NEW y \in A, g[x] = g[y] PROVE x = y
  <2>1. PICK a \in D : \E i \in 0..Len(nodes[a].kids) : x = <<a, i>>
    BY <1>4
  <2>2. PICK i \in 0..Len(nodes[a].kids) : x = <<a, i>>
    BY <2>1
  <2>3. PICK b \in D : \E j \in 0..Len(nodes[b].kids) : y = <<b, j>>
    BY <1>4
  <2>4. PICK j \in 0..Len(nodes[b].kids) : y = <<b, j>>
    BY <2>3
  <2>5. g[x] = <<at[a], i + 1>> /\ g[y] = <<at[b], j + 1>>
    BY <2>2, <2>4
  <2>6. at[a] = at[b] /\ i + 1 = j + 1
    BY <1>7, <2>5
  <2>7. a = b /\ i = j
    <3>1. i \in Nat /\ j \in Nat
      BY <2>2, <2>4
    <3>2. QED
      BY <2>6, <3>1
  <2>8. QED
    BY <2>2, <2>4, <2>7
<1> HIDE DEF g
<1>8. g \in Injection(A, B)
  BY <1>6, <1>7 DEF Injection, IsInjective
<1>9. IsFiniteSet(B)
  BY CellsFinite DEF B
<1>10. IsFiniteSet(A) /\ Cardinality(A) <= Cardinality(B)
  BY <1>8, <1>9, FS_Injection
<1>11. Cardinality(A) \in Nat
  BY <1>10, FS_CardinalityType
<1>12. QED
  BY <1>2, <1>3, <1>10, <1>11 DEF ByteLength, A, B

-----------------------------------------------------------------------------
(* The promise of canonicalize_contract.                                   *)

CallInput == [graph |-> graph, root |-> root, config |-> config]

\* What is known before there is an answer: no answer is there, the gates that
\* have been passed were passed for good, every payload of the table belongs to
\* a finished object, and an oracle that draws in one order has not collided.
PromiseInv ==
  /\ pc # "done" => result = NoResult
  /\ pc \in {"validate", "walk", "prune"} =>
       config.schema = "supported" /\ config.form = "exact"
  /\ pc \in {"walk", "prune"} => Acceptable(graph, root, config.validation)
  /\ \A id \in DOMAIN canonNodes : \E n \in DOMAIN memo : memo[n] = id
  /\ Unclashed(digests)

LEMMA PromiseFresh == Fresh => PromiseInv
<1>1. SUFFICES ASSUME Fresh PROVE PromiseInv
  OBVIOUS
<1>2. DOMAIN canonNodes = {} /\ pc = "config" /\ result = NoResult
  BY <1>1 DEF Fresh
<1>3. QED
  BY <1>1, <1>2 DEF Fresh, PromiseInv

\* The kids of the objects below the root.
KidsBelow == [n \in Reach(graph, root) |-> graph[n].kids]

LEMMA GraphGrounded ==
  ASSUME IInv, config \in Configs, Acceptable(graph, root, config.validation)
  PROVE  Grounded(KidsBelow, Reach(graph, root)) /\ ~Cyclic(graph, root)
<1> DEFINE R == Reach(graph, root)
           d == config.validation.depth
<1>1. d \in Nat /\ FitsDepth(graph, root, d) /\ \A n \in R : NodeAccepted(graph, n)
  BY CanonicalAssumption DEF Acceptable
<1>2. R \subseteq Node /\ \A n \in R : ChildSet(graph, n) \subseteq R
  BY ReachFacts DEF IInv
<1>3. IsFiniteSet(R)
  BY <1>2, NodeAssumption, FS_Subset
<1> HIDE DEF d
<1>4. ASSUME NEW n \in R
      PROVE  /\ KidsBelow[n] \in Seq(R)
             /\ Seq2Set(KidsBelow[n]) = ChildSet(graph, n)
  <2>1. KidsBelow[n] = graph[n].kids
    BY DEF KidsBelow
  <2>2. n \in Node /\ graph \in Graphs /\ NodeAccepted(graph, n)
    BY <1>1, <1>2 DEF IInv
  <2>3. graph[n].kids \in Seq(Node) /\ ChildSet(graph, n) = Seq2Set(graph[n].kids)
    BY <2>2, KidsFacts
  <2>4. \A i \in 1..Len(graph[n].kids) : graph[n].kids[i] \in R
    BY <1>2, <2>3 DEF Seq2Set
  <2> HIDE DEF R
  <2>5. graph[n].kids \in Seq(R)
    BY <2>3, <2>4, NarrowerSeq
  <2>6. QED
    BY <2>1, <2>3, <2>5
<1>5. ASSUME NEW S \in SUBSET R, S # {}
      PROVE  \E n \in S : Seq2Set(KidsBelow[n]) \cap S = {}
  <2>1. PICK n \in S : ChildSet(graph, n) \cap S = {}
    BY <1>1, <1>5, DepthGrounds
  <2>2. QED
    BY <1>4, <2>1
<1>6. ~Cyclic(graph, root)
  BY <1>1, AcceptableIsAcyclic
<1>7. QED
  BY <1>3, <1>4, <1>5, <1>6 DEF Grounded

\* No payload is wider than the unfolding of its object.
LEMMA NoWider ==
  ASSUME IInv, TableInv, pc = "prune",
         \A n \in Reached : NodeAccepted(graph, n),
         Grounded(KidsBelow, Reached), NEW w, Weighs(KidsBelow, Reached, w)
  PROVE  \A n \in Reached : Len(canonNodes[memo[n]].kids) + 1 <= w[n]
<1> DEFINE wide(n) == Len(canonNodes[memo[n]].kids)
           S == {n \in Reached : ~(wide(n) + 1 <= w[n])}
<1>1. DOMAIN memo = Reached /\ Reached \subseteq Node /\ graph \in Graphs
  BY ReachFacts DEF IInv, MemoInv, Reached
<1>2. \A n \in Reached : memo[n] \in DOMAIN canonNodes /\ wide(n) \in Nat
  <2>1. \A n \in Reached : memo[n] \in DOMAIN canonNodes
    BY <1>1 DEF TableInv, Accounted
  <2>2. \A id \in DOMAIN canonNodes : Len(canonNodes[id].kids) \in Nat
    BY LenProperties DEF TableInv, TableIn, PayloadIn
  <2>3. QED
    BY <2>1, <2>2
<1>3. ASSUME S # {} PROVE FALSE
  <2>1. PICK n \in S : Seq2Set(KidsBelow[n]) \cap S = {}
    BY <1>3 DEF Grounded
  <2>2. n \in Reached /\ ~(wide(n) + 1 <= w[n])
    BY <2>1
  <2> DEFINE kids == graph[n].kids
             ids == MemoIds(memo, kids)
             h == Along(w, kids)
             sum == Cardinality(Cells(h, DOMAIN kids))
  <2>3. KidsBelow[n] = kids
    BY <2>2 DEF KidsBelow, Reached
  <2>4. kids \in Seq(Reached) /\ Seq2Set(kids) \cap S = {}
    BY <2>1, <2>2, <2>3 DEF Grounded
  <2>5. /\ Len(kids) \in Nat /\ DOMAIN kids = 1..Len(kids)
        /\ \A i \in 1..Len(kids) : kids[i] \in Reached
    BY <2>4, LenProperties, ElementOfSeq
  <2>6. \A i \in 1..Len(kids) : w[kids[i]] \in Nat /\ wide(kids[i]) + 1 <= w[kids[i]]
    BY <2>4, <2>5 DEF Weighs, Seq2Set
  <2>7. /\ NodeAccepted(graph, n) /\ ChildSet(graph, n) \subseteq DOMAIN memo
        /\ n \in Node /\ n \in DOMAIN memo
    BY <1>1, <2>2 DEF IInv, MemoInv
  <2>8. \A k \in DOMAIN memo : memo[k] \in DOMAIN canonNodes
    BY <1>1, <1>2
  <2>9. ids \in Seq(DOMAIN canonNodes) /\ SourceOK(graph[n], ids)
    BY <1>1, <2>7, <2>8, SourceFacts
  <2>10. canonNodes[memo[n]] = PayloadOf(graph[n], ids, canonNodes)
    BY <2>7 DEF TableInv, Accounted
  <2> HIDE DEF kids
  <2>11. Len(ids) = Len(kids) /\ \A i \in 1..Len(kids) : ids[i] = memo[kids[i]]
    <3>1. ids = [i \in 1..Len(kids) |-> memo[kids[i]]]
      BY DEF MemoIds
    <3>2. QED
      BY <2>5, <2>9, <3>1, LenProperties
  <2> HIDE DEF ids
  <2>12. \A i \in 1..Len(ids) :
           h[i] \in Nat /\ Len(canonNodes[ids[i]].kids) + 1 <= h[i]
    BY <2>5, <2>6, <2>11 DEF Along
  <2> HIDE DEF h
  <2>13. Len(PayloadOf(graph[n], ids, canonNodes).kids)
           <= Cardinality(Cells(h, 1..Len(ids)))
    BY <2>9, <2>12, PayloadWidth DEF TableInv
  <2>14. wide(n) <= sum
    BY <2>5, <2>10, <2>11, <2>13
  <2>15. sum \in Nat
    BY <2>4, <2>6, AlongFacts DEF h
  <2>16. w[n] = 1 + sum
    BY <2>2, <2>3 DEF Weighs, WeightAt, h, kids
  <2>17. wide(n) \in Nat
    BY <1>2, <2>2
  <2> HIDE DEF wide, sum
  <2>18. wide(n) + 1 <= w[n]
    BY <2>14, <2>15, <2>16, <2>17
  <2>19. QED
    BY <2>2, <2>18 DEF wide
<1>4. QED
  BY <1>3

\* There are no more nodes than objects, and no more bytes than the unfolding.
LEMMA DocumentSize ==
  ASSUME IInv, TableInv, PruneInv, PromiseInv, ArgumentsInv, pc = "prune"
  PROVE  /\ Cardinality(DOMAIN Document.nodes) \in Nat
         /\ ByteLength(Document) \in Nat
         /\ Cardinality(Reach(graph, root)) \in Nat
         /\ UnfoldedSize(graph, root) \in Nat
         /\ Cardinality(DOMAIN Document.nodes) <= Cardinality(Reach(graph, root))
         /\ ByteLength(Document) <= UnfoldedSize(graph, root)
         /\ ~Cyclic(graph, root)
<1> DEFINE R == Reach(graph, root)
           nodes == Document.nodes
           at == [id \in DOMAIN nodes |-> CHOOSE n \in DOMAIN memo : memo[n] = id]
<1>1. Acceptable(graph, root, config.validation) /\ config \in Configs
  BY DEF PromiseInv, ArgumentsInv
<1>2. Grounded(KidsBelow, R) /\ ~Cyclic(graph, root)
  BY <1>1, GraphGrounded
<1>3. \A n \in R : NodeAccepted(graph, n)
  BY <1>1 DEF Acceptable
<1>4. PICK w : Weighs(KidsBelow, R, w) /\ UnfoldedSize(graph, root) = Cardinality(Cells(w, R))
  BY <1>2, UnfoldedIsSum DEF KidsBelow
<1>5. \A n \in R : Len(canonNodes[memo[n]].kids) + 1 <= w[n]
  BY <1>2, <1>3, <1>4, NoWider DEF Reached
<1>6. DOMAIN memo = R
  BY DEF IInv, MemoInv, Reached
<1>7. Sized(w, R)
  BY <1>2, <1>4 DEF Sized, Weighs, Grounded
<1>8. DOMAIN nodes = reachable /\ \A id \in reachable : nodes[id] = canonNodes[id]
  BY DEF Document
<1>9. ASSUME NEW id \in DOMAIN nodes
      PROVE  /\ at[id] \in R /\ memo[at[id]] = id
             /\ Len(nodes[id].kids) \in Nat /\ Len(nodes[id].kids) + 1 <= w[at[id]]
  <2>1. id \in DOMAIN canonNodes /\ nodes[id] = canonNodes[id]
    BY <1>8, <1>9 DEF PruneInv
  <2>2. \E n \in DOMAIN memo : memo[n] = id
    BY <2>1 DEF PromiseInv
  <2>3. at[id] \in DOMAIN memo /\ memo[at[id]] = id
    BY <1>9, <2>2
  <2>4. Len(canonNodes[id].kids) \in Nat
    BY <2>1, LenProperties DEF TableInv, TableIn, PayloadIn
  <2> HIDE DEF at, nodes, R
  <2>5. Len(canonNodes[memo[at[id]]].kids) + 1 <= w[at[id]]
    BY <1>5, <1>6, <2>3
  <2>6. QED
    BY <1>6, <2>1, <2>3, <2>4, <2>5
<1> HIDE DEF at
<1>10. \A a, b \in DOMAIN nodes : at[a] = at[b] => a = b
  BY <1>9
<1> HIDE DEF R, nodes
<1>11. /\ Cardinality(DOMAIN nodes) \in Nat /\ Cardinality(DOMAIN nodes) <= Cardinality(R)
       /\ ByteLength(Document) \in Nat /\ ByteLength(Document) <= Cardinality(Cells(w, R))
  <2>1. Document.nodes = nodes
    BY DEF nodes
  <2>2. QED
    BY <1>7, <1>9, <1>10, <2>1, BytesFit
<1>12. Cardinality(R) \in Nat /\ Cardinality(Cells(w, R)) \in Nat
  BY <1>2, <1>7, CellsFinite, FS_CardinalityType DEF Grounded
<1>13. QED
  BY <1>2, <1>4, <1>11, <1>12 DEF R, nodes

LEMMA PromiseNext ==
  IInv /\ TableInv /\ PruneInv /\ ArgumentsInv /\ PromiseInv /\ [Next]_vars => PromiseInv'
<1>1. SUFFICES ASSUME IInv, TableInv, PruneInv, ArgumentsInv, PromiseInv, [Next]_vars
               PROVE  PromiseInv'
  OBVIOUS
<1>2. graph' = graph /\ root' = root /\ config' = config
  BY <1>1 DEF Next, vars, RejectConfig, AcceptConfig, FoldEscapes, ValidationFails,
     ValidationPasses, SkipMemoized, Enter, Build, DetectCollision, Register,
     BeginPrune, PruneSeen, PruneVisit, AssembleTooComplex, Assemble, callArgs
<1>3. Acceptable(graph, root, config.validation)' = Acceptable(graph, root, config.validation)
  BY <1>2
<1> DEFINE TableCovered == \A id \in DOMAIN canonNodes : \E n \in DOMAIN memo : memo[n] = id
           Passed == /\ pc \in {"validate", "walk", "prune"} =>
                          config.schema = "supported" /\ config.form = "exact"
                     /\ pc \in {"walk", "prune"} => Acceptable(graph, root, config.validation)
<1>4. (pc' # "done" => result' = NoResult) /\ Passed'
  <2>1. CASE pc' = "done"
    BY <2>1
  <2>2. CASE AcceptConfig
    BY <1>1, <1>2, <2>2 DEF AcceptConfig, PromiseInv
  <2>3. CASE ValidationPasses
    <3>1. Acceptable(graph, root, config.validation)
      BY <2>3 DEF ValidationPasses, Verdicts, Failures, Invalid, Mismatch
    <3>2. pc = "validate" /\ pc' = "walk" /\ result' = result
      BY <2>3 DEF ValidationPasses
    <3>3. QED
      BY <1>1, <1>2, <1>3, <3>1, <3>2 DEF PromiseInv
  <2>4. CASE BeginPrune
    <3>1. pc = "walk" /\ pc' = "prune" /\ result' = result
      BY <2>4 DEF BeginPrune
    <3>2. QED
      BY <1>1, <1>2, <1>3, <3>1 DEF PromiseInv
  <2>5. CASE pc' # "done" /\ (SkipMemoized \/ Enter \/ Build \/ PruneSeen \/ PruneVisit
                               \/ UNCHANGED vars)
    <3>1. pc' = pc /\ result' = result
      BY <2>5 DEF SkipMemoized, Enter, Build, PruneSeen, PruneVisit, vars, Raise
    <3>2. QED
      BY <1>1, <1>2, <1>3, <2>5, <3>1 DEF PromiseInv
  <2>6. QED
    BY <1>1, <2>1, <2>2, <2>3, <2>4, <2>5
       DEF Next, RejectConfig, ValidationFails, DetectCollision, FoldEscapes,
           AssembleTooComplex, Assemble, Raise
<1>5. CASE Build
  <2> DEFINE payload == BuildPayload(Top.node)
             n == Top.node
  <2>1. PICK id \in Answers(digests, payload) :
          /\ digests' = Extended(digests, payload, id)
          /\ canonNodes' = Extended(canonNodes, id, payload)
          /\ memo' = Extended(memo, n, id)
    BY <1>5 DEF Build, Register
  <2>2. n \notin DOMAIN memo
    BY <1>1, <1>5, Surfacing DEF Build
  <2>3. Unclashed(digests')
    <3>1. ASSUME Oracle = "one order" PROVE NoClash(digests')
      <4>1. NoClash(digests) /\ DigestsTyped(digests)
        BY <1>1, <3>1 DEF PromiseInv, TableInv, Unclashed
      <4> HIDE DEF payload
      <4>2. QED
        BY <2>1, <3>1, <4>1, OneOrder
    <3>2. QED
      BY <3>1 DEF Unclashed
  <2> HIDE DEF payload, n
  <2>4. /\ DOMAIN memo' = DOMAIN memo \cup {n} /\ memo'[n] = id
        /\ \A m \in DOMAIN memo : memo'[m] = memo[m]
        /\ DOMAIN canonNodes' = DOMAIN canonNodes \cup {id}
    BY <2>1, <2>2 DEF Extended
  <2>5. ASSUME NEW i \in DOMAIN canonNodes' PROVE \E m \in DOMAIN memo' : memo'[m] = i
    <3>1. CASE i = id
      BY <2>4, <3>1
    <3>2. CASE i \in DOMAIN canonNodes
      <4>1. PICK m \in DOMAIN memo : memo[m] = i
        BY <1>1, <3>2 DEF PromiseInv
      <4>2. QED
        BY <2>4, <4>1
    <3>3. QED
      BY <2>4, <3>1, <3>2
  <2>6. QED
    BY <1>4, <2>3, <2>5 DEF PromiseInv
<1>6. CASE DetectCollision
  <2> DEFINE payload == BuildPayload(Top.node)
  <2>1. PICK id \in Answers(digests, payload) : digests' = Extended(digests, payload, id)
    BY <1>6 DEF DetectCollision, Register
  <2>2. memo' = memo /\ canonNodes' = canonNodes
    BY <1>6 DEF DetectCollision
  <2>3. Unclashed(digests')
    <3>1. ASSUME Oracle = "one order" PROVE NoClash(digests')
      <4>1. NoClash(digests) /\ DigestsTyped(digests)
        BY <1>1, <3>1 DEF PromiseInv, TableInv, Unclashed
      <4> HIDE DEF payload
      <4>2. QED
        BY <2>1, <3>1, <4>1, OneOrder
    <3>2. QED
      BY <3>1 DEF Unclashed
  <2>4. QED
    BY <1>1, <1>4, <2>2, <2>3 DEF PromiseInv
<1>7. CASE \/ RejectConfig \/ AcceptConfig \/ ValidationFails \/ FoldEscapes \/ ValidationPasses
           \/ SkipMemoized \/ Enter \/ BeginPrune \/ PruneSeen \/ PruneVisit
           \/ AssembleTooComplex \/ Assemble \/ UNCHANGED vars
  <2>1. memo' = memo /\ canonNodes' = canonNodes /\ digests' = digests
    BY <1>7 DEF RejectConfig, AcceptConfig, FoldEscapes, ValidationFails, ValidationPasses,
       SkipMemoized, Enter, BeginPrune, PruneSeen, PruneVisit, AssembleTooComplex,
       Assemble, vars, oracle, core
  <2>2. QED
    BY <1>1, <1>4, <2>1 DEF PromiseInv
<1>8. QED
  BY <1>1, <1>5, <1>6, <1>7 DEF Next

LEMMA ArgumentsHold == Spec => []ArgumentsInv
<1>1. ArgumentsInv /\ [Next]_vars => ArgumentsInv'
  BY ArgumentsNext
<1>2. QED
  BY FreshInit, ArgumentsFresh, <1>1, PTL DEF Spec

LEMMA PromiseHolds == Spec => []PromiseInv
<1>1. IInv /\ TableInv /\ PruneInv /\ ArgumentsInv /\ PromiseInv /\ [Next]_vars
        => PromiseInv'
  BY PromiseNext
<1>2. QED
  BY <1>1, FreshInit, PromiseFresh, ArgumentsHold, InvariantHolds, TableHolds, PruneHolds, PTL DEF Spec

-----------------------------------------------------------------------------
(* What _build_payload makes of an object means what the object means.     *)

\* A constant is true or false, and every payload is sound.
PlainPayload(p) == p.sound /\ (IsConstant(p) => p.val \in {0, 1})

\* D gives the payloads of the table their meanings.
MeaningTable(table, env, D) ==
  /\ TableIn(table)
  /\ Means(table, DOMAIN table, env, D)
  /\ NormalOn(DOMAIN table, D)
  /\ \A id \in DOMAIN table : PlainPayload(table[id])

\* x is a meaning that an object rec may have: a number has the unit it states.
Meaningful(rec, x) == x.kind # "stuck" /\ (x.kind = "number" => x.unit = rec.unit)

\* What validation has found out about an object that stores no child.
PlainSource(rec) ==
  /\ rec.type = "Number" => rec.val \in Int
  /\ rec.type = "Comparison" /\ rec.sound => rec.op \in {"<", "<=", "==", "!=", ">=", ">"}

\* Operands that all have a value are what is computed with.
LEMMA AppliedToValues ==
  ASSUME NEW xs, NEW ok, NEW m, \A i \in 1..Len(xs) : xs[i].kind \notin {"stuck", "undefined"},
         Apply(xs, ok, m).kind # "stuck"
  PROVE  ok /\ Apply(xs, ok, m) = m
<1>1. Stuck.kind = "stuck"
  BY ConstantMeanings
<1>2. \A i \in 1..Len(xs) : xs[i].kind # "stuck" /\ xs[i].kind # "undefined"
  OBVIOUS
<1>3. QED
  BY <1>1, <1>2, Zenon DEF Apply

\* What can be applied can be applied under a weaker condition.
LEMMA AppliedWeaker ==
  ASSUME NEW xs, NEW ok, NEW ok2, NEW m, ok => ok2, Apply(xs, ok, m).kind # "stuck"
  PROVE  Apply(xs, ok2, m) = Apply(xs, ok, m)
<1>1. Stuck.kind = "stuck"
  BY ConstantMeanings
<1>2. QED
  BY <1>1, Zenon DEF Apply

\* The meaning of most nodes depends on nothing else than their type.
LEMMA KeptMeans ==
  ASSUME NEW p, NEW rec, p.type = rec.type, rec.type \in SupportedTypes,
         rec.type \notin {"Number", "Observable", "BooleanConstant", "Comparison", "Payment"},
         NEW xs, NEW env
  PROVE  MeaningOf(p, xs, env) = MeaningOf(rec, xs, env)
<1> DEFINE t == rec.type
<1>1. t # "Number" /\ t # "Observable" /\ t # "BooleanConstant" /\ t # "Comparison" /\ t # "Payment"
  OBVIOUS
<1>2. p.type = t
  OBVIOUS
<1>3. CASE t \in {"Add", "Maximum", "Minimum"}
  BY <1>2, <1>3 DEF MeaningOf, Conditionals
<1>4. CASE t \in {"Subtract", "Multiply", "Divide", "Negate", "Not", "Zero", "Both", "Scale"}
  BY <1>2, <1>4 DEF MeaningOf, Conditionals
<1>5. CASE t \in {"AllOf", "AnyOf"}
  BY <1>2, <1>5 DEF MeaningOf, Conditionals
<1>6. CASE t \in Conditionals
  BY <1>2, <1>6 DEF MeaningOf, Conditionals
<1>7. QED
  BY <1>3, <1>4, <1>5, <1>6, <1>1
     DEF SupportedTypes, ScalarTypes, BooleanTypes, ContractTypes, Conditionals

\* What the literals and the constants of the table mean.
LEMMA LiteralAt ==
  ASSUME NEW table, NEW env, NEW D, MeaningTable(table, env, D),
         NEW id \in DOMAIN table, IsLiteral(table[id])
  PROVE  table[id].num \in Decimals /\ D[id] = LiteralMeaning(table[id].unit, table[id].num)
<1>1. D[id] = MeaningAt(table[id], D, env)
  BY DEF MeaningTable, Means
<1>2. table[id].num \in Decimals
  BY DEF MeaningTable, TableIn, PayloadIn
<1>3. QED
  BY <1>1, <1>2 DEF MeaningAt, PayloadMeaning, IsLiteral

LEMMA BooleanMeans ==
  ASSUME NEW p, IsConstant(p), p.sound, NEW D, NEW env
  PROVE  MeaningAt(p, D, env) = Truth(p.val = 1)
<1>1. MeaningAt(p, D, env) = MeaningOf(p, ValuesAt(D, p.kids), env)
  BY DEF MeaningAt, PayloadMeaning, IsConstant
<1>2. p.type = "BooleanConstant"
  BY DEF IsConstant
<1>3. MeaningOf(p, ValuesAt(D, p.kids), env) = IF p.sound THEN Truth(p.val = 1) ELSE Stuck
  BY <1>2 DEF MeaningOf, Conditionals
<1>4. QED
  BY <1>1, <1>3, Zenon

LEMMA ConstantAt ==
  ASSUME NEW table, NEW env, NEW D, MeaningTable(table, env, D),
         NEW id \in DOMAIN table, IsConstant(table[id])
  PROVE  table[id].val \in {0, 1} /\ D[id] = Truth(table[id].val = 1)
<1>1. D[id] = MeaningAt(table[id], D, env)
  BY DEF MeaningTable, Means
<1>2. PlainPayload(table[id])
  BY DEF MeaningTable
<1>3. table[id].sound /\ table[id].val \in {0, 1}
  BY <1>2 DEF PlainPayload
<1>4. QED
  BY <1>1, <1>3, BooleanMeans

\* A literal that something is folded into, and a constant.
LEMMA NumberPayloadMeans ==
  ASSUME NEW u, NEW a \in Decimals, NEW D, NEW env
  PROVE  MeaningAt(NumberPayload(u, a), D, env) = LiteralMeaning(u, a)
<1> DEFINE p == NumberPayload(u, a)
<1>1. p.type = "Number" /\ p.unit = u /\ p.num = Canonical(a)
  BY DEF NumberPayload, Payload
<1> HIDE DEF p
<1>2. MeaningAt(p, D, env) = LiteralMeaning(u, Canonical(a))
  BY <1>1 DEF MeaningAt, PayloadMeaning
<1>3. QED
  BY <1>2, LiteralCanonical DEF p

LEMMA BooleanPayloadMeans ==
  ASSUME NEW b, NEW D, NEW env
  PROVE  MeaningAt(BooleanPayload(b), D, env) = Truth(b)
<1> DEFINE p == BooleanPayload(b)
<1>1. p.type = "BooleanConstant" /\ p.sound /\ p.val = (IF b THEN 1 ELSE 0)
  BY DEF BooleanPayload, Payload
<1> HIDE DEF p
<1>2. MeaningAt(p, D, env) = Truth(p.val = 1)
  BY <1>1, BooleanMeans DEF IsConstant
<1>3. Truth(p.val = 1) = Truth(b)
  BY <1>1 DEF Truth
<1>4. QED
  BY <1>2, <1>3 DEF p

\* A payload of the type of rec over the same operands.
LEMMA KeptPayloadMeans ==
  ASSUME NEW rec, NEW p, p.type = rec.type, NEW D, NEW env, rec.type \in SupportedTypes,
         rec.type \notin {"Number", "Observable", "BooleanConstant", "Comparison", "Payment"}
  PROVE  MeaningAt(p, D, env) = MeaningOf(rec, ValuesAt(D, p.kids), env)
<1>1. MeaningAt(p, D, env) = MeaningOf(p, ValuesAt(D, p.kids), env)
  BY DEF MeaningAt, PayloadMeaning
<1>2. QED
  BY <1>1, KeptMeans

\* kids and xs are the payloads and the meanings of ids.
OperandsAt(table, env, D, ids, kids, xs) ==
  /\ MeaningTable(table, env, D)
  /\ ids \in Seq(DOMAIN table)
  /\ kids = PayloadsOf(ids, table) /\ xs = ValuesAt(D, ids)

LEMMA OperandsAtFacts ==
  ASSUME NEW table, NEW env, NEW D, NEW ids, NEW kids, NEW xs,
         OperandsAt(table, env, D, ids, kids, xs)
  PROVE  /\ Len(ids) \in Nat /\ Len(kids) = Len(ids) /\ Len(xs) = Len(ids)
         /\ \A i \in 1..Len(ids) : /\ ids[i] \in DOMAIN table
                                   /\ kids[i] = table[ids[i]] /\ xs[i] = D[ids[i]]
                                   /\ NormalMeaning(xs[i])
<1>1. /\ Len(ids) \in Nat /\ Len(kids) = Len(ids)
      /\ \A i \in 1..Len(ids) : ids[i] \in DOMAIN table /\ kids[i] = table[ids[i]]
  BY PayloadsFacts DEF OperandsAt
<1>2. Len(xs) = Len(ids) /\ \A i \in 1..Len(ids) : xs[i] = D[ids[i]]
  BY <1>1, ValuesFacts DEF OperandsAt
<1>3. \A i \in 1..Len(ids) : NormalMeaning(xs[i])
  BY <1>1, <1>2 DEF OperandsAt, MeaningTable, NormalOn
<1>4. QED
  BY <1>1, <1>2, <1>3

\* x is what the literal p means.
LiteralMeans(p, x) ==
  /\ p.num \in Decimals /\ x = LiteralMeaning(p.unit, p.num)
  /\ x.kind = "number" /\ x.unit = p.unit

LEMMA LiteralOperands ==
  ASSUME NEW table, NEW env, NEW D, NEW ids, NEW kids, NEW xs,
         OperandsAt(table, env, D, ids, kids, xs), AllLiterals(kids)
  PROVE  /\ \A i \in 1..Len(xs) : LiteralMeans(kids[i], xs[i])
         /\ \A i \in 1..Len(xs) : xs[i].kind \notin {"stuck", "undefined"}
<1>1. /\ Len(kids) = Len(ids) /\ Len(xs) = Len(ids)
      /\ \A i \in 1..Len(ids) : /\ ids[i] \in DOMAIN table
                                /\ kids[i] = table[ids[i]] /\ xs[i] = D[ids[i]]
  BY OperandsAtFacts
<1>2. MeaningTable(table, env, D)
  BY DEF OperandsAt
<1>3. ASSUME NEW i \in 1..Len(xs) PROVE LiteralMeans(kids[i], xs[i])
  <2>1. IsLiteral(table[ids[i]])
    BY <1>1, <1>3 DEF AllLiterals
  <2>2. kids[i].num \in Decimals /\ xs[i] = LiteralMeaning(kids[i].unit, kids[i].num)
    BY <1>1, <1>2, <2>1, LiteralAt
  <2>3. LiteralMeaning(kids[i].unit, kids[i].num).kind = "number"
        /\ LiteralMeaning(kids[i].unit, kids[i].num).unit = kids[i].unit
    BY RationalMeaning DEF LiteralMeaning
  <2>4. QED
    BY <2>2, <2>3 DEF LiteralMeans
<1>4. QED
  BY <1>3 DEF LiteralMeans

\* The operator node that a payload p is built for, and what is to show of p.
BuildsOperator(table, env, D, ids, kids, xs, rec) ==
  /\ OperandsAt(table, env, D, ids, kids, xs)
  /\ SourceOK(rec, ids) /\ PlainSource(rec)
  /\ Meaningful(rec, MeaningOf(rec, xs, env))

KeepsMeaning(p, D, xs, rec, env) == MeaningAt(p, D, env) = MeaningOf(rec, xs, env)

LEMMA KeptKeeps ==
  ASSUME NEW table, NEW env, NEW D, NEW ids, NEW kids, NEW xs, NEW rec,
         BuildsOperator(table, env, D, ids, kids, xs, rec),
         rec.type \notin {"Number", "Observable", "BooleanConstant", "Comparison", "Payment"},
         NEW p, p = Payload(rec.type, ids, "none", 0, DecZero, "")
  PROVE  KeepsMeaning(p, D, xs, rec, env)
<1>1. p.type = rec.type /\ p.kids = ids
  BY DEF Payload
<1>2. rec.type \in SupportedTypes /\ xs = ValuesAt(D, ids)
  BY DEF BuildsOperator, SourceOK, OperandsAt
<1> DEFINE m == MeaningAt(p, D, env)
<1>3. m = MeaningOf(rec, ValuesAt(D, p.kids), env)
  BY <1>1, <1>2, KeptPayloadMeans
<1>4. QED
  BY <1>1, <1>2, <1>3 DEF KeepsMeaning

\* The classes one by one: whether the operator stays, is folded or collapses,
\* its payload means what its object means.
LEMMA NegationBuilt ==
  ASSUME NEW table, NEW env, NEW D, NEW ids, NEW kids, NEW xs, NEW rec,
         BuildsOperator(table, env, D, ids, kids, xs, rec), rec.type = "Negate"
  PROVE  KeepsMeaning(OperatorPayload(rec, ids, kids), D, xs, rec, env)
<1> DEFINE p == OperatorPayload(rec, ids, kids)
           kept == Payload(rec.type, ids, "none", 0, DecZero, "")
           neg == Rational(xs[1].unit, -xs[1].p, xs[1].q)
<1>1. OperandsAt(table, env, D, ids, kids, xs) /\ Meaningful(rec, MeaningOf(rec, xs, env))
  BY DEF BuildsOperator
<1>2. Len(xs) = 1
  <2>1. Len(ids) = 1
    BY DEF BuildsOperator, SourceOK, Arity
  <2>2. QED
    BY <1>1, <2>1, OperandsAtFacts
<1>3. CASE ~AllLiterals(kids)
  <2>1. p = kept
    BY <1>3 DEF OperatorPayload
  <2>2. QED
    BY <2>1, KeptKeeps
<1>4. CASE AllLiterals(kids)
  <2>1. p = NumberPayload(rec.unit, ExactNeg(kids[1].num))
    BY <1>4 DEF OperatorPayload
  <2>2. /\ \A i \in 1..Len(xs) : LiteralMeans(kids[i], xs[i])
        /\ \A i \in 1..Len(xs) : xs[i].kind \notin {"stuck", "undefined"}
    BY <1>1, <1>4, LiteralOperands
  <2>3. LiteralMeans(kids[1], xs[1])
    BY <1>2, <2>2
  <2>4. MeaningOf(rec, xs, env) = Apply(xs, IsNumber(xs[1]), neg)
    BY DEF MeaningOf, Conditionals
  <2> HIDE DEF p, neg
  <2>5. MeaningOf(rec, xs, env) = neg
    BY <1>1, <2>2, <2>4, AppliedToValues DEF Meaningful
  <2>6. neg.kind = "number" /\ neg.unit = xs[1].unit
    BY RationalMeaning DEF neg
  <2>7. rec.unit = kids[1].unit
    BY <1>1, <2>3, <2>5, <2>6 DEF Meaningful, LiteralMeans
  <2>8. kids[1].num \in Decimals /\ ExactNeg(kids[1].num) \in Decimals
        /\ xs[1] = LiteralMeaning(kids[1].unit, kids[1].num)
    BY <2>3, NegFacts DEF LiteralMeans
  <2>9. LiteralMeaning(kids[1].unit, ExactNeg(kids[1].num))
          = Negative(LiteralMeaning(kids[1].unit, kids[1].num))
    BY <2>8, LiteralSums
  <2>10. MeaningAt(p, D, env) = neg
    BY <2>1, <2>7, <2>8, <2>9, NumberPayloadMeans DEF Negative, neg
  <2>11. QED
    BY <2>5, <2>10 DEF KeepsMeaning, p
<1>5. QED
  BY <1>3, <1>4

\* What literal operands are worth together, whether or not that can be written.
LEMMA DifferenceLiteral ==
  ASSUME NEW table, NEW env, NEW D, NEW ids, NEW kids, NEW xs, NEW rec,
         BuildsOperator(table, env, D, ids, kids, xs, rec), rec.type = "Subtract",
         AllLiterals(kids)
  PROVE  /\ ExactSub(kids[1].num, kids[2].num) \in Decimals
         /\ MeaningOf(rec, xs, env)
              = LiteralMeaning(rec.unit, ExactSub(kids[1].num, kids[2].num))
<1> DEFINE num == ExactSub(kids[1].num, kids[2].num)
           difference == Plus(xs[1], Rational(xs[2].unit, -xs[2].p, xs[2].q))
<1>1. OperandsAt(table, env, D, ids, kids, xs) /\ Meaningful(rec, MeaningOf(rec, xs, env))
  BY DEF BuildsOperator
<1>2. Len(xs) = 2
  <2>1. Len(ids) = 2
    BY DEF BuildsOperator, SourceOK, Arity
  <2>2. QED
    BY <1>1, <2>1, OperandsAtFacts
<1>3. /\ \A i \in 1..Len(xs) : LiteralMeans(kids[i], xs[i])
      /\ \A i \in 1..Len(xs) : xs[i].kind \notin {"stuck", "undefined"}
  BY <1>1, LiteralOperands
<1>4. LiteralMeans(kids[1], xs[1]) /\ LiteralMeans(kids[2], xs[2])
  BY <1>2, <1>3
<1>5. MeaningOf(rec, xs, env) = Apply(xs, AllNumbersAlike(xs), difference)
  BY DEF MeaningOf, Conditionals
<1> HIDE DEF difference
<1>6. MeaningOf(rec, xs, env) = difference /\ AllNumbersAlike(xs)
  BY <1>1, <1>3, <1>5, AppliedToValues DEF Meaningful
<1>7. difference.kind = "number" /\ difference.unit = xs[1].unit
  BY RationalMeaning DEF difference, Plus
<1>8. xs[2].unit = xs[1].unit
  BY <1>2, <1>6 DEF AllNumbersAlike, SameUnit
<1>9. rec.unit = kids[1].unit /\ rec.unit = kids[2].unit
  BY <1>1, <1>4, <1>6, <1>7, <1>8 DEF Meaningful, LiteralMeans
<1>10. /\ kids[1].num \in Decimals /\ kids[2].num \in Decimals
       /\ xs[1] = LiteralMeaning(rec.unit, kids[1].num)
       /\ xs[2] = LiteralMeaning(rec.unit, kids[2].num)
  BY <1>4, <1>9 DEF LiteralMeans
<1>11. num \in Decimals
  BY <1>10, SubFacts
<1>12. LiteralMeaning(rec.unit, num)
         = Plus(LiteralMeaning(rec.unit, kids[1].num), Negative(LiteralMeaning(rec.unit, kids[2].num)))
  BY <1>10, LiteralSums
<1>13. LiteralMeaning(rec.unit, num) = difference
  BY <1>10, <1>12 DEF Negative, difference
<1>14. QED
  BY <1>6, <1>11, <1>13

LEMMA DifferenceBuilt ==
  ASSUME NEW table, NEW env, NEW D, NEW ids, NEW kids, NEW xs, NEW rec,
         BuildsOperator(table, env, D, ids, kids, xs, rec), rec.type = "Subtract"
  PROVE  KeepsMeaning(OperatorPayload(rec, ids, kids), D, xs, rec, env)
<1> DEFINE p == OperatorPayload(rec, ids, kids)
           kept == Payload(rec.type, ids, "none", 0, DecZero, "")
           num == ExactSub(kids[1].num, kids[2].num)
<1>1. CASE ~(AllLiterals(kids) /\ InBounds(num))
  <2>1. p = kept
    BY <1>1 DEF OperatorPayload, Fold
  <2>2. QED
    BY <2>1, KeptKeeps
<1>2. CASE AllLiterals(kids) /\ InBounds(num)
  <2>1. p = NumberPayload(rec.unit, num)
    BY <1>2 DEF OperatorPayload, Fold
  <2>2. num \in Decimals /\ MeaningOf(rec, xs, env) = LiteralMeaning(rec.unit, num)
    BY <1>2, DifferenceLiteral
  <2> HIDE DEF p, num
  <2>3. MeaningAt(p, D, env) = LiteralMeaning(rec.unit, num)
    BY <2>1, <2>2, NumberPayloadMeans
  <2>4. QED
    BY <2>2, <2>3 DEF KeepsMeaning, p
<1>3. QED
  BY <1>1, <1>2

\* The factors of a product in either order.
LEMMA TwoShuffled ==
  ASSUME NEW xs, NEW ys, Len(xs) = 2, Len(ys) = 2,
         \/ ys[1] = xs[1] /\ ys[2] = xs[2]
         \/ ys[1] = xs[2] /\ ys[2] = xs[1]
  PROVE  Shuffled(xs, ys, 2)
<1> DEFINE m == [i \in 1..2 |-> IF ys[1] = xs[1] /\ ys[2] = xs[2] THEN i ELSE 3 - i]
<1>1. m \in [1..2 -> 1..2]
  OBVIOUS
<1>2. \A i \in 1..2 : i = 1 \/ i = 2
  OBVIOUS
<1>3. m[1] # m[2] /\ ys[1] = xs[m[1]] /\ ys[2] = xs[m[2]]
  OBVIOUS
<1> HIDE DEF m
<1>4. Rearranges(m, 2, ys, xs)
  BY <1>1, <1>2, <1>3 DEF Rearranges
<1>5. QED
  BY <1>4 DEF Shuffled

LEMMA FactorsShuffled ==
  ASSUME NEW table, NEW env, NEW D, NEW ids, NEW kids, NEW xs,
         OperandsAt(table, env, D, ids, kids, xs), Len(ids) = 2
  PROVE  Shuffled(xs, ValuesAt(D, Factors(ids)), 2)
<1>1. Len(xs) = 2 /\ xs[1] = D[ids[1]] /\ xs[2] = D[ids[2]]
  BY OperandsAtFacts
<1> DEFINE fs == Factors(ids)
           ys == ValuesAt(D, fs)
<1>2. /\ Len(fs) = 2
      /\ (fs[1] = ids[1] /\ fs[2] = ids[2]) \/ (fs[1] = ids[2] /\ fs[2] = ids[1])
  BY DEF Factors
<1>3. Len(ys) = 2 /\ ys[1] = D[fs[1]] /\ ys[2] = D[fs[2]]
  <2>1. Len(fs) \in Nat
    BY <1>2
  <2> HIDE DEF fs
  <2>2. QED
    BY <1>2, <2>1, ValuesFacts
<1> HIDE DEF fs, ys
<1>4. Shuffled(xs, ys, 2)
  BY <1>1, <1>2, <1>3, TwoShuffled
<1>5. QED
  BY <1>4 DEF ys, fs

LEMMA ProductLiteral ==
  ASSUME NEW table, NEW env, NEW D, NEW ids, NEW kids, NEW xs, NEW rec,
         BuildsOperator(table, env, D, ids, kids, xs, rec), rec.type = "Multiply",
         AllLiterals(kids)
  PROVE  /\ ExactMul(kids[1].num, kids[2].num) \in Decimals
         /\ MeaningOf(rec, xs, env)
              = LiteralMeaning(rec.unit, ExactMul(kids[1].num, kids[2].num))
<1> DEFINE num == ExactMul(kids[1].num, kids[2].num)
           ok == /\ IsNumber(xs[1]) /\ IsNumber(xs[2])
                 /\ "scalar" \in {xs[1].unit, xs[2].unit}
           times == Times(xs[1], xs[2])
<1>1. OperandsAt(table, env, D, ids, kids, xs) /\ Meaningful(rec, MeaningOf(rec, xs, env))
  BY DEF BuildsOperator
<1>2. Len(xs) = 2
  <2>1. Len(ids) = 2
    BY DEF BuildsOperator, SourceOK, Arity
  <2>2. QED
    BY <1>1, <2>1, OperandsAtFacts
<1>3. /\ \A i \in 1..Len(xs) : LiteralMeans(kids[i], xs[i])
      /\ \A i \in 1..Len(xs) : xs[i].kind \notin {"stuck", "undefined"}
  BY <1>1, LiteralOperands
<1>4. LiteralMeans(kids[1], xs[1]) /\ LiteralMeans(kids[2], xs[2])
  BY <1>2, <1>3
<1>5. MeaningOf(rec, xs, env) = Apply(xs, ok, times)
  BY DEF MeaningOf, Conditionals
<1> HIDE DEF times, ok
<1>6. MeaningOf(rec, xs, env) = times
  BY <1>1, <1>3, <1>5, AppliedToValues DEF Meaningful
<1>7. times.kind = "number" /\ times.unit = MultiplyUnit(xs[1].unit, xs[2].unit)
  BY RationalMeaning DEF times, Times
<1>8. rec.unit = MultiplyUnit(xs[1].unit, xs[2].unit)
  BY <1>1, <1>6, <1>7 DEF Meaningful
<1>9. /\ kids[1].num \in Decimals /\ kids[2].num \in Decimals
      /\ xs[1] = LiteralMeaning(xs[1].unit, kids[1].num)
      /\ xs[2] = LiteralMeaning(xs[2].unit, kids[2].num)
  BY <1>4 DEF LiteralMeans
<1>10. num \in Decimals
  BY <1>9, MulFacts
<1>11. LiteralMeaning(rec.unit, num)
         = Times(LiteralMeaning(xs[1].unit, kids[1].num), LiteralMeaning(xs[2].unit, kids[2].num))
  BY <1>8, <1>9, LiteralProduct
<1>12. LiteralMeaning(rec.unit, num) = times
  BY <1>9, <1>11 DEF times
<1>13. QED
  BY <1>6, <1>10, <1>12

LEMMA ProductBuilt ==
  ASSUME NEW table, NEW env, NEW D, NEW ids, NEW kids, NEW xs, NEW rec,
         BuildsOperator(table, env, D, ids, kids, xs, rec), rec.type = "Multiply"
  PROVE  KeepsMeaning(OperatorPayload(rec, ids, kids), D, xs, rec, env)
<1> DEFINE p == OperatorPayload(rec, ids, kids)
           product == Payload(rec.type, Factors(ids), "none", 0, DecZero, "")
           num == ExactMul(kids[1].num, kids[2].num)
<1>1. OperandsAt(table, env, D, ids, kids, xs)
  BY DEF BuildsOperator
<1>2. Len(xs) = 2 /\ Len(ids) = 2
  <2>1. Len(ids) = 2
    BY DEF BuildsOperator, SourceOK, Arity
  <2>2. QED
    BY <1>1, <2>1, OperandsAtFacts
<1>3. CASE ~(AllLiterals(kids) /\ InBounds(num))
  <2>1. p = product
    BY <1>3 DEF OperatorPayload, Fold
  <2> DEFINE ys == ValuesAt(D, Factors(ids))
  <2>2. product.type = rec.type /\ product.kids = Factors(ids) /\ rec.type \in SupportedTypes
    BY DEF Payload, SupportedTypes, ScalarTypes
  <2> HIDE DEF product, p
  <2>3. MeaningAt(product, D, env) = MeaningOf(rec, ys, env)
    BY <2>2, KeptPayloadMeans
  <2>4. Shuffled(xs, ys, 2)
    BY <1>1, <1>2, FactorsShuffled
  <2>5. \A i \in 1..2 : NormalMeaning(xs[i])
    BY <1>1, <1>2, OperandsAtFacts
  <2> HIDE DEF ys
  <2>6. MeaningOf(rec, xs, env) = MeaningOf(rec, ys, env)
    BY <2>4, <2>5, ProductShuffled
  <2>7. QED
    BY <2>1, <2>3, <2>6 DEF KeepsMeaning, p
<1>4. CASE AllLiterals(kids) /\ InBounds(num)
  <2>1. p = NumberPayload(rec.unit, num)
    BY <1>4 DEF OperatorPayload, Fold
  <2>2. num \in Decimals /\ MeaningOf(rec, xs, env) = LiteralMeaning(rec.unit, num)
    BY <1>4, ProductLiteral
  <2> HIDE DEF p, num
  <2>3. MeaningAt(p, D, env) = LiteralMeaning(rec.unit, num)
    BY <2>1, <2>2, NumberPayloadMeans
  <2>4. QED
    BY <2>2, <2>3 DEF KeepsMeaning, p
<1>5. QED
  BY <1>3, <1>4

LEMMA ComparisonBuilt ==
  ASSUME NEW table, NEW env, NEW D, NEW ids, NEW kids, NEW xs, NEW rec,
         BuildsOperator(table, env, D, ids, kids, xs, rec), rec.type = "Comparison"
  PROVE  KeepsMeaning(OperatorPayload(rec, ids, kids), D, xs, rec, env)
<1> DEFINE p == OperatorPayload(rec, ids, kids)
           ok == rec.sound /\ AllNumbersAlike(xs)
           m == Truth(Compares(rec.op, xs[1], xs[2]))
<1>1. OperandsAt(table, env, D, ids, kids, xs) /\ Meaningful(rec, MeaningOf(rec, xs, env))
      /\ PlainSource(rec)
  BY DEF BuildsOperator
<1>2. Len(xs) = 2 /\ Len(ids) = 2
  <2>1. Len(ids) = 2
    BY DEF BuildsOperator, SourceOK, Arity
  <2>2. QED
    BY <1>1, <2>1, OperandsAtFacts
<1>3. MeaningOf(rec, xs, env) = Apply(xs, ok, m)
  BY DEF MeaningOf, Conditionals
<1>4. CASE ~AllLiterals(kids)
  <2>1. p = Payload(rec.type, ids, "none", 0, DecZero, rec.op)
    BY <1>4 DEF OperatorPayload
  <2> HIDE DEF p
  <2>2. p.type = "Comparison" /\ p.kids = ids /\ p.sound /\ p.op = rec.op
    BY <2>1 DEF Payload
  <2>3. MeaningAt(p, D, env) = MeaningOf(p, xs, env)
    BY <1>1, <2>2 DEF MeaningAt, PayloadMeaning, OperandsAt
  <2> DEFINE ok2 == p.sound /\ AllNumbersAlike(xs)
             m2 == Truth(Compares(p.op, xs[1], xs[2]))
  <2>4. MeaningOf(p, xs, env) = Apply(xs, ok2, m2)
    BY <2>2 DEF MeaningOf, Conditionals
  <2>5. (ok => ok2) /\ m2 = m
    BY <2>2
  <2>6. Apply(xs, ok, m).kind # "stuck"
    BY <1>1, <1>3 DEF Meaningful
  <2> HIDE DEF ok, ok2, m, m2
  <2>7. Apply(xs, ok2, m) = Apply(xs, ok, m)
    BY <2>5, <2>6, AppliedWeaker
  <2>8. QED
    BY <1>3, <2>3, <2>4, <2>5, <2>7 DEF KeepsMeaning, p
<1>5. CASE AllLiterals(kids)
  <2> DEFINE b == CompareBy(rec.op, kids[1].num, kids[2].num)
             c == Compares(rec.op, xs[1], xs[2])
  <2>1. p = BooleanPayload(b)
    BY <1>5 DEF OperatorPayload
  <2>2. /\ \A i \in 1..Len(xs) : LiteralMeans(kids[i], xs[i])
        /\ \A i \in 1..Len(xs) : xs[i].kind \notin {"stuck", "undefined"}
    BY <1>1, <1>5, LiteralOperands
  <2>3. LiteralMeans(kids[1], xs[1]) /\ LiteralMeans(kids[2], xs[2])
    BY <1>2, <2>2
  <2>4. Apply(xs, ok, m).kind # "stuck"
    BY <1>1, <1>3 DEF Meaningful
  <2>5. ok /\ Apply(xs, ok, m) = m
    <3> HIDE DEF ok, m
    <3>1. QED
      BY <2>2, <2>4, AppliedToValues
  <2>6. xs[2].unit = xs[1].unit
    BY <1>2, <2>5 DEF AllNumbersAlike, SameUnit
  <2>7. rec.op \in {"<", "<=", "==", "!=", ">=", ">"}
    BY <1>1, <2>5 DEF PlainSource
  <2>8. /\ kids[1].num \in Decimals /\ kids[2].num \in Decimals
        /\ xs[1] = LiteralMeaning(xs[1].unit, kids[1].num)
        /\ xs[2] = LiteralMeaning(xs[1].unit, kids[2].num)
    BY <2>3, <2>6 DEF LiteralMeans
  <2>9. b <=> Compares(rec.op, LiteralMeaning(xs[1].unit, kids[1].num),
                       LiteralMeaning(xs[1].unit, kids[2].num))
    BY <2>7, <2>8, LiteralCompares
  <2>10. b <=> c
    BY <2>8, <2>9
  <2> HIDE DEF p, b
  <2>12. MeaningAt(p, D, env) = Truth(b)
    BY <2>1, BooleanPayloadMeans
  <2> HIDE DEF c
  <2>13. Truth(b) = Truth(c)
    BY <2>10 DEF Truth
  <2>14. QED
    BY <1>3, <2>5, <2>12, <2>13 DEF KeepsMeaning, p, c
<1>6. QED
  BY <1>4, <1>5

LEMMA NegatedBuilt ==
  ASSUME NEW table, NEW env, NEW D, NEW ids, NEW kids, NEW xs, NEW rec,
         BuildsOperator(table, env, D, ids, kids, xs, rec), rec.type = "Not"
  PROVE  KeepsMeaning(OperatorPayload(rec, ids, kids), D, xs, rec, env)
<1> DEFINE p == OperatorPayload(rec, ids, kids)
           kept == Payload(rec.type, ids, "none", 0, DecZero, "")
           ok == xs[1].kind = "truth"
           m == Truth(xs[1].p = 0)
<1>1. OperandsAt(table, env, D, ids, kids, xs) /\ MeaningTable(table, env, D)
  BY DEF BuildsOperator, OperandsAt
<1>2. /\ Len(xs) = 1 /\ 1 \in 1..Len(ids)
      /\ ids[1] \in DOMAIN table /\ kids[1] = table[ids[1]] /\ xs[1] = D[ids[1]]
  <2>1. Len(ids) = 1
    BY DEF BuildsOperator, SourceOK, Arity
  <2>2. QED
    BY <1>1, <2>1, OperandsAtFacts
<1>3. CASE ~IsConstant(kids[1])
  <2>1. p = kept
    BY <1>3 DEF OperatorPayload
  <2>2. QED
    BY <2>1, KeptKeeps
<1>4. CASE IsConstant(kids[1])
  <2>1. p = BooleanPayload(kids[1].val = 0)
    BY <1>4 DEF OperatorPayload
  <2>2. kids[1].val \in {0, 1} /\ xs[1] = Truth(kids[1].val = 1)
    BY <1>1, <1>2, <1>4, ConstantAt
  <2>3. MeaningOf(rec, xs, env) = Apply(xs, ok, m)
    BY DEF MeaningOf, Conditionals
  <2>4. xs[1].kind = "truth"
    BY <2>2, ConstantMeanings
  <2>5. \A i \in 1..Len(xs) : xs[i].kind # "stuck" /\ xs[i].kind # "undefined"
    BY <1>2, <2>4
  <2> HIDE DEF m
  <2>6. Apply(xs, ok, m) = m
    BY <2>4, <2>5, Zenon DEF Apply
  <2> DEFINE b == kids[1].val = 0
             c == xs[1].p = 0
  <2>7. xs[1].p = (IF kids[1].val = 1 THEN 1 ELSE 0)
    BY <2>2 DEF Truth
  <2>8. b <=> c
    BY <2>2, <2>7
  <2> HIDE DEF p, b, c
  <2>9. MeaningAt(p, D, env) = Truth(b)
    BY <2>1, BooleanPayloadMeans DEF b
  <2>10. Truth(b) = Truth(c)
    BY <2>8 DEF Truth
  <2>11. QED
    BY <2>3, <2>6, <2>9, <2>10 DEF KeepsMeaning, p, m, c
<1>5. QED
  BY <1>3, <1>4

LEMMA ChoiceBuilt ==
  ASSUME NEW table, NEW env, NEW D, NEW ids, NEW kids, NEW xs, NEW rec,
         BuildsOperator(table, env, D, ids, kids, xs, rec), rec.type \in Conditionals
  PROVE  KeepsMeaning(OperatorPayload(rec, ids, kids), D, xs, rec, env)
<1> DEFINE p == OperatorPayload(rec, ids, kids)
           kept == Payload(rec.type, ids, "none", 0, DecZero, "")
<1>1. OperandsAt(table, env, D, ids, kids, xs) /\ MeaningTable(table, env, D)
  BY DEF BuildsOperator, OperandsAt
<1>2. Len(ids) = 3
  <2>1. rec.type \in DOMAIN Arity /\ Arity[rec.type] = 3
    BY DEF Arity, Conditionals
  <2>2. rec.type \in DOMAIN Arity => Len(ids) = Arity[rec.type]
    BY DEF BuildsOperator, SourceOK
  <2>3. QED
    BY <2>1, <2>2
<1>3. ASSUME NEW i \in {1, 2, 3}
      PROVE  ids[i] \in DOMAIN table /\ kids[i] = table[ids[i]] /\ xs[i] = D[ids[i]]
  <2>1. i \in 1..Len(ids)
    BY <1>2
  <2>2. QED
    BY <1>1, <2>1, OperandsAtFacts
<1>4. CASE ~IsConstant(kids[1])
  <2>1. p = kept
    BY <1>4 DEF OperatorPayload, Conditionals
  <2>2. QED
    BY <2>1, KeptKeeps DEF Conditionals
<1>5. CASE IsConstant(kids[1])
  <2>1. p = IF kids[1].val = 1 THEN kids[2] ELSE kids[3]
    BY <1>5 DEF OperatorPayload, Conditionals
  <2>2. kids[1].val \in {0, 1} /\ xs[1] = Truth(kids[1].val = 1)
    BY <1>1, <1>3, <1>5, ConstantAt
  <2>3. xs[1].kind = "truth" /\ xs[1].p = (IF kids[1].val = 1 THEN 1 ELSE 0)
    BY <2>2, ConstantMeanings DEF Truth
  <2>4. MeaningOf(rec, xs, env) = CASE xs[1].kind = "truth" -> xs[IF xs[1].p = 1 THEN 2 ELSE 3]
                                    [] xs[1].kind = "undefined" -> Undefined
                                    [] OTHER -> Stuck
    BY DEF MeaningOf, Conditionals
  <2>5. MeaningOf(rec, xs, env) = xs[IF xs[1].p = 1 THEN 2 ELSE 3]
    BY <2>3, <2>4
  <2> HIDE DEF p
  <2>6. \A id \in DOMAIN table : MeaningAt(table[id], D, env) = D[id]
    BY <1>1 DEF MeaningTable, Means
  <2>7. CASE kids[1].val = 1
    <3>1. p = table[ids[2]] /\ MeaningOf(rec, xs, env) = D[ids[2]] /\ ids[2] \in DOMAIN table
      BY <1>3, <2>1, <2>3, <2>5, <2>7
    <3>2. QED
      BY <2>6, <3>1 DEF KeepsMeaning, p
  <2>8. CASE kids[1].val # 1
    <3>1. p = table[ids[3]] /\ MeaningOf(rec, xs, env) = D[ids[3]] /\ ids[3] \in DOMAIN table
      BY <1>3, <2>1, <2>3, <2>5, <2>8
    <3>2. QED
      BY <2>6, <3>1 DEF KeepsMeaning, p
  <2>9. QED
    BY <2>7, <2>8
<1>6. QED
  BY <1>4, <1>5

\* An object that stores a number, a truth or the name of an observable.
LEMMA LeafBuilt ==
  ASSUME NEW table, NEW env, NEW D, NEW ids, NEW kids, NEW xs, NEW rec,
         BuildsOperator(table, env, D, ids, kids, xs, rec),
         rec.type \in {"Number", "Observable", "BooleanConstant"}
  PROVE  KeepsMeaning(OperatorPayload(rec, ids, kids), D, xs, rec, env)
<1> DEFINE p == OperatorPayload(rec, ids, kids)
           x == MeaningOf(rec, xs, env)
<1>1. x.kind # "stuck" /\ PlainSource(rec)
  BY DEF BuildsOperator, Meaningful
<1>2. Stuck.kind = "stuck"
  BY ConstantMeanings
<1>3. CASE rec.type = "Number"
  <2>1. p = NumberPayload(rec.unit, IntegerDec(rec.val))
    BY <1>3 DEF OperatorPayload
  <2>2. x = IF rec.sound /\ rec.unit \in ValidUnits THEN Rational(rec.unit, rec.val, 1) ELSE Stuck
    BY <1>3 DEF MeaningOf, Conditionals
  <2>3. x = Rational(rec.unit, rec.val, 1)
    BY <1>1, <1>2, <2>2
  <2>4. rec.val \in Int
    BY <1>1, <1>3 DEF PlainSource
  <2> HIDE DEF p, x
  <2>5. IntegerDec(rec.val) \in Decimals
        /\ LiteralMeaning(rec.unit, IntegerDec(rec.val)) = Rational(rec.unit, rec.val, 1)
    BY <2>4, LiteralInteger
  <2>6. MeaningAt(p, D, env) = x
    BY <2>1, <2>3, <2>5, NumberPayloadMeans
  <2>7. QED
    BY <2>6 DEF KeepsMeaning, p, x
<1>4. CASE rec.type = "Observable"
  <2>1. p = Payload(rec.type, ids, rec.unit, rec.val, DecZero, "")
    BY <1>4 DEF OperatorPayload
  <2>2. x = IF rec.sound /\ rec.unit \in ValidUnits THEN Rational(rec.unit, env[rec.val], 1) ELSE Stuck
    BY <1>4 DEF MeaningOf, Conditionals
  <2>3. rec.unit \in ValidUnits /\ x = Rational(rec.unit, env[rec.val], 1)
    BY <1>1, <1>2, <2>2
  <2> HIDE DEF p, x
  <2>4. p.type = "Observable" /\ p.unit = rec.unit /\ p.val = rec.val /\ p.sound
    BY <1>4, <2>1 DEF Payload
  <2> DEFINE ys == ValuesAt(D, p.kids)
  <2>5. MeaningAt(p, D, env) = MeaningOf(p, ys, env)
    BY <2>4 DEF MeaningAt, PayloadMeaning
  <2> HIDE DEF ys
  <2>6. MeaningOf(p, ys, env)
          = IF p.sound /\ p.unit \in ValidUnits THEN Rational(p.unit, env[p.val], 1) ELSE Stuck
    BY <2>4 DEF MeaningOf, Conditionals
  <2>7. QED
    BY <2>3, <2>4, <2>5, <2>6 DEF KeepsMeaning, p, x
<1>5. CASE rec.type = "BooleanConstant"
  <2>1. p = BooleanPayload(rec.val = 1)
    BY <1>5 DEF OperatorPayload
  <2>2. x = IF rec.sound THEN Truth(rec.val = 1) ELSE Stuck
    BY <1>5 DEF MeaningOf, Conditionals
  <2> DEFINE b == rec.val = 1
  <2>3. x = Truth(b)
    BY <1>1, <1>2, <2>2
  <2> HIDE DEF p, x, b
  <2>4. MeaningAt(p, D, env) = Truth(b)
    BY <2>1, BooleanPayloadMeans DEF b
  <2>5. QED
    BY <2>3, <2>4 DEF KeepsMeaning, p, x
<1>6. QED
  BY <1>3, <1>4, <1>5

LEMMA PaymentBuilt ==
  ASSUME NEW table, NEW env, NEW D, NEW ids, NEW kids, NEW xs, NEW rec,
         BuildsOperator(table, env, D, ids, kids, xs, rec), rec.type = "Payment"
  PROVE  KeepsMeaning(OperatorPayload(rec, ids, kids), D, xs, rec, env)
<1> DEFINE p == OperatorPayload(rec, ids, kids)
           paid(r) == r.sound /\ IsNumber(xs[1]) /\ IsMoney(xs[1].unit) /\ xs[1].unit = r.unit
           flows(r) == Flows(<< [at |-> r.val, amount |-> xs[1]] >>)
           ok == paid(rec)
           ok2 == paid(p)
           m == flows(rec)
<1>1. MeaningOf(rec, xs, env).kind # "stuck" /\ xs = ValuesAt(D, ids)
  BY DEF BuildsOperator, Meaningful, OperandsAt
<1>2. p = Payload(rec.type, ids, rec.unit, rec.val, DecZero, "")
  BY DEF OperatorPayload
<1> HIDE DEF p
<1>3. p.type = "Payment" /\ p.kids = ids /\ p.unit = rec.unit /\ p.val = rec.val /\ p.sound
  BY <1>2 DEF Payload
<1>4. MeaningOf(rec, xs, env) = Apply(xs, ok, m)
  BY DEF MeaningOf, Conditionals
<1>5. MeaningOf(p, xs, env) = Apply(xs, ok2, flows(p))
  BY <1>3 DEF MeaningOf, Conditionals
<1>6. (ok => ok2) /\ flows(p) = m
  BY <1>3
<1>7. MeaningAt(p, D, env) = MeaningOf(p, xs, env)
  BY <1>1, <1>3 DEF MeaningAt, PayloadMeaning
<1> HIDE DEF flows, paid
<1> HIDE DEF ok, ok2, m
<1>8. Apply(xs, ok2, m) = Apply(xs, ok, m)
  BY <1>1, <1>4, <1>6, AppliedWeaker
<1>9. QED
  BY <1>4, <1>5, <1>6, <1>7, <1>8 DEF KeepsMeaning, p

\* An operator node means what its object means.
LEMMA OperatorMeans ==
  ASSUME NEW table, NEW env, NEW D, NEW ids, NEW kids, NEW xs, NEW rec,
         BuildsOperator(table, env, D, ids, kids, xs, rec), rec.type \notin MergedTypes
  PROVE  KeepsMeaning(OperatorPayload(rec, ids, kids), D, xs, rec, env)
<1>1. CASE rec.type \in {"Number", "Observable", "BooleanConstant"}
  BY <1>1, LeafBuilt
<1>2. CASE rec.type \in {"Zero", "Divide", "Both", "Scale"}
  <2>1. OperatorPayload(rec, ids, kids) = Payload(rec.type, ids, "none", 0, DecZero, "")
    BY <1>2 DEF OperatorPayload
  <2>2. QED
    BY <1>2, <2>1, KeptKeeps
<1>3. CASE rec.type = "Payment"
  BY <1>3, PaymentBuilt
<1>4. CASE rec.type = "Negate"
  BY <1>4, NegationBuilt
<1>5. CASE rec.type = "Subtract"
  BY <1>5, DifferenceBuilt
<1>6. CASE rec.type = "Multiply"
  BY <1>6, ProductBuilt
<1>7. CASE rec.type = "Comparison"
  BY <1>7, ComparisonBuilt
<1>8. CASE rec.type = "Not"
  BY <1>8, NegatedBuilt
<1>9. CASE rec.type \in Conditionals
  BY <1>9, ChoiceBuilt
<1>10. rec.type \in SupportedTypes
  BY DEF BuildsOperator, SourceOK
<1>11. QED
  BY <1>1, <1>2, <1>3, <1>4, <1>5, <1>6, <1>7, <1>8, <1>9, <1>10
     DEF SupportedTypes, ScalarTypes, BooleanTypes, ContractTypes, MergedTypes,
         CollectionTypes, Conditionals

\* The greatest or least literal means the greatest or least of the meanings.
LEMMA ExtremeMeaning ==
  ASSUME NEW kids, NEW xs, NEW u, NEW n \in Nat \ {0}, LiteralsMean(kids, xs, u, n),
         NEW type \in {"Maximum", "Minimum"}, NEW side, side = IF type = "Maximum" THEN 1 ELSE -1
  PROVE  LiteralMeaning(u, ExtremeOf(side, kids)) = Folded(type, xs, n)
<1> DEFINE L(a) == LiteralMeaning(u, a)
           F(i) == Folded(type, xs, i)
<1>1. Len(kids) = n /\ \A i \in 1..n : kids[i].num \in Decimals /\ xs[i] = L(kids[i].num)
  BY DEF LiteralsMean
<1>2. PICK f : ExtremeOf(side, kids) = f[n] /\ Bests(side, kids, n, f)
  BY <1>1, ExtremeSteps
<1>3. F(1) = xs[1] /\ \A i \in Nat \ {0} : F(i + 1) = Combine(type, F(i), xs[i + 1])
  BY FoldedSteps
<1>4. \A a, b \in Decimals :
        Combine(type, L(b), L(a)) = IF ExactCmp(a, b) = side THEN L(a) ELSE L(b)
  <2>1. SUFFICES ASSUME NEW a \in Decimals, NEW b \in Decimals
                 PROVE  Combine(type, L(b), L(a)) = IF ExactCmp(a, b) = side THEN L(a) ELSE L(b)
    OBVIOUS
  <2>2. /\ LessThan(L(a), L(b)) <=> ExactCmp(a, b) = -1
        /\ LessThan(L(b), L(a)) <=> ExactCmp(a, b) = 1
    BY LiteralOrder
  <2> HIDE DEF L
  <2>3. CASE type = "Maximum"
    BY <2>2, <2>3, CombineNumbers
  <2>4. CASE type = "Minimum"
    BY <2>2, <2>4, CombineNumbers
  <2>5. QED
    BY <2>3, <2>4
<1> HIDE DEF L, F
<1> DEFINE T == {i \in 0..n : i = 0 \/ (f[i] \in Decimals /\ L(f[i]) = F(i))}
<1>7. 0 \in T
  OBVIOUS
<1>8. ASSUME NEW i \in 0..(n - 1), i \in T PROVE i + 1 \in T
  <2>1. i + 1 \in 1..n /\ i + 1 \in 0..n /\ i \in Nat
    OBVIOUS
  <2>3. kids[i + 1].num \in Decimals /\ xs[i + 1] = L(kids[i + 1].num)
    BY <1>1, <2>1
  <2>4. CASE i = 0
    <3>1. i + 1 = 1 /\ f[1] = kids[1].num
      BY <1>2, <2>4 DEF Bests
    <3>2. QED
      BY <1>3, <2>1, <2>3, <3>1
  <2>5. CASE i # 0
    <3>1. f[i] \in Decimals /\ L(f[i]) = F(i) /\ i \in Nat \ {0} /\ i \in 1..(n - 1)
      BY <1>8, <2>1, <2>5
    <3>2. F(i + 1) = Combine(type, L(f[i]), L(kids[i + 1].num))
      BY <1>3, <2>3, <3>1
    <3>3. f[i + 1] = IF ExactCmp(kids[i + 1].num, f[i]) = side THEN kids[i + 1].num ELSE f[i]
      BY <1>2, <3>1 DEF Bests
    <3>4. Combine(type, L(f[i]), L(kids[i + 1].num))
            = IF ExactCmp(kids[i + 1].num, f[i]) = side THEN L(kids[i + 1].num) ELSE L(f[i])
      BY <1>4, <2>3, <3>1
    <3>5. QED
      BY <2>1, <2>3, <3>1, <3>2, <3>3, <3>4
  <2>6. QED
    BY <2>4, <2>5
<1> HIDE DEF T
<1>9. n \in T
  <2>1. 0..n \subseteq T
    BY <1>7, <1>8, Climb
  <2>2. QED
    BY <2>1
<1>10. L(f[n]) = F(n)
  BY <1>9 DEF T
<1>11. QED
  BY <1>2, <1>10 DEF L, F

\* A collection over ids: its kids and what they mean.
BuildsCollection(table, env, D, ids, kids, ys, rec) ==
  /\ OperandsAt(table, env, D, ids, kids, ys)
  /\ rec.type \in MergedTypes
  /\ Meaningful(rec, MeaningOf(rec, ys, env))

LEMMA CollectionKept ==
  ASSUME NEW table, NEW env, NEW D, NEW ids, NEW kids, NEW ys, NEW rec,
         BuildsCollection(table, env, D, ids, kids, ys, rec),
         NEW p, p = Payload(rec.type, ids, "none", 0, DecZero, "")
  PROVE  KeepsMeaning(p, D, ys, rec, env)
<1>1. p.type = rec.type /\ p.kids = ids
  BY DEF Payload
<1>2. /\ rec.type \in SupportedTypes /\ ys = ValuesAt(D, ids)
      /\ rec.type \notin {"Number", "Observable", "BooleanConstant", "Comparison", "Payment"}
  BY DEF BuildsCollection, OperandsAt, MergedTypes, CollectionTypes, SupportedTypes, ScalarTypes,
         BooleanTypes
<1> DEFINE m == MeaningAt(p, D, env)
<1>3. m = MeaningOf(rec, ValuesAt(D, p.kids), env)
  BY <1>1, <1>2, KeptPayloadMeans
<1>4. QED
  BY <1>1, <1>2, <1>3 DEF KeepsMeaning

\* Operands that all have a value are reduced.
LEMMA CollectionReduced ==
  ASSUME NEW table, NEW env, NEW D, NEW ids, NEW kids, NEW ys, NEW rec,
         BuildsCollection(table, env, D, ids, kids, ys, rec),
         \A i \in 1..Len(ys) : ys[i].kind \notin {"stuck", "undefined"}
  PROVE  /\ MeaningOf(rec, ys, env) = Folded(rec.type, ys, Len(ys))
         /\ Len(ys) \in Nat /\ Len(ys) >= 2 /\ Len(kids) = Len(ys)
         /\ Alike(rec.type, ys)
         /\ rec.type \in NumberCollections => \A i \in 1..Len(ys) : ys[i].unit = rec.unit
<1>1. /\ OperandsAt(table, env, D, ids, kids, ys) /\ rec.type \in MergedTypes
      /\ Meaningful(rec, MeaningOf(rec, ys, env))
  BY DEF BuildsCollection
<1>2. Len(ys) \in Nat /\ Len(kids) = Len(ys)
  BY <1>1, OperandsAtFacts
<1>3. Stuck.kind = "stuck"
  BY ConstantMeanings
<1>4. ~HasKind(ys, "stuck") /\ ~HasKind(ys, "undefined")
  BY DEF HasKind
<1>5. MeaningOf(rec, ys, env)
        = IF HasKind(ys, "stuck") THEN Stuck
          ELSE IF HasKind(ys, "undefined") THEN Undefined
          ELSE IF Alike(rec.type, ys) THEN Reduce(rec.type, ys) ELSE Stuck
  BY <1>1, CollectionMeaning
<1>6. Alike(rec.type, ys) /\ MeaningOf(rec, ys, env) = Reduce(rec.type, ys)
  BY <1>1, <1>3, <1>4, <1>5 DEF Meaningful
<1>7. Len(ys) >= 2
  BY <1>6 DEF Alike
<1>8. ASSUME rec.type \in NumberCollections, NEW i \in 1..Len(ys)
      PROVE  ys[i].unit = rec.unit
  <2>1. AllNumbersAlike(ys)
    BY <1>6, <1>8 DEF Alike
  <2>2. ys[i].unit = ys[1].unit
    BY <2>1 DEF AllNumbersAlike, SameUnit
  <2>3. Reduce(rec.type, ys).kind \in {"number", "truth"} /\ Reduce(rec.type, ys).unit = ys[1].unit
    BY <1>1, <1>2, <1>6, <1>7, <1>8, ReducedKind
  <2>4. Reduce(rec.type, ys).kind = "number"
    <3>1. /\ rec.type \in {"Add", "Maximum", "Minimum"}
          /\ \A j \in 1..Len(ys) : ys[j].kind = "number" /\ ys[j].unit = ys[1].unit
      BY <1>8, <2>1 DEF AllNumbersAlike, SameUnit, IsNumber, NumberCollections
    <3> DEFINE u == ys[1].unit
    <3>2. \A j \in 1..Len(ys) : ys[j].kind = "number" /\ ys[j].unit = u
      BY <3>1
    <3> HIDE DEF u
    <3>3. QED
      BY <1>2, <1>7, <3>1, <3>2, ReduceNumbers
  <2>5. QED
    BY <1>1, <1>6, <2>2, <2>3, <2>4 DEF Meaningful
<1>9. QED
  BY <1>2, <1>6, <1>7, <1>8, ReduceIsFolded

LEMMA LiteralsCollected ==
  ASSUME NEW table, NEW env, NEW D, NEW ids, NEW kids, NEW ys, NEW rec,
         BuildsCollection(table, env, D, ids, kids, ys, rec),
         rec.type \in NumberCollections, AllLiterals(kids)
  PROVE  /\ MeaningOf(rec, ys, env) = Folded(rec.type, ys, Len(ys))
         /\ Len(ys) \in Nat \ {0} /\ LiteralsMean(kids, ys, rec.unit, Len(ys))
         /\ Len(kids) = Len(ys) /\ \A i \in 1..Len(kids) : kids[i].num \in Decimals
<1>1. OperandsAt(table, env, D, ids, kids, ys)
  BY DEF BuildsCollection
<1>2. /\ \A i \in 1..Len(ys) : LiteralMeans(kids[i], ys[i])
      /\ \A i \in 1..Len(ys) : ys[i].kind \notin {"stuck", "undefined"}
  BY <1>1, LiteralOperands
<1>3. /\ MeaningOf(rec, ys, env) = Folded(rec.type, ys, Len(ys))
      /\ Len(ys) \in Nat /\ Len(ys) >= 2 /\ Len(kids) = Len(ys)
      /\ \A i \in 1..Len(ys) : ys[i].unit = rec.unit
  BY <1>2, CollectionReduced
<1>4. \A i \in 1..Len(ys) : kids[i].num \in Decimals /\ ys[i] = LiteralMeaning(rec.unit, kids[i].num)
  BY <1>2, <1>3 DEF LiteralMeans
<1>5. LiteralsMean(kids, ys, rec.unit, Len(ys))
  BY <1>3, <1>4 DEF LiteralsMean
<1>6. QED
  BY <1>3, <1>4, <1>5

LEMMA SumLiteral ==
  ASSUME NEW table, NEW env, NEW D, NEW ids, NEW kids, NEW ys, NEW rec,
         BuildsCollection(table, env, D, ids, kids, ys, rec), rec.type = "Add",
         AllLiterals(kids)
  PROVE  /\ SumOf(kids) \in Decimals
         /\ MeaningOf(rec, ys, env) = LiteralMeaning(rec.unit, SumOf(kids))
<1>1. /\ MeaningOf(rec, ys, env) = Folded("Add", ys, Len(ys))
      /\ Len(ys) \in Nat \ {0} /\ LiteralsMean(kids, ys, rec.unit, Len(ys))
      /\ Len(kids) = Len(ys) /\ \A i \in 1..Len(kids) : kids[i].num \in Decimals
  BY LiteralsCollected DEF NumberCollections
<1>2. SumOf(kids) \in Decimals
  BY <1>1, SumTyped DEF Numbered
<1>3. LiteralMeaning(rec.unit, SumOf(kids)) = Folded("Add", ys, Len(ys))
  BY <1>1, SumMeaning
<1>4. QED
  BY <1>1, <1>2, <1>3

LEMMA SumBuilt ==
  ASSUME NEW table, NEW env, NEW D, NEW ids, NEW kids, NEW ys, NEW rec,
         BuildsCollection(table, env, D, ids, kids, ys, rec), rec.type = "Add"
  PROVE  KeepsMeaning(CollectionPayload(rec, ids, kids), D, ys, rec, env)
<1> DEFINE p == CollectionPayload(rec, ids, kids)
           kept == Payload(rec.type, ids, "none", 0, DecZero, "")
           num == SumOf(kids)
<1>1. CASE ~(AllLiterals(kids) /\ InBounds(num))
  <2>1. p = kept
    BY <1>1 DEF CollectionPayload, Fold
  <2>2. QED
    BY <2>1, CollectionKept
<1>2. CASE AllLiterals(kids) /\ InBounds(num)
  <2>1. p = NumberPayload(rec.unit, num)
    BY <1>2 DEF CollectionPayload, Fold
  <2>2. num \in Decimals /\ MeaningOf(rec, ys, env) = LiteralMeaning(rec.unit, num)
    BY <1>2, SumLiteral
  <2> HIDE DEF p, num
  <2>3. MeaningAt(p, D, env) = LiteralMeaning(rec.unit, num)
    BY <2>1, <2>2, NumberPayloadMeans
  <2>4. QED
    BY <2>2, <2>3 DEF KeepsMeaning, p
<1>3. QED
  BY <1>1, <1>2

LEMMA ExtremeBuilt ==
  ASSUME NEW table, NEW env, NEW D, NEW ids, NEW kids, NEW ys, NEW rec,
         BuildsCollection(table, env, D, ids, kids, ys, rec),
         rec.type \in {"Maximum", "Minimum"}
  PROVE  KeepsMeaning(CollectionPayload(rec, ids, kids), D, ys, rec, env)
<1> DEFINE p == CollectionPayload(rec, ids, kids)
           kept == Payload(rec.type, ids, "none", 0, DecZero, "")
           side == IF rec.type = "Maximum" THEN 1 ELSE -1
           a == ExtremeOf(side, kids)
<1>1. CASE ~AllLiterals(kids)
  <2>1. p = kept
    BY <1>1 DEF CollectionPayload
  <2>2. QED
    BY <2>1, CollectionKept
<1>2. CASE AllLiterals(kids)
  <2>1. p = NumberPayload(rec.unit, a)
    BY <1>2 DEF CollectionPayload
  <2>2. /\ MeaningOf(rec, ys, env) = Folded(rec.type, ys, Len(ys))
        /\ Len(ys) \in Nat \ {0} /\ LiteralsMean(kids, ys, rec.unit, Len(ys))
        /\ Len(kids) = Len(ys) /\ \A i \in 1..Len(kids) : kids[i].num \in Decimals
    BY <1>2, LiteralsCollected DEF NumberCollections
  <2>3. side = IF rec.type = "Maximum" THEN 1 ELSE -1
    OBVIOUS
  <2> HIDE DEF p, side
  <2>4. PICK i \in 1..Len(kids) : a = kids[i].num
    BY <2>2, ExtremeIsOne
  <2>5. a \in Decimals
    BY <2>2, <2>4
  <2>6. LiteralMeaning(rec.unit, a) = Folded(rec.type, ys, Len(ys))
    BY <2>2, <2>3, ExtremeMeaning
  <2> HIDE DEF a
  <2>7. MeaningAt(p, D, env) = LiteralMeaning(rec.unit, a)
    BY <2>1, <2>5, NumberPayloadMeans
  <2>8. QED
    BY <2>2, <2>6, <2>7 DEF KeepsMeaning, p
<1>3. QED
  BY <1>1, <1>2

LEMMA ConditionBuilt ==
  ASSUME NEW table, NEW env, NEW D, NEW ids, NEW kids, NEW ys, NEW rec,
         BuildsCollection(table, env, D, ids, kids, ys, rec), rec.type \in {"AllOf", "AnyOf"}
  PROVE  KeepsMeaning(CollectionPayload(rec, ids, kids), D, ys, rec, env)
<1> DEFINE p == CollectionPayload(rec, ids, kids)
           kept == Payload(rec.type, ids, "none", 0, DecZero, "")
           all == \A i \in 1..Len(kids) : kids[i].val = 1
           any == \E i \in 1..Len(kids) : kids[i].val = 1
<1>1. CASE ~AllConstants(kids)
  <2>1. p = kept
    BY <1>1 DEF CollectionPayload
  <2>2. QED
    BY <2>1, CollectionKept
<1>2. CASE AllConstants(kids)
  <2>1. OperandsAt(table, env, D, ids, kids, ys) /\ MeaningTable(table, env, D)
    BY DEF BuildsCollection, OperandsAt
  <2>2. /\ Len(kids) = Len(ids) /\ Len(ys) = Len(ids)
        /\ \A i \in 1..Len(ids) : /\ ids[i] \in DOMAIN table
                                  /\ kids[i] = table[ids[i]] /\ ys[i] = D[ids[i]]
    BY <2>1, OperandsAtFacts
  <2>3. ASSUME NEW i \in 1..Len(ys) PROVE ys[i] = Truth(kids[i].val = 1) /\ ys[i].kind = "truth"
    <3>1. IsConstant(table[ids[i]])
      BY <1>2, <2>2 DEF AllConstants
    <3>2. ys[i] = Truth(kids[i].val = 1)
      BY <2>1, <2>2, <3>1, ConstantAt
    <3>3. QED
      BY <3>2, ConstantMeanings
  <2>4. \A i \in 1..Len(ys) : ys[i].kind \notin {"stuck", "undefined"}
    BY <2>3
  <2>5. /\ MeaningOf(rec, ys, env) = Folded(rec.type, ys, Len(ys))
        /\ Len(ys) \in Nat /\ Len(ys) >= 2 /\ Len(kids) = Len(ys)
    BY <2>4, CollectionReduced
  <2>6. ConstantsMean(kids, ys, Len(ys)) /\ Len(ys) \in Nat \ {0}
    BY <2>3, <2>5 DEF ConstantsMean
  <2>7. /\ Truth(\A i \in 1..Len(ys) : kids[i].val = 1) = Folded("AllOf", ys, Len(ys))
        /\ Truth(\E i \in 1..Len(ys) : kids[i].val = 1) = Folded("AnyOf", ys, Len(ys))
    BY <2>6, BooleanMeaning
  <2>8. Truth(all) = Folded("AllOf", ys, Len(ys)) /\ Truth(any) = Folded("AnyOf", ys, Len(ys))
    BY <2>5, <2>7
  <2>9. (rec.type = "AllOf" => p = BooleanPayload(all)) /\ (rec.type = "AnyOf" => p = BooleanPayload(any))
    BY <1>2 DEF CollectionPayload
  <2> HIDE DEF p, all, any
  <2>10. /\ MeaningAt(BooleanPayload(all), D, env) = Truth(all)
         /\ MeaningAt(BooleanPayload(any), D, env) = Truth(any)
    BY BooleanPayloadMeans
  <2>11. QED
    BY <2>5, <2>8, <2>9, <2>10 DEF KeepsMeaning, p
<1>3. QED
  BY <1>1, <1>2

\* A collection means what it is the collection of.
LEMMA CollectionMeans ==
  ASSUME NEW table, NEW env, NEW D, NEW ids, NEW kids, NEW ys, NEW rec,
         BuildsCollection(table, env, D, ids, kids, ys, rec)
  PROVE  KeepsMeaning(CollectionPayload(rec, ids, kids), D, ys, rec, env)
<1>1. rec.type \in MergedTypes
  BY DEF BuildsCollection
<1>2. rec.type = "Add" \/ rec.type \in {"Maximum", "Minimum"} \/ rec.type \in {"AllOf", "AnyOf"}
  BY <1>1 DEF MergedTypes, CollectionTypes
<1>3. QED
  BY <1>2, SumBuilt, ExtremeBuilt, ConditionBuilt

\* Operands without a value leave none to a collection.
LEMMA OperandsOfMeaning ==
  ASSUME NEW p, p.type \in MergedTypes, NEW xs, NEW env, MeaningOf(p, xs, env).kind # "stuck"
  PROVE  \A i \in 1..Len(xs) : xs[i].kind # "stuck"
<1>1. Stuck.kind = "stuck"
  BY ConstantMeanings
<1>2. MeaningOf(p, xs, env)
        = IF HasKind(xs, "stuck") THEN Stuck
          ELSE IF HasKind(xs, "undefined") THEN Undefined
          ELSE IF Alike(p.type, xs) THEN Reduce(p.type, xs) ELSE Stuck
  BY CollectionMeaning
<1>3. ~HasKind(xs, "stuck")
  BY <1>1, <1>2
<1>4. QED
  BY <1>3 DEF HasKind

\* What is merged keeps the meaning of what it is merged for.
LEMMA ListsKeep ==
  ASSUME NEW table, NEW env, NEW D, NEW ids, NEW kids, NEW xs,
         OperandsAt(table, env, D, ids, kids, xs), NEW type \in MergedTypes,
         \A i \in 1..Len(xs) : xs[i].kind # "stuck"
  PROVE  RunsKeep(type, D, OperandLists(type, ids, kids), xs)
<1> DEFINE ss == OperandLists(type, ids, kids)
           n == Len(ids)
<1>1. /\ n \in Nat /\ Len(kids) = n /\ Len(xs) = n
      /\ \A i \in 1..n : /\ ids[i] \in DOMAIN table
                         /\ kids[i] = table[ids[i]] /\ xs[i] = D[ids[i]]
  BY OperandsAtFacts
<1>2. ss = [i \in 1..n |-> IF kids[i].type = type THEN kids[i].kids ELSE << ids[i] >>]
  BY DEF OperandLists
<1>3. MeaningTable(table, env, D) /\ ids \in Seq(DOMAIN table) /\ kids = PayloadsOf(ids, table)
  BY DEF OperandsAt
<1>4. Means(table, DOMAIN table, env, D) /\ TableIn(table)
  BY <1>3 DEF MeaningTable
<1> HIDE DEF ss
<1>5. ASSUME NEW i \in 1..n PROVE RunKeeps(type, D, ss[i], xs[i])
  <2>1. CASE kids[i].type = type
    <3> DEFINE p == kids[i]
    <3>1. ss[i] = p.kids /\ p.type = type
      BY <1>2, <2>1
    <3>2. ids[i] \in DOMAIN table /\ p = table[ids[i]] /\ xs[i] = D[ids[i]]
      BY <1>1
    <3> HIDE DEF p
    <3>3. xs[i] = MeaningAt(p, D, env)
      BY <1>4, <3>2 DEF Means
    <3>4. p.type # "Number"
      BY <3>1 DEF MergedTypes, CollectionTypes
    <3>5. xs[i] = MeaningOf(p, ValuesAt(D, p.kids), env)
      BY <3>3, <3>4 DEF MeaningAt, PayloadMeaning
    <3>6. p.kids \in Seq(DOMAIN table)
      BY <1>4, <3>2 DEF TableIn, PayloadIn
    <3>7. Len(p.kids) \in Nat
      BY <3>6, LenProperties
    <3>8. xs[i].kind # "stuck"
      BY <1>1
    <3> DEFINE x == xs[i]
               ks == p.kids
    <3>9. x = MeaningOf(p, ValuesAt(D, ks), env) /\ x.kind # "stuck" /\ Len(ks) \in Nat
      BY <3>5, <3>7, <3>8
    <3>10. ss[i] = ks
      BY <3>1
    <3> HIDE DEF x, ks
    <3>11. RunKeeps(p.type, D, ks, x)
      BY <3>1, <3>9, NestedRun
    <3>12. QED
      BY <3>1, <3>10, <3>11 DEF x
  <2>2. CASE kids[i].type # type
    <3>1. ss[i] = << ids[i] >> /\ xs[i] = D[ids[i]] /\ xs[i].kind # "stuck"
      BY <1>1, <1>2, <2>2
    <3> DEFINE id == ids[i]
    <3>2. D[id].kind # "stuck"
      BY <3>1
    <3> HIDE DEF id
    <3>3. RunKeeps(type, D, << id >>, D[id])
      BY <3>2, SingleRun
    <3>4. QED
      BY <3>1, <3>3 DEF id
  <2>3. QED
    BY <2>1, <2>2
<1>6. Len(ss) = n
  <2>1. CASE n = 0
    <3>1. ss = << >>
      BY <1>2, <2>1
    <3>2. QED
      BY <2>1, <3>1
  <2>2. CASE n # 0
    <3>1. ids # << >>
      BY <2>2
    <3>2. QED
      BY <1>3, <1>4, <3>1, MergedOperands DEF ss
  <2>3. QED
    BY <2>1, <2>2
<1>7. QED
  BY <1>1, <1>5, <1>6 DEF RunsKeep, ss

\* Sorting operands.
LEMMA SortedShuffled ==
  ASSUME NEW D, NEW s \in Seq(Nat), NEW n \in Nat, Len(s) = n
  PROVE  Shuffled(ValuesAt(D, s), ValuesAt(D, SortedIds(s)), n)
<1> DEFINE t == SortedIds(s)
           xs == ValuesAt(D, s)
           ys == ValuesAt(D, t)
<1>1. PICK m : Rearranges(m, n, t, s)
  BY SortedRearranges
<1>2. Len(t) = n
  BY SortedFacts
<1>3. /\ Len(xs) = n /\ \A i \in 1..n : xs[i] = D[s[i]]
  BY ValuesFacts
<1> HIDE DEF t
<1>4. /\ Len(ys) = n /\ \A i \in 1..n : ys[i] = D[t[i]]
  BY <1>2, ValuesFacts
<1> HIDE DEF xs, ys
<1>5. ASSUME NEW i \in 1..n PROVE ys[i] = xs[m[i]]
  <2>1. m[i] \in 1..n /\ t[i] = s[m[i]]
    BY <1>1 DEF Rearranges
  <2>2. xs[m[i]] = D[s[m[i]]]
    BY <1>3, <2>1
  <2>3. QED
    BY <1>4, <2>1, <2>2
<1>6. Rearranges(m, n, ys, xs)
  BY <1>1, <1>5 DEF Rearranges
<1>7. QED
  BY <1>3, <1>4, <1>6 DEF Shuffled, xs, ys, t

\* Merging and sorting the operands keeps the meaning of the collection.
LEMMA MergedOperandsMean ==
  ASSUME NEW table, NEW env, NEW D, NEW ids, NEW kids, NEW xs, NEW rec,
         BuildsOperator(table, env, D, ids, kids, xs, rec), rec.type \in MergedTypes
  PROVE  LET operands == SortedIds(Flattened(rec.type, ids, kids))
             ys == ValuesAt(D, operands)
         IN  /\ MeaningOf(rec, xs, env) = MeaningOf(rec, ys, env)
             /\ BuildsCollection(table, env, D, operands, PayloadsOf(operands, table), ys, rec)
<1> DEFINE type == rec.type
           U == Unmerged(type, table)
           ss == OperandLists(type, ids, kids)
           flat == Flattened(type, ids, kids)
           operands == SortedIds(flat)
           zs == ValuesAt(D, flat)
           ys == ValuesAt(D, operands)
           x == MeaningOf(rec, xs, env)
           n == Len(flat)
<1>1. /\ OperandsAt(table, env, D, ids, kids, xs) /\ MeaningTable(table, env, D)
      /\ ids \in Seq(DOMAIN table) /\ kids = PayloadsOf(ids, table)
      /\ SourceOK(rec, ids) /\ ids # << >> /\ Meaningful(rec, x)
  BY DEF BuildsOperator, OperandsAt, SourceOK
<1>2. TableIn(table) /\ NormalOn(DOMAIN table, D)
  BY <1>1 DEF MeaningTable
<1>3. /\ flat \in NonEmptySeqs(U) /\ ss \in NonEmptySeqs(NonEmptySeqs(U))
  BY <1>1, <1>2, MergedOperands
<1>4. flat = FlattenSeq(ss)
  BY DEF Flattened, OperandLists
<1>5. U \subseteq DOMAIN table /\ U \subseteq Nat
  BY <1>2 DEF Unmerged, TableIn
<1>6. NormalOn(U, D)
  BY <1>2, <1>5 DEF NormalOn
<1>7. x.kind # "stuck"
  BY <1>1 DEF Meaningful
<1>8. \A i \in 1..Len(xs) : xs[i].kind # "stuck"
  BY <1>7, OperandsOfMeaning
<1>9. RunsKeep(rec.type, D, ss, xs)
  BY <1>1, <1>8, ListsKeep
<1> HIDE DEF U, ss
<1>11. flat \in Seq(U)
  BY <1>3 DEF NonEmptySeqs
<1>12. flat \in Seq(Nat) /\ flat \in Seq(DOMAIN table) /\ n \in Nat
       /\ \A i \in 1..n : flat[i] \in U
  BY <1>5, <1>11, WiderSeq, LenProperties, ElementOfSeq
<1>13. MeaningOf(rec, zs, env) = x
  <2>1. MeaningOf(rec, ValuesAt(D, FlattenSeq(ss)), env) = x
    BY <1>3, <1>6, <1>7, <1>9, MergedMeaning
  <2>2. QED
    BY <1>4, <2>1
<1> HIDE DEF flat, x
<1>14. Shuffled(zs, ys, n)
  BY <1>12, SortedShuffled
<1>15. \A i \in 1..n : NormalMeaning(zs[i])
  BY <1>6, <1>12, ValuesFacts DEF NormalOn
<1>16. operands \in Seq(DOMAIN table)
  BY <1>1, <1>2, PayloadBuilt DEF flat
<1> HIDE DEF zs, n
<1>17. OperandsAt(table, env, D, operands, PayloadsOf(operands, table), ys)
  BY <1>1, <1>16 DEF OperandsAt
<1> HIDE DEF operands, ys
<1>18. MeaningOf(rec, zs, env) = MeaningOf(rec, ys, env)
  BY <1>12, <1>14, <1>15, CollectionShuffled
<1>19. BuildsCollection(table, env, D, operands, PayloadsOf(operands, table), ys, rec)
  BY <1>1, <1>13, <1>17, <1>18 DEF BuildsCollection
<1>20. MeaningOf(rec, xs, env) = MeaningOf(rec, ys, env)
  BY <1>13, <1>18 DEF x
<1>21. QED
  BY <1>19, <1>20 DEF flat, operands, ys

LEMMA MergedBuilt ==
  ASSUME NEW table, NEW env, NEW D, NEW ids, NEW kids, NEW xs, NEW rec,
         BuildsOperator(table, env, D, ids, kids, xs, rec), rec.type \in MergedTypes
  PROVE  KeepsMeaning(PayloadOf(rec, ids, table), D, xs, rec, env)
<1> DEFINE operands == SortedIds(Flattened(rec.type, ids, kids))
           ys == ValuesAt(D, operands)
           q == CollectionPayload(rec, operands, PayloadsOf(operands, table))
<1>1. kids = PayloadsOf(ids, table)
  BY DEF BuildsOperator, OperandsAt
<1>2. PayloadOf(rec, ids, table) = q
  BY <1>1 DEF PayloadOf
<1>3. /\ MeaningOf(rec, xs, env) = MeaningOf(rec, ys, env)
      /\ BuildsCollection(table, env, D, operands, PayloadsOf(operands, table), ys, rec)
  BY MergedOperandsMean
<1> HIDE DEF operands, ys
<1>4. KeepsMeaning(q, D, ys, rec, env)
  BY <1>3, CollectionMeans
<1> HIDE DEF q
<1>5. QED
  BY <1>2, <1>3, <1>4 DEF KeepsMeaning

\* The payload that _build_payload gives an object means what the object means.
LEMMA PayloadMeans ==
  ASSUME NEW table, NEW env, NEW D, NEW ids, NEW kids, NEW xs, NEW rec,
         BuildsOperator(table, env, D, ids, kids, xs, rec)
  PROVE  KeepsMeaning(PayloadOf(rec, ids, table), D, xs, rec, env)
<1>1. CASE rec.type \in MergedTypes
  BY <1>1, MergedBuilt
<1>2. CASE rec.type \notin MergedTypes
  <2>1. kids = PayloadsOf(ids, table)
    BY DEF BuildsOperator, OperandsAt
  <2>2. PayloadOf(rec, ids, table) = OperatorPayload(rec, ids, kids)
    BY <1>2, <2>1 DEF PayloadOf
  <2>3. QED
    BY <1>2, <2>2, OperatorMeans
<1>3. QED
  BY <1>1, <1>2

-----------------------------------------------------------------------------
(* What pays the same: the table and the contract.                         *)

\* p is plain, and if it is an observable, env knows its value.
Simple(p, env) == PlainPayload(p) /\ (p.type = "Observable" => env[p.val] \in Int)

LEMMA OthersSimple ==
  ASSUME NEW env, NEW t, t \notin {"BooleanConstant", "Observable"},
         NEW ids, NEW u, NEW v, NEW num, NEW op
  PROVE  Simple(Payload(t, ids, u, v, num, op), env)
BY DEF Simple, PlainPayload, Payload, IsConstant

LEMMA LiteralsSimple ==
  ASSUME NEW env, NEW u, NEW num
  PROVE  Simple(NumberPayload(u, num), env)
BY OthersSimple DEF NumberPayload

LEMMA TruthsSimple ==
  ASSUME NEW env, NEW b
  PROVE  Simple(BooleanPayload(b), env)
BY DEF Simple, PlainPayload, BooleanPayload, Payload, IsConstant

LEMMA FoldsSimple ==
  ASSUME NEW env, NEW rec, NEW num, NEW q, Simple(q, env)
  PROVE  Simple(Fold(rec, num, q), env)
<1> DEFINE p == NumberPayload(rec.unit, num)
<1>1. Simple(p, env)
  BY LiteralsSimple
<1> HIDE DEF p
<1>2. Fold(rec, num, q) \in {p, q}
  BY DEF Fold, p
<1>3. QED
  BY <1>1, <1>2

\* _build_payload makes simple payloads of simple ones.
LEMMA OperatorSimple ==
  ASSUME NEW env, NEW rec, rec.type \in SupportedTypes \ MergedTypes, NEW ids, NEW kids,
         rec.type = "Observable" => env[rec.val] \in Int,
         rec.type \in {"ConditionalValue", "ConditionalContract"} =>
           Simple(kids[2], env) /\ Simple(kids[3], env)
  PROVE  Simple(OperatorPayload(rec, ids, kids), env)
<1> DEFINE kept == Payload(rec.type, ids, "none", 0, DecZero, "")
           product == Payload(rec.type, Factors(ids), "none", 0, DecZero, "")
           p == OperatorPayload(rec, ids, kids)
<1>1. rec.type \notin {"BooleanConstant", "Observable"} =>
        Simple(kept, env) /\ Simple(product, env)
  BY OthersSimple
<1>2. CASE rec.type = "Number"
  <2>1. p = NumberPayload(rec.unit, IntegerDec(rec.val))
    BY <1>2 DEF OperatorPayload
  <2> HIDE DEF p
  <2>2. QED
    BY <2>1, LiteralsSimple DEF p
<1>3. CASE rec.type = "Observable"
  <2>1. p = Payload(rec.type, ids, rec.unit, rec.val, DecZero, "")
    BY <1>3 DEF OperatorPayload
  <2> HIDE DEF p
  <2>2. p.type = "Observable" /\ p.val = rec.val /\ p.sound
    BY <1>3, <2>1 DEF Payload
  <2>3. QED
    BY <1>3, <2>2 DEF Simple, PlainPayload, IsConstant, p
<1>4. CASE rec.type = "Payment"
  <2>1. p = Payload(rec.type, ids, rec.unit, rec.val, DecZero, "")
    BY <1>4 DEF OperatorPayload
  <2> HIDE DEF p
  <2>2. Simple(p, env)
    BY <1>4, <2>1, OthersSimple
  <2>3. QED
    BY <2>2 DEF p
<1>5. CASE rec.type = "BooleanConstant"
  <2>1. p = BooleanPayload(rec.val = 1)
    BY <1>5 DEF OperatorPayload
  <2> DEFINE b == rec.val = 1
  <2>2. Simple(BooleanPayload(b), env)
    BY TruthsSimple
  <2>3. QED
    BY <2>1, <2>2
<1>6. CASE rec.type \in {"Zero", "Divide", "Both", "Scale"}
  <2>1. p = kept
    BY <1>6 DEF OperatorPayload
  <2>2. QED
    BY <1>1, <1>6, <2>1
<1>7. CASE rec.type = "Negate"
  <2> DEFINE q == NumberPayload(rec.unit, ExactNeg(kids[1].num))
  <2>1. p = IF AllLiterals(kids) THEN q ELSE kept
    BY <1>7 DEF OperatorPayload
  <2>2. Simple(q, env)
    BY LiteralsSimple
  <2> HIDE DEF q, kept
  <2>3. QED
    BY <1>1, <1>7, <2>1, <2>2
<1>8. CASE rec.type = "Subtract"
  <2> DEFINE q == Fold(rec, ExactSub(kids[1].num, kids[2].num), kept)
  <2>1. p = IF AllLiterals(kids) THEN q ELSE kept
    BY <1>8 DEF OperatorPayload
  <2>2. Simple(q, env)
    BY <1>1, <1>8, FoldsSimple
  <2> HIDE DEF q, kept
  <2>3. QED
    BY <1>1, <1>8, <2>1, <2>2
<1>9. CASE rec.type = "Multiply"
  <2> DEFINE q == Fold(rec, ExactMul(kids[1].num, kids[2].num), product)
  <2>1. p = IF AllLiterals(kids) THEN q ELSE product
    BY <1>9 DEF OperatorPayload
  <2>2. Simple(q, env)
    BY <1>1, <1>9, FoldsSimple
  <2> HIDE DEF q, product
  <2>3. QED
    BY <1>1, <1>9, <2>1, <2>2
<1>10. CASE rec.type \in {"ConditionalValue", "ConditionalContract"}
  <2>1. p = kept \/ p = kids[2] \/ p = kids[3]
    BY <1>10 DEF OperatorPayload
  <2> HIDE DEF kept
  <2>2. QED
    BY <1>1, <1>10, <2>1
<1>11. CASE rec.type = "Comparison"
  <2> DEFINE b == CompareBy(rec.op, kids[1].num, kids[2].num)
             q == Payload(rec.type, ids, "none", 0, DecZero, rec.op)
  <2>1. p = IF AllLiterals(kids) THEN BooleanPayload(b) ELSE q
    BY <1>11 DEF OperatorPayload
  <2>2. Simple(q, env)
    BY <1>11, OthersSimple
  <2>3. Simple(BooleanPayload(b), env)
    BY TruthsSimple
  <2> HIDE DEF q, b
  <2>4. QED
    BY <2>1, <2>2, <2>3
<1>12. CASE rec.type = "Not"
  <2> DEFINE b == kids[1].val = 0
  <2>1. p = IF IsConstant(kids[1]) THEN BooleanPayload(b) ELSE kept
    BY <1>12 DEF OperatorPayload
  <2>2. Simple(BooleanPayload(b), env)
    BY TruthsSimple
  <2> HIDE DEF b, kept
  <2>3. QED
    BY <1>1, <1>12, <2>1, <2>2
<1>13. QED
  BY <1>2, <1>3, <1>4, <1>5, <1>6, <1>7, <1>8, <1>9, <1>10, <1>11, <1>12
     DEF SupportedTypes, ScalarTypes, BooleanTypes, ContractTypes, MergedTypes, CollectionTypes

LEMMA CollectionSimple ==
  ASSUME NEW env, NEW rec, rec.type \in MergedTypes, NEW ids, NEW kids
  PROVE  Simple(CollectionPayload(rec, ids, kids), env)
<1> DEFINE kept == Payload(rec.type, ids, "none", 0, DecZero, "")
           p == CollectionPayload(rec, ids, kids)
<1>1. rec.type \notin {"BooleanConstant", "Observable"}
  BY DEF MergedTypes, CollectionTypes
<1>2. Simple(kept, env)
  BY <1>1, OthersSimple
<1>3. CASE rec.type = "Add"
  <2> DEFINE q == Fold(rec, SumOf(kids), kept)
  <2>1. p = IF AllLiterals(kids) THEN q ELSE kept
    BY <1>3 DEF CollectionPayload
  <2>2. Simple(q, env)
    BY <1>2, FoldsSimple
  <2> HIDE DEF q, kept
  <2>3. QED
    BY <1>2, <2>1, <2>2
<1>4. CASE rec.type \in {"Maximum", "Minimum"}
  <2> DEFINE q == NumberPayload(rec.unit,
                    ExtremeOf(IF rec.type = "Maximum" THEN 1 ELSE -1, kids))
  <2>1. p = IF AllLiterals(kids) THEN q ELSE kept
    BY <1>4 DEF CollectionPayload
  <2>2. Simple(q, env)
    BY LiteralsSimple
  <2> HIDE DEF q, kept
  <2>3. QED
    BY <1>2, <2>1, <2>2
<1>5. CASE rec.type \in {"AllOf", "AnyOf"}
  <2>1. p = kept \/ \E b \in BOOLEAN : p = BooleanPayload(b)
    BY <1>5 DEF CollectionPayload
  <2>2. \A b \in BOOLEAN : Simple(BooleanPayload(b), env)
    BY TruthsSimple
  <2> HIDE DEF kept
  <2>3. QED
    BY <1>2, <2>1, <2>2
<1>6. QED
  BY <1>3, <1>4, <1>5 DEF MergedTypes, CollectionTypes

LEMMA PayloadSimple ==
  ASSUME NEW env, NEW table, NEW ids \in Seq(DOMAIN table), NEW rec, SourceOK(rec, ids),
         rec.type = "Observable" => env[rec.val] \in Int,
         \A i \in 1..Len(ids) : Simple(table[ids[i]], env)
  PROVE  Simple(PayloadOf(rec, ids, table), env)
<1> DEFINE kids == PayloadsOf(ids, table)
<1>1. rec.type \in SupportedTypes
  BY DEF SourceOK
<1>2. CASE rec.type \in MergedTypes
  <2> DEFINE operands == SortedIds(Flattened(rec.type, ids, kids))
  <2>1. PayloadOf(rec, ids, table)
          = CollectionPayload(rec, operands, PayloadsOf(operands, table))
    BY <1>2 DEF PayloadOf
  <2>2. QED
    BY <1>2, <2>1, CollectionSimple
<1>3. CASE rec.type \notin MergedTypes
  <2>1. PayloadOf(rec, ids, table) = OperatorPayload(rec, ids, kids)
    BY <1>3 DEF PayloadOf
  <2>2. rec.type \in {"ConditionalValue", "ConditionalContract"} =>
          Simple(kids[2], env) /\ Simple(kids[3], env)
    <3>1. SUFFICES ASSUME rec.type \in {"ConditionalValue", "ConditionalContract"}
                   PROVE  Simple(kids[2], env) /\ Simple(kids[3], env)
      OBVIOUS
    <3>2. rec.type \in DOMAIN Arity /\ Arity[rec.type] = 3
      BY <3>1 DEF Arity
    <3>3. Len(ids) = 3
      BY <3>2 DEF SourceOK
    <3>4. kids[2] = table[ids[2]] /\ kids[3] = table[ids[3]]
      BY <3>3 DEF PayloadsOf
    <3>5. 2 \in 1..Len(ids) /\ 3 \in 1..Len(ids)
      BY <3>3
    <3>6. QED
      BY <3>4, <3>5
  <2> HIDE DEF kids
  <2>3. QED
    BY <1>1, <1>3, <2>1, <2>2, OperatorSimple
<1>4. QED
  BY <1>2, <1>3

\* What is known of an accepted object of a graph.
LEMMA ObjectAccepted ==
  ASSUME NEW g \in Graphs, NEW n \in Node, NodeAccepted(g, n)
  PROVE  AcceptedRecord(g, n) /\ PlainSource(g[n])
<1>1. WellTyped(g[n]) /\ IsIterable(g[n])
  BY CanonicalAssumption DEF NodeAccepted
<1>2. AcceptedRecord(g, n)
  BY <1>1 DEF AcceptedRecord, WellTyped
<1>3. g[n].type = "Comparison" /\ g[n].sound => g[n].op \in {"<", "<=", "==", "!=", ">=", ">"}
  BY OperatorsAssumption
<1>4. PlainSource(g[n])
  BY <1>1, <1>3 DEF PlainSource, WellTyped
<1>5. QED
  BY <1>2, <1>4

\* E gives the objects of R their meanings.
ObjectsMean(g, env, R, E) ==
  \A n \in R : /\ E[n] = MeaningOf(g[n], ValuesAt(E, g[n].kids), env)
               /\ Meaningful(g[n], E[n])

\* Every object that an accepted contract reaches has a meaning.
LEMMA ContractDenotes ==
  ASSUME NEW g \in Graphs, NEW r \in Node, NEW d \in Nat, FitsDepth(g, r, d),
         \A n \in Reach(g, r) : NodeAccepted(g, n), NEW env
  PROVE  ObjectsMean(g, env, Reach(g, r), DenoteOn(g, env, Reach(g, r)))
<1> DEFINE R == Reach(g, r)
<1>1. R \subseteq Node /\ \A n \in R : ChildSet(g, n) \subseteq R
  BY ReachFacts
<1>2. PICK L \in [R -> 1..d] : IncreasingLabels(g, R, L)
  BY DEF FitsDepth
<1>3. \A n \in R : AcceptedRecord(g, n)
  BY <1>1, ObjectAccepted
<1> HIDE DEF R
<1>4. ASSUME NEW n \in R, NEW i \in 1..Len(g[n].kids)
      PROVE  g[n].kids[i] \in R /\ L[n] < L[g[n].kids[i]]
  <2> DEFINE k == g[n].kids[i]
  <2>1. k \in ChildSet(g, n)
    BY <1>3 DEF AcceptedRecord, NodeAccepted, ChildSet, Seq2Set
  <2> HIDE DEF k
  <2>2. k \in R /\ L[k] > L[n]
    BY <1>1, <1>2, <2>1 DEF IncreasingLabels
  <2>3. L[k] \in Int /\ L[n] \in Int
    BY <1>2, <2>2
  <2>4. QED
    BY <2>2, <2>3 DEF k
<1>5. Closed(g, R) /\ Increasing(g, R, L)
  BY <1>4 DEF Closed, Increasing
<1> DEFINE E == DenoteOn(g, env, R)
<1>6. \A n \in R : E[n] = Evaluate(g, env, E, n)
  BY <1>5, DenoteFixed
<1>7. \A n \in R : MeaningfulAt(g, env, R, n)
  BY <1>3, <1>5, GraphMeans
<1>8. \A n \in R : Meaningful(g[n], E[n])
  BY <1>7 DEF MeaningfulAt, Meaningful
<1> HIDE DEF E
<1>9. \A n \in R : E[n] = MeaningOf(g[n], ValuesAt(E, g[n].kids), env)
  BY <1>6 DEF Evaluate, ValuesAt
<1>10. ObjectsMean(g, env, R, E)
  BY <1>8, <1>9 DEF ObjectsMean
<1>11. QED
  BY <1>10 DEF E, R

-----------------------------------------------------------------------------
(* Pruning leaves meanings alone.                                          *)

\* A part that is closed under references means on its own what it means in the
\* table.
LEMMA PrunedMeaning ==
  ASSUME NEW table, IsAcyclic(table), NEW R \in SUBSET DOMAIN table,
         \A id \in R : Seq2Set(table[id].kids) \subseteq R,
         NEW env, NEW D, Means(table, DOMAIN table, env, D),
         NEW nodes, nodes = [id \in R |-> table[id]]
  PROVE  \A id \in R : DocumentMeaning(nodes, env)[id] = D[id]
<1> DEFINE G == DocumentMeaning(nodes, env)
           S == {id \in R : G[id] # D[id]}
<1>1. DOMAIN nodes = R /\ \A id \in R : nodes[id] = table[id]
  OBVIOUS
<1>2. Means(nodes, DOMAIN nodes, env, D)
  BY <1>1 DEF Means
<1>3. Means(nodes, R, env, G)
  <2>1. \A id \in DOMAIN nodes : Seq2Set(nodes[id].kids) \subseteq DOMAIN nodes
    BY <1>1
  <2>2. Means(nodes, DOMAIN nodes, env, DocumentMeaning(nodes, env))
    BY <1>2, <2>1, MeaningChosen
  <2>3. QED
    BY <1>1, <2>2
<1> HIDE DEF G
<1>4. ASSUME S # {} PROVE FALSE
  <2>1. PICK id \in S : Seq2Set(table[id].kids) \cap S = {}
    BY <1>4 DEF IsAcyclic
  <2>2. id \in R /\ G[id] # D[id]
    BY <2>1
  <2> DEFINE K == Seq2Set(table[id].kids)
  <2>3. AgreeOn(K, G, D)
    BY <2>1, <2>2 DEF AgreeOn
  <2> DEFINE p == table[id]
  <2>4. MeaningAt(p, G, env) = MeaningAt(p, D, env)
    BY <2>3, MeaningAtSame
  <2>5. G[id] = MeaningAt(p, G, env)
    BY <1>1, <1>3, <2>2 DEF Means
  <2>6. D[id] = MeaningAt(p, D, env)
    BY <2>2 DEF Means
  <2>7. QED
    BY <2>2, <2>4, <2>5, <2>6
<1>5. QED
  BY <1>4 DEF G

-----------------------------------------------------------------------------
(* What is finished means what it is made of, before all is finished.      *)

\* What is known while objects are finished and once all are.
Finished ==
  /\ IInv /\ TableInv /\ KindInv /\ PromiseInv /\ ArgumentsInv
  /\ pc \in {"walk", "prune"}

\* The finished objects are those of the contract, and the table is theirs.
LEMMA FinishedFacts ==
  ASSUME Finished
  PROVE  /\ graph \in Graphs /\ root \in Reached /\ Reached \subseteq Node
         /\ DOMAIN memo \subseteq Reached
         /\ pc = "prune" => DOMAIN memo = Reached
         /\ \A n \in Reached : NodeAccepted(graph, n)
         /\ \A n \in DOMAIN memo :
              memo[n] \in DOMAIN canonNodes /\ ChildSet(graph, n) \subseteq DOMAIN memo
         /\ \A id \in DOMAIN canonNodes : \E n \in DOMAIN memo : memo[n] = id
         /\ Grounded(KidsBelow, Reached)
<1>1. IInv /\ TableInv /\ PromiseInv /\ pc \in {"walk", "prune"} /\ config \in Configs
  BY DEF Finished, ArgumentsInv
<1>2. /\ DOMAIN memo \subseteq Reached /\ Reached \subseteq Node
      /\ graph \in Graphs /\ root \in Reached
  BY <1>1, ReachFacts DEF IInv, MemoInv, Reached
<1>3. pc = "prune" => DOMAIN memo = Reached
  BY <1>1, <1>2 DEF IInv
<1>4. Acceptable(graph, root, config.validation)
  BY <1>1 DEF PromiseInv
<1>5. \A n \in Reached : NodeAccepted(graph, n)
  BY <1>4 DEF Acceptable, Reached
<1>6. Grounded(KidsBelow, Reached)
  BY <1>1, <1>4, GraphGrounded DEF Reached
<1>7. \A n \in DOMAIN memo :
         memo[n] \in DOMAIN canonNodes /\ ChildSet(graph, n) \subseteq DOMAIN memo
  BY <1>1 DEF TableInv, Accounted, IInv, MemoInv
<1>8. \A id \in DOMAIN canonNodes : \E n \in DOMAIN memo : memo[n] = id
  BY <1>1 DEF PromiseInv
<1>9. QED
  BY <1>2, <1>3, <1>5, <1>6, <1>7, <1>8

\* The operands that an object is given once its children are finished.
OperandIds(n) == MemoIds(memo, graph[n].kids)

LEMMA FinishedChildren ==
  ASSUME Finished, NEW n \in Reached, ChildSet(graph, n) \subseteq DOMAIN memo
  PROVE  /\ OperandIds(n) \in Seq(DOMAIN canonNodes) /\ SourceOK(graph[n], OperandIds(n))
         /\ KidsBelow[n] = graph[n].kids
         /\ Len(OperandIds(n)) = Len(graph[n].kids) /\ Len(graph[n].kids) \in Nat
         /\ \A i \in 1..Len(graph[n].kids) :
              /\ OperandIds(n)[i] = memo[graph[n].kids[i]]
              /\ graph[n].kids[i] \in DOMAIN memo
              /\ graph[n].kids[i] \in Seq2Set(KidsBelow[n])
<1> DEFINE kids == graph[n].kids
           ids == OperandIds(n)
<1>1. /\ graph \in Graphs /\ n \in Node /\ NodeAccepted(graph, n)
      /\ \A k \in DOMAIN memo : memo[k] \in DOMAIN canonNodes
  BY FinishedFacts
<1>2. ids \in Seq(DOMAIN canonNodes) /\ SourceOK(graph[n], ids)
  BY <1>1, SourceFacts DEF OperandIds
<1>3. KidsBelow[n] = kids
  BY DEF KidsBelow, Reached
<1>4. kids \in Seq(Node) /\ Len(kids) \in Nat /\ ChildSet(graph, n) = Seq2Set(kids)
  BY <1>1, KidsFacts
<1>5. \A i \in 1..Len(kids) : kids[i] \in Seq2Set(kids)
  BY DEF Seq2Set
<1> HIDE DEF kids
<1>6. ids = [i \in 1..Len(kids) |-> memo[kids[i]]]
  BY DEF OperandIds, MemoIds, kids
<1> HIDE DEF ids
<1>7. Len(ids) = Len(kids) /\ \A i \in 1..Len(kids) : ids[i] = memo[kids[i]]
  BY <1>2, <1>4, <1>6, LenProperties
<1>8. \A i \in 1..Len(kids) : kids[i] \in DOMAIN memo /\ kids[i] \in Seq2Set(KidsBelow[n])
  BY <1>3, <1>4, <1>5
<1>9. QED
  BY <1>2, <1>3, <1>4, <1>7, <1>8 DEF kids, ids

LEMMA FinishedObject ==
  ASSUME Finished, NEW n \in DOMAIN memo
  PROVE  /\ n \in Reached /\ ChildSet(graph, n) \subseteq DOMAIN memo
         /\ memo[n] \in DOMAIN canonNodes
         /\ canonNodes[memo[n]] = PayloadOf(graph[n], OperandIds(n), canonNodes)
BY FinishedFacts DEF Finished, TableInv, Accounted, OperandIds

\* Every payload of the table is simple: children first.
LEMMA FinishedSimple ==
  ASSUME Finished, NEW env \in Environments
  PROVE  \A id \in DOMAIN canonNodes : Simple(canonNodes[id], env)
<1> DEFINE S == {n \in DOMAIN memo : ~Simple(canonNodes[memo[n]], env)}
<1>1. ASSUME S # {} PROVE FALSE
  <2>1. PICK n \in S : Seq2Set(KidsBelow[n]) \cap S = {}
    <3>1. S \subseteq Reached
      BY FinishedFacts
    <3>2. QED
      BY <1>1, <3>1, FinishedFacts DEF Grounded
  <2>2. n \in DOMAIN memo /\ ~Simple(canonNodes[memo[n]], env)
    BY <2>1
  <2> DEFINE ids == OperandIds(n)
             rec == graph[n]
  <2>3. /\ n \in Reached /\ ChildSet(graph, n) \subseteq DOMAIN memo
        /\ canonNodes[memo[n]] = PayloadOf(rec, ids, canonNodes)
    BY <2>2, FinishedObject
  <2>4. /\ ids \in Seq(DOMAIN canonNodes) /\ SourceOK(rec, ids)
        /\ Len(ids) = Len(rec.kids)
        /\ \A i \in 1..Len(rec.kids) : /\ ids[i] = memo[rec.kids[i]]
                                       /\ rec.kids[i] \in DOMAIN memo
                                       /\ rec.kids[i] \in Seq2Set(KidsBelow[n])
    BY <2>3, FinishedChildren
  <2> HIDE DEF ids
  <2>5. \A i \in 1..Len(rec.kids) : rec.kids[i] \notin S
    BY <2>1, <2>4
  <2>6. \A i \in 1..Len(ids) : Simple(canonNodes[ids[i]], env)
    BY <2>4, <2>5
  <2>7. rec.type = "Observable" => env[rec.val] \in Int
    BY <2>3, FinishedFacts, EnvironmentsAssumption
  <2> HIDE DEF rec
  <2>8. Simple(PayloadOf(rec, ids, canonNodes), env)
    BY <2>4, <2>6, <2>7, PayloadSimple
  <2>9. QED
    BY <2>2, <2>3, <2>8
<1>2. \A n \in DOMAIN memo : Simple(canonNodes[memo[n]], env)
  BY <1>1
<1>3. \A id \in DOMAIN canonNodes : \E n \in DOMAIN memo : memo[n] = id
  BY FinishedFacts
<1>4. QED
  BY <1>2, <1>3

\* The table is a document that has a meaning.
LEMMA TableEvaluable ==
  ASSUME Finished, NEW env \in Environments
  PROVE  EvaluableDocument(canonNodes, env)
<1>1. TableInv /\ KindInv
  BY DEF Finished
<1>2. TableIn(canonNodes) /\ DOMAIN canonNodes \in SUBSET Nat
  BY <1>1 DEF TableInv, TableIn
<1>3. IsFiniteSet(DOMAIN canonNodes) /\ IsAcyclic(canonNodes)
  BY <1>1 DEF KindInv
<1>4. PICK units : TableTyped(canonNodes, units)
  BY <1>1 DEF KindInv
<1>5. ASSUME NEW id \in DOMAIN canonNodes
      PROVE  /\ Evaluable(canonNodes[id], DOMAIN canonNodes, env)
             /\ Seq2Set(canonNodes[id].kids) \subseteq DOMAIN canonNodes
  <2> DEFINE p == canonNodes[id]
  <2>1. PayloadIn(p, canonNodes)
    BY <1>2 DEF TableIn
  <2>2. TypedIn(p, canonNodes, units)
    BY <1>4 DEF TableTyped
  <2>3. Simple(p, env)
    BY FinishedSimple
  <2> HIDE DEF p
  <2>4. p.kids \in Seq(DOMAIN canonNodes)
    BY <2>1 DEF PayloadIn
  <2>5. p.type \in DOMAIN Arity => Len(p.kids) = Arity[p.type]
    <3>1. Len(PayloadsOf(p.kids, canonNodes)) = Len(p.kids)
      BY <2>4, PayloadsFacts
    <3>2. OperandsFit(p, PayloadsOf(p.kids, canonNodes))
      BY <2>2 DEF TypedIn
    <3>3. QED
      BY <3>1, <3>2 DEF OperandsFit
  <2>6. Evaluable(p, DOMAIN canonNodes, env)
    BY <2>1, <2>3, <2>4, <2>5 DEF Evaluable, PayloadIn, Simple
  <2>7. Seq2Set(p.kids) \subseteq DOMAIN canonNodes
    BY <2>4, ElementOfSeq DEF Seq2Set
  <2>8. QED
    BY <2>6, <2>7 DEF p
<1>6. QED
  BY <1>2, <1>3, <1>5 DEF EvaluableDocument

LEMMA TableMeans ==
  ASSUME Finished, NEW env \in Environments
  PROVE  \E D : MeaningTable(canonNodes, env, D)
<1> DEFINE table == canonNodes
<1>1. EvaluableDocument(table, env)
  BY TableEvaluable
<1>2. TableIn(table)
  BY DEF Finished, TableInv
<1>3. \A id \in DOMAIN table : PlainPayload(table[id])
  BY FinishedSimple DEF Simple
<1> HIDE DEF table
<1>4. /\ IsAcyclic(table) /\ IsFiniteSet(DOMAIN table)
      /\ \A id \in DOMAIN table : Seq2Set(table[id].kids) \subseteq DOMAIN table
  BY <1>1 DEF EvaluableDocument
<1>5. PICK D : Means(table, DOMAIN table, env, D)
  BY <1>4, MeaningsExist
<1>6. NormalOn(DOMAIN table, D)
  BY <1>1, <1>5, MeaningsAreNormal
<1>7. MeaningTable(table, env, D)
  BY <1>2, <1>3, <1>5, <1>6 DEF MeaningTable
<1>8. QED
  BY <1>7 DEF table

\* What the objects of the contract mean.
Denotations(env) == DenoteOn(graph, env, Reached)

LEMMA ObjectsDenote ==
  ASSUME Finished, NEW env \in Environments
  PROVE  ObjectsMean(graph, env, Reached, Denotations(env))
<1> DEFINE d == config.validation.depth
<1>1. /\ Acceptable(graph, root, config.validation)
      /\ config \in Configs /\ graph \in Graphs /\ root \in Node
  BY DEF Finished, PromiseInv, ArgumentsInv, IInv
<1>2. d \in Nat /\ FitsDepth(graph, root, d)
  BY <1>1, CanonicalAssumption DEF Acceptable
<1>3. \A n \in Reach(graph, root) : NodeAccepted(graph, n)
  BY <1>1 DEF Acceptable
<1> HIDE DEF d
<1>4. ObjectsMean(graph, env, Reach(graph, root), DenoteOn(graph, env, Reach(graph, root)))
  BY <1>1, <1>2, <1>3, ContractDenotes
<1>5. QED
  BY <1>4 DEF Reached, Denotations

\* An object whose children are finished and keep their meaning is built from
\* operands that mean what its children mean.
LEMMA ObjectBuilds ==
  ASSUME Finished, NEW env \in Environments,
         NEW D, MeaningTable(canonNodes, env, D),
         NEW n \in Reached, ChildSet(graph, n) \subseteq DOMAIN memo,
         \A i \in 1..Len(graph[n].kids) :
           D[memo[graph[n].kids[i]]] = Denotations(env)[graph[n].kids[i]]
  PROVE  LET ids == OperandIds(n)
             xs == ValuesAt(D, ids)
         IN  /\ BuildsOperator(canonNodes, env, D, ids, PayloadsOf(ids, canonNodes), xs, graph[n])
             /\ Denotations(env)[n] = MeaningOf(graph[n], xs, env)
<1> DEFINE ids == OperandIds(n)
           rec == graph[n]
           kids == PayloadsOf(ids, canonNodes)
           xs == ValuesAt(D, ids)
           E == Denotations(env)
<1>1. ObjectsMean(graph, env, Reached, E)
  BY ObjectsDenote
<1> HIDE DEF E
<1>2. /\ ids \in Seq(DOMAIN canonNodes) /\ SourceOK(rec, ids)
      /\ Len(ids) = Len(rec.kids) /\ Len(rec.kids) \in Nat
      /\ \A i \in 1..Len(rec.kids) : ids[i] = memo[rec.kids[i]]
  BY FinishedChildren
<1>3. graph \in Graphs /\ n \in Node /\ NodeAccepted(graph, n)
  BY FinishedFacts
<1> HIDE DEF ids
<1>4. \A i \in 1..Len(rec.kids) : D[ids[i]] = E[rec.kids[i]]
  BY <1>2 DEF E
<1>5. xs = ValuesAt(E, rec.kids)
  <2>1. xs = [i \in 1..Len(rec.kids) |-> D[ids[i]]]
    BY <1>2 DEF ValuesAt
  <2>2. ValuesAt(E, rec.kids) = [i \in 1..Len(rec.kids) |-> E[rec.kids[i]]]
    BY DEF ValuesAt
  <2> HIDE DEF xs, rec
  <2>3. QED
    BY <1>4, <2>1, <2>2
<1>6. E[n] = MeaningOf(rec, xs, env) /\ Meaningful(rec, E[n])
  BY <1>1, <1>5 DEF ObjectsMean
<1>7. PlainSource(rec)
  BY <1>3, ObjectAccepted
<1>8. OperandsAt(canonNodes, env, D, ids, kids, xs)
  BY <1>2 DEF OperandsAt
<1> HIDE DEF rec, xs, kids
<1>9. BuildsOperator(canonNodes, env, D, ids, kids, xs, rec)
  BY <1>2, <1>6, <1>7, <1>8 DEF BuildsOperator
<1>10. QED
  BY <1>6, <1>9 DEF rec, xs, kids, ids, E

\* Every finished object means what its payload means: children first.
LEMMA ObjectsKeepMeaning ==
  ASSUME Finished, NEW env \in Environments,
         NEW D, MeaningTable(canonNodes, env, D)
  PROVE  \A n \in DOMAIN memo : D[memo[n]] = Denotations(env)[n]
<1> DEFINE E == Denotations(env)
           S == {n \in DOMAIN memo : D[memo[n]] # E[n]}
<1>1. ASSUME S # {} PROVE FALSE
  <2>1. PICK n \in S : Seq2Set(KidsBelow[n]) \cap S = {}
    <3>1. S \subseteq Reached
      BY FinishedFacts
    <3>2. QED
      BY <1>1, <3>1, FinishedFacts DEF Grounded
  <2>2. n \in DOMAIN memo /\ D[memo[n]] # E[n]
    BY <2>1
  <2> DEFINE ids == OperandIds(n)
             rec == graph[n]
             kids == PayloadsOf(ids, canonNodes)
             xs == ValuesAt(D, ids)
  <2>3. /\ n \in Reached /\ ChildSet(graph, n) \subseteq DOMAIN memo
        /\ memo[n] \in DOMAIN canonNodes
        /\ canonNodes[memo[n]] = PayloadOf(rec, ids, canonNodes)
    BY <2>2, FinishedObject
  <2>4. \A i \in 1..Len(rec.kids) : /\ rec.kids[i] \in DOMAIN memo
                                    /\ rec.kids[i] \in Seq2Set(KidsBelow[n])
    BY <2>3, FinishedChildren
  <2>5. \A i \in 1..Len(graph[n].kids) : D[memo[graph[n].kids[i]]] = Denotations(env)[graph[n].kids[i]]
    BY <2>1, <2>4
  <2>6. /\ BuildsOperator(canonNodes, env, D, ids, kids, xs, rec)
        /\ Denotations(env)[n] = MeaningOf(rec, xs, env)
    BY <2>3, <2>5, ObjectBuilds
  <2> HIDE DEF rec, xs, kids, ids, E
  <2>7. KeepsMeaning(PayloadOf(rec, ids, canonNodes), D, xs, rec, env)
    BY <2>6, PayloadMeans
  <2>8. D[memo[n]] = MeaningAt(canonNodes[memo[n]], D, env)
    BY <2>3 DEF MeaningTable, Means
  <2>9. QED
    BY <2>2, <2>3, <2>6, <2>7, <2>8 DEF KeepsMeaning, E
<1>2. QED
  BY <1>1 DEF E

\* What is assembled pays what the contract pays.
LEMMA AssembledMeaning ==
  ASSUME Finished, pc = "prune", PruneInv, pruneStack = << >>, NEW env \in Environments
  PROVE  DocumentMeaning(Document.nodes, env)[Document.root] = ContractMeaning(graph, root, env)
<1> DEFINE nodes == [id \in reachable |-> canonNodes[id]]
           r == memo[root]
<1>1. Document.nodes = nodes /\ Document.root = r
  BY DEF Document
<1>2. PICK D : MeaningTable(canonNodes, env, D)
  BY TableMeans
<1>3. /\ IsAcyclic(canonNodes) /\ TableIn(canonNodes)
      /\ Pruning(canonNodes, r, << >>, reachable)
  BY DEF Finished, KindInv, TableInv, PruneInv
<1>4. /\ reachable \in SUBSET DOMAIN canonNodes
      /\ r \in reachable
      /\ \A id \in reachable : Seq2Set(canonNodes[id].kids) \subseteq reachable
  <2>1. Seq2Set(<< >>) = {}
    BY DEF Seq2Set
  <2> HIDE DEF r
  <2>2. QED
    BY <1>3, <2>1 DEF Pruning
<1>5. Means(canonNodes, DOMAIN canonNodes, env, D)
  BY <1>2 DEF MeaningTable
<1>6. \A id \in reachable : DocumentMeaning(nodes, env)[id] = D[id]
  <2> DEFINE table == canonNodes
             R == reachable
  <2>1. /\ IsAcyclic(table) /\ R \in SUBSET DOMAIN table
        /\ \A id \in R : Seq2Set(table[id].kids) \subseteq R
        /\ Means(table, DOMAIN table, env, D) /\ nodes = [id \in R |-> table[id]]
    BY <1>3, <1>4, <1>5
  <2> HIDE DEF table, R, nodes
  <2>2. \A id \in R : DocumentMeaning(nodes, env)[id] = D[id]
    BY <2>1, PrunedMeaning
  <2>3. QED
    BY <2>2 DEF R
<1> HIDE DEF nodes
<1>7. \A n \in DOMAIN memo : D[memo[n]] = DenoteOn(graph, env, Reached)[n]
  BY <1>2, ObjectsKeepMeaning DEF Denotations
<1>8. D[r] = DenoteOn(graph, env, Reached)[root]
  BY <1>7, FinishedFacts
<1>9. ContractMeaning(graph, root, env) = DenoteOn(graph, env, Reached)[root]
  BY DEF ContractMeaning, Reached
<1>10. QED
  BY <1>1, <1>4, <1>6, <1>8, <1>9

LEMMA MeaningNext ==
  /\ IInv /\ TableInv /\ PruneInv /\ KindInv /\ ArgumentsInv /\ PromiseInv
  /\ DocumentKeepsMeaning /\ [Next]_vars
  => DocumentKeepsMeaning'
<1>1. SUFFICES ASSUME IInv, TableInv, PruneInv, KindInv, ArgumentsInv, PromiseInv,
                      DocumentKeepsMeaning, [Next]_vars
               PROVE  DocumentKeepsMeaning'
  OBVIOUS
<1>2. CASE Assemble
  <2>1. /\ pc = "prune" /\ pruneStack = << >> /\ result'.document = Document
        /\ graph' = graph /\ root' = root
    BY <1>2 DEF Assemble, callArgs
  <2>2. Finished
    BY <1>1, <2>1 DEF Finished
  <2>3. \A env \in Environments :
          DocumentMeaning(Document.nodes, env)[Document.root]
            = ContractMeaning(graph, root, env)
    BY <1>1, <2>1, <2>2, AssembledMeaning
  <2>4. \A env \in Environments :
          DocumentMeaning(result'.document.nodes, env)[result'.document.root]
            = ContractMeaning(graph', root', env)
    BY <2>1, <2>3
  <2>5. QED
    BY <2>4 DEF DocumentKeepsMeaning
<1>3. ASSUME result'.kind # "canonical" PROVE DocumentKeepsMeaning'
  BY <1>3 DEF DocumentKeepsMeaning
<1>4. ASSUME result' = result, graph' = graph, root' = root PROVE DocumentKeepsMeaning'
  BY <1>1, <1>4 DEF DocumentKeepsMeaning
<1>5. CASE RejectConfig \/ FoldEscapes \/ DetectCollision \/ AssembleTooComplex
  BY <1>3, <1>5, NoErrorIsCanonical DEF RejectConfig, FoldEscapes, DetectCollision, AssembleTooComplex
<1>6. CASE ValidationFails
  <2>1. PICK kind \in Failures : Raise(Translation(kind))
    BY <1>6 DEF ValidationFails, Verdicts
  <2>2. Translation(kind) # "canonical"
    BY <2>1, Translated DEF CanonicalizationErrors
  <2>3. QED
    BY <1>3, <2>1, <2>2, NoErrorIsCanonical
<1>7. CASE PruneVisit
  <2>1. graph' = graph /\ root' = root
    BY <1>7 DEF PruneVisit, callArgs
  <2>2. result' = result \/ Raise("CanonicalizationError")
    BY <1>7 DEF PruneVisit
  <2>3. QED
    BY <1>3, <1>4, <2>1, <2>2, NoErrorIsCanonical
<1>8. CASE \/ AcceptConfig \/ ValidationPasses \/ SkipMemoized \/ Enter \/ Build
           \/ BeginPrune \/ PruneSeen \/ UNCHANGED vars
  <2>1. result' = result /\ graph' = graph /\ root' = root
    BY <1>8 DEF AcceptConfig, ValidationPasses, SkipMemoized, Enter, Build, Register,
                BeginPrune, PruneSeen, vars, callArgs
  <2>2. QED
    BY <1>4, <2>1
<1>9. QED
  BY <1>1, <1>2, <1>5, <1>6, <1>7, <1>8 DEF Next

\* _build_payload preserves meaning, however often it has merged, folded,
\* sorted and collapsed: for every graph, every limit and every digest function,
\* the document that canonicalize_contract returns pays what the contract pays,
\* whatever values its observables take.
THEOREM DocumentsKeepMeaning == Spec => []DocumentKeepsMeaning
<1>1. Init => DocumentKeepsMeaning
  BY DEF Init, NoResult, DocumentKeepsMeaning
<1>2. QED
  BY <1>1, MeaningNext, InvariantHolds, TableHolds, PruneHolds, KindHolds, ArgumentsHold,
     PromiseHolds, PTL DEF Spec

-----------------------------------------------------------------------------
(* What a fold that str() cannot write is worth.                           *)

\* Every literal of the table is an integer: nothing divides.
WholeTable(table) ==
  \A id \in DOMAIN table : IsLiteral(table[id]) => table[id].num.exp >= 0

\* The number that rec is folded into, provided that it can be written.
FoldsTo(rec, ids, table, num) ==
  LET kids == PayloadsOf(ids, table)
      operands == PayloadsOf(SortedIds(Flattened(rec.type, ids, kids)), table)
  IN  \/ rec.type = "Add" /\ AllLiterals(operands) /\ num = SumOf(operands)
      \/ /\ rec.type = "Subtract" /\ AllLiterals(kids)
         /\ num = ExactSub(kids[1].num, kids[2].num)
      \/ /\ rec.type = "Multiply" /\ AllLiterals(kids)
         /\ num = ExactMul(kids[1].num, kids[2].num)

LEMMA WholeOperands ==
  ASSUME NEW table, TableIn(table), WholeTable(table),
         NEW ids \in Seq(DOMAIN table), AllLiterals(PayloadsOf(ids, table))
  PROVE  IntegerLiterals(PayloadsOf(ids, table))
<1> DEFINE kids == PayloadsOf(ids, table)
<1>1. /\ Len(ids) \in Nat /\ Len(kids) = Len(ids)
      /\ \A i \in 1..Len(ids) : ids[i] \in DOMAIN table /\ kids[i] = table[ids[i]]
  BY PayloadsFacts
<1> HIDE DEF kids
<1>2. ASSUME NEW i \in 1..Len(kids) PROVE kids[i].num \in Decimals /\ kids[i].num.exp >= 0
  <2>1. IsLiteral(kids[i])
    BY DEF AllLiterals, kids
  <2>2. QED
    BY <1>1, <2>1 DEF TableIn, PayloadIn, WholeTable
<1>3. IntegerLiterals(kids)
  BY <1>1, <1>2 DEF IntegerLiterals
<1>4. QED
  BY <1>3 DEF kids

\* Sums, differences and products of integers are integers.
LEMMA WholeFold ==
  ASSUME NEW table, TableIn(table), WholeTable(table),
         NEW ids \in Seq(DOMAIN table), NEW rec, SourceOK(rec, ids),
         NEW num, FoldsTo(rec, ids, table, num)
  PROVE  num \in Decimals /\ num.exp >= 0
<1> DEFINE kids == PayloadsOf(ids, table)
           sorted == SortedIds(Flattened(rec.type, ids, kids))
           operands == PayloadsOf(sorted, table)
<1>1. CASE rec.type = "Add" /\ AllLiterals(operands) /\ num = SumOf(operands)
  <2>1. sorted \in Seq(DOMAIN table)
    BY <1>1, PayloadBuilt DEF MergedTypes, CollectionTypes
  <2> HIDE DEF sorted
  <2>2. IntegerLiterals(operands)
    BY <1>1, <2>1, WholeOperands
  <2>3. QED
    BY <1>1, <2>2, SumOfIntegers
<1>2. CASE rec.type \in {"Subtract", "Multiply"} /\ AllLiterals(kids)
  <2>1. IntegerLiterals(kids)
    BY <1>2, WholeOperands
  <2>2. Len(kids) = 2
    <3>1. Len(ids) = 2
      <4>1. CASE rec.type = "Subtract"
        BY <4>1 DEF SourceOK, Arity
      <4>2. CASE rec.type = "Multiply"
        BY <4>2 DEF SourceOK, Arity
      <4>3. QED
        BY <1>2, <4>1, <4>2
    <3>2. QED
      BY <3>1, PayloadsFacts
  <2> DEFINE a == kids[1].num
             b == kids[2].num
  <2>3. a \in Decimals /\ b \in Decimals /\ a.exp >= 0 /\ b.exp >= 0
    BY <2>1, <2>2 DEF IntegerLiterals
  <2> HIDE DEF a, b
  <2>4. a.exp \in Int /\ b.exp \in Int
    BY <2>3 DEF Decimals
  <2>5. ExactSub(a, b) \in Decimals /\ ExactSub(a, b).exp >= 0
    BY <2>3, <2>4, SubFacts
  <2>6. ExactMul(a, b) \in Decimals /\ ExactMul(a, b).exp >= 0
    BY <2>3, <2>4, MulFacts
  <2>7. num = ExactSub(a, b) \/ num = ExactMul(a, b)
    BY <1>2 DEF FoldsTo, a, b
  <2>8. QED
    BY <2>5, <2>6, <2>7
<1>3. QED
  BY <1>1, <1>2 DEF FoldsTo

LEMMA WholeLiteral ==
  ASSUME NEW u, NEW a \in Decimals, a.exp >= 0
  PROVE  NumberPayload(u, a).num.exp >= 0
<1>1. NumberPayload(u, a).num = Canonical(a)
  BY DEF NumberPayload, Payload
<1>2. CASE a.coeff = 0
  BY <1>1, <1>2, ZeroFacts DEF Canonical
<1>3. CASE a.coeff # 0
  <2>1. a.exp <= Canonical(a).exp /\ Canonical(a) \in Decimals
    BY <1>3, CanonicalFacts
  <2>2. a.exp \in Int /\ Canonical(a).exp \in Int
    BY <2>1 DEF Decimals
  <2>3. QED
    BY <1>1, <2>1, <2>2
<1>4. QED
  BY <1>2, <1>3

\* What _build_payload makes of an object is an integer if it is a literal.
LEMMA WholeCollection ==
  ASSUME NEW table, TableIn(table), WholeTable(table), NEW rec, rec.type \in MergedTypes,
         NEW ids \in Seq(DOMAIN table), ids # << >>,
         NEW p, p = CollectionPayload(rec, ids, PayloadsOf(ids, table)), IsLiteral(p)
  PROVE  p.num.exp >= 0
<1> DEFINE kids == PayloadsOf(ids, table)
           kept == Payload(rec.type, ids, "none", 0, DecZero, "")
           I == 1..Len(kids)
<1>1. ~IsLiteral(kept)
  BY DEF Payload, IsLiteral, MergedTypes, CollectionTypes
<1>2. Len(kids) \in Nat \ {0}
  BY PayloadsFacts, EmptySeq
<1>3. CASE rec.type = "Add"
  <2>1. AllLiterals(kids) /\ p = NumberPayload(rec.unit, SumOf(kids))
    <3> HIDE DEF kids
    <3>1. p = IF AllLiterals(kids) THEN Fold(rec, SumOf(kids), kept) ELSE kept
      BY <1>3 DEF CollectionPayload, kids
    <3> HIDE DEF kept
    <3>2. QED
      BY <1>1, <3>1 DEF Fold
  <2>2. IntegerLiterals(kids)
    BY <2>1, WholeOperands
  <2>3. SumOf(kids) \in Decimals /\ SumOf(kids).exp >= 0
    BY <2>2, SumOfIntegers
  <2> HIDE DEF kids
  <2>4. QED
    BY <2>1, <2>3, WholeLiteral
<1>4. CASE rec.type \in {"Maximum", "Minimum"}
  <2> DEFINE side == IF rec.type = "Maximum" THEN 1 ELSE -1
             x == ExtremeOf(side, kids)
  <2>1. AllLiterals(kids) /\ p = NumberPayload(rec.unit, x)
    <3> HIDE DEF kids
    <3>1. p = IF AllLiterals(kids) THEN NumberPayload(rec.unit, x) ELSE kept
      BY <1>4 DEF CollectionPayload, kids
    <3> HIDE DEF kept, x
    <3>2. QED
      BY <1>1, <3>1
  <2>2. IntegerLiterals(kids)
    BY <2>1, WholeOperands
  <2> HIDE DEF kids, side
  <2>3. PICK i \in 1..Len(kids) : x = kids[i].num
    BY <1>2, ExtremeIsOne
  <2>4. x \in Decimals /\ x.exp >= 0
    BY <2>2, <2>3 DEF IntegerLiterals
  <2> HIDE DEF x
  <2>5. QED
    BY <2>1, <2>4, WholeLiteral
<1>5. CASE rec.type \in {"AllOf", "AnyOf"}
  <2>1. \A b : ~IsLiteral(BooleanPayload(b))
    BY DEF BooleanPayload, Payload, IsLiteral
  <2> DEFINE all == \A i \in I : kids[i].val = 1
             any == \E i \in I : kids[i].val = 1
  <2>2. p = BooleanPayload(all) \/ p = BooleanPayload(any) \/ p = kept
    BY <1>5 DEF CollectionPayload
  <2> HIDE DEF all, any, kept
  <2>3. QED
    BY <1>1, <2>1, <2>2
<1>6. QED
  BY <1>3, <1>4, <1>5 DEF MergedTypes, CollectionTypes

LEMMA WholeOperator ==
  ASSUME NEW table, TableIn(table), WholeTable(table), NEW rec, rec.type \notin MergedTypes,
         NEW ids \in Seq(DOMAIN table), SourceOK(rec, ids),
         NEW p, p = OperatorPayload(rec, ids, PayloadsOf(ids, table)), IsLiteral(p)
  PROVE  p.num.exp >= 0
<1> DEFINE kids == PayloadsOf(ids, table)
           kept == Payload(rec.type, ids, "none", 0, DecZero, "")
           product == Payload(rec.type, Factors(ids), "none", 0, DecZero, "")
<1>1. rec.type # "Number" => ~IsLiteral(kept) /\ ~IsLiteral(product)
  BY DEF Payload, IsLiteral
<1>2. /\ Len(kids) = Len(ids) /\ Len(ids) \in Nat
      /\ \A i \in 1..Len(ids) : ids[i] \in DOMAIN table /\ kids[i] = table[ids[i]]
  BY PayloadsFacts
<1>3. rec.type \in SupportedTypes
  BY DEF SourceOK
<1>4. CASE rec.type = "Number"
  <2>1. p = NumberPayload(rec.unit, IntegerDec(rec.val))
    BY <1>4 DEF OperatorPayload
  <2>2. IntegerDec(rec.val) \in Decimals /\ IntegerDec(rec.val).exp >= 0
    BY <1>4 DEF SourceOK, IntegerDec, Dec
  <2>3. QED
    BY <2>1, <2>2, WholeLiteral
<1>5. CASE rec.type = "Negate"
  <2> DEFINE a == kids[1].num
  <2>1. AllLiterals(kids) /\ p = NumberPayload(rec.unit, ExactNeg(a))
    <3> HIDE DEF kids
    <3>1. p = IF AllLiterals(kids) THEN NumberPayload(rec.unit, ExactNeg(a)) ELSE kept
      BY <1>5 DEF OperatorPayload, kids
    <3> HIDE DEF kept
    <3>2. QED
      BY <1>1, <1>5, <3>1
  <2>2. IntegerLiterals(kids)
    BY <2>1, WholeOperands
  <2>3. Len(kids) = 1
    BY <1>2, <1>5 DEF SourceOK, Arity
  <2> HIDE DEF kids
  <2>4. a \in Decimals /\ a.exp >= 0
    BY <2>2, <2>3 DEF IntegerLiterals
  <2> HIDE DEF a
  <2>5. ExactNeg(a) \in Decimals /\ ExactNeg(a).exp >= 0
    <3>1. CASE a.coeff = 0
      BY <2>4, <3>1, NegFacts, ZeroFacts
    <3>2. CASE a.coeff # 0
      BY <2>4, <3>2, NegFacts
    <3>3. QED
      BY <3>1, <3>2
  <2>6. QED
    BY <2>1, <2>5, WholeLiteral
<1>6. CASE rec.type \in {"Subtract", "Multiply"}
  <2> DEFINE num == IF rec.type = "Subtract" THEN ExactSub(kids[1].num, kids[2].num)
                    ELSE ExactMul(kids[1].num, kids[2].num)
  <2>1. AllLiterals(kids) /\ p = NumberPayload(rec.unit, num)
    <3> HIDE DEF kids
    <3>1. \/ AllLiterals(kids) /\ p = Fold(rec, num, kept)
          \/ AllLiterals(kids) /\ p = Fold(rec, num, product)
          \/ p \in {kept, product}
      BY <1>6 DEF OperatorPayload, kids
    <3> HIDE DEF kept, product, num
    <3>2. QED
      BY <1>1, <1>6, <3>1 DEF Fold
  <2>2. FoldsTo(rec, ids, table, num)
    BY <1>6, <2>1 DEF FoldsTo
  <2> HIDE DEF num
  <2>3. num \in Decimals /\ num.exp >= 0
    BY <2>2, WholeFold
  <2> HIDE DEF kids
  <2>4. QED
    BY <2>1, <2>3, WholeLiteral
<1>7. CASE rec.type \in {"ConditionalValue", "ConditionalContract"}
  <2>1. Len(ids) = 3
    <3>1. CASE rec.type = "ConditionalValue"
      BY <3>1 DEF SourceOK, Arity
    <3>2. CASE rec.type = "ConditionalContract"
      BY <3>2 DEF SourceOK, Arity
    <3>3. QED
      BY <1>7, <3>1, <3>2
  <2>2. p = kept \/ p = kids[2] \/ p = kids[3]
    BY <1>7 DEF OperatorPayload
  <2> HIDE DEF kids, kept
  <2>3. p # kept
    BY <1>1, <1>7
  <2>4. kids[2] = table[ids[2]] /\ kids[3] = table[ids[3]]
    BY <1>2, <2>1
  <2>5. p = table[ids[2]] \/ p = table[ids[3]]
    BY <2>2, <2>3, <2>4
  <2>6. QED
    BY <1>2, <2>1, <2>5 DEF WholeTable
<1>8. CASE rec.type \in {"Comparison", "Not", "BooleanConstant"}
  <2>1. \A b : ~IsLiteral(BooleanPayload(b))
    BY DEF BooleanPayload, Payload, IsLiteral
  <2>2. ~IsLiteral(Payload(rec.type, ids, "none", 0, DecZero, rec.op))
    BY <1>8 DEF Payload, IsLiteral
  <2> DEFINE compared == CompareBy(rec.op, kids[1].num, kids[2].num)
             denied == kids[1].val = 0
             holds == rec.val = 1
             other == Payload(rec.type, ids, "none", 0, DecZero, rec.op)
  <2>3. \/ p = BooleanPayload(compared) \/ p = BooleanPayload(denied)
        \/ p = BooleanPayload(holds) \/ p = kept \/ p = other
    BY <1>8 DEF OperatorPayload
  <2> HIDE DEF compared, denied, holds, other, kept
  <2>4. QED
    BY <1>1, <1>8, <2>1, <2>2, <2>3 DEF other
<1>9. CASE rec.type \in {"Observable", "Payment", "Zero", "Divide", "Both", "Scale"}
  <2>1. p.type = rec.type
    BY <1>9 DEF OperatorPayload, Payload
  <2>2. QED
    BY <1>9, <2>1 DEF IsLiteral
<1>10. QED
  BY <1>3, <1>4, <1>5, <1>6, <1>7, <1>8, <1>9
     DEF SupportedTypes, MergedTypes, CollectionTypes, ScalarTypes, BooleanTypes, ContractTypes

LEMMA WholePayload ==
  ASSUME NEW table, TableIn(table), WholeTable(table),
         NEW ids \in Seq(DOMAIN table), NEW rec, SourceOK(rec, ids),
         IsLiteral(PayloadOf(rec, ids, table))
  PROVE  PayloadOf(rec, ids, table).num.exp >= 0
<1> DEFINE kids == PayloadsOf(ids, table)
           flat == Flattened(rec.type, ids, kids)
           operands == SortedIds(flat)
           U == Unmerged(rec.type, table)
           p == PayloadOf(rec, ids, table)
<1>1. CASE rec.type \in MergedTypes
  <2>1. flat \in NonEmptySeqs(U)
    BY <1>1, MergedOperands DEF SourceOK
  <2>2. U \in SUBSET Nat
    BY DEF Unmerged, TableIn
  <2>3. p = CollectionPayload(rec, operands, PayloadsOf(operands, table))
    BY <1>1 DEF PayloadOf
  <2>4. operands \in Seq(DOMAIN table)
    BY <1>1, PayloadBuilt
  <2> HIDE DEF U, flat
  <2>5. flat \in Seq(U) /\ flat # << >>
    BY <2>1 DEF NonEmptySeqs
  <2>6. Len(operands) = Len(flat)
    BY <2>2, <2>5, SortedFacts
  <2>7. operands # << >>
    BY <2>4, <2>5, <2>6, EmptySeq
  <2> HIDE DEF operands, p
  <2>8. p.num.exp >= 0
    BY <1>1, <2>3, <2>4, <2>7, WholeCollection DEF p
  <2>9. QED
    BY <2>8 DEF p
<1>2. CASE rec.type \notin MergedTypes
  <2>1. p = OperatorPayload(rec, ids, kids)
    BY <1>2 DEF PayloadOf
  <2> HIDE DEF p
  <2>2. IsLiteral(p)
    BY DEF p
  <2>3. p.num.exp >= 0
    BY <1>2, <2>1, <2>2, WholeOperator
  <2>4. QED
    BY <2>3 DEF p
<1>3. QED
  BY <1>1, <1>2

WholeInv == WholeTable(canonNodes)

LEMMA WholeFresh == Fresh => WholeInv
BY DEF Fresh, WholeInv, WholeTable

LEMMA WholeNext == IInv /\ TableInv /\ WholeInv /\ [Next]_vars => WholeInv'
<1>1. SUFFICES ASSUME IInv, TableInv, WholeInv, [Next]_vars PROVE WholeInv'
  OBVIOUS
<1>2. CASE Build
  <2> DEFINE n == Top.node
             payload == BuildPayload(n)
             ids == MemoIds(memo, graph[n].kids)
  <2>1. PICK id \in Answers(digests, payload) : canonNodes' = Extended(canonNodes, id, payload)
    BY <1>2 DEF Build
  <2>2. /\ n \in Node /\ NodeAccepted(graph, n) /\ ChildSet(graph, n) \subseteq DOMAIN memo
        /\ payload = PayloadOf(graph[n], ids, canonNodes)
    BY <1>1, <1>2, Surfacing DEF Build
  <2>3. graph \in Graphs /\ TableIn(canonNodes) /\ \A k \in DOMAIN memo : memo[k] \in DOMAIN canonNodes
    BY <1>1 DEF IInv, TableInv, Accounted
  <2> HIDE DEF n, payload
  <2>4. ids \in Seq(DOMAIN canonNodes) /\ SourceOK(graph[n], ids)
    BY <2>2, <2>3, SourceFacts
  <2> HIDE DEF ids
  <2>5. IsLiteral(payload) => payload.num.exp >= 0
    BY <1>1, <2>2, <2>3, <2>4, WholePayload DEF WholeInv
  <2>6. QED
    BY <1>1, <2>1, <2>5 DEF WholeInv, WholeTable, Extended
<1>3. CASE ~Build
  <2>1. canonNodes' = canonNodes
    BY <1>1, <1>3 DEF Next, vars, RejectConfig, AcceptConfig, FoldEscapes, ValidationFails,
       ValidationPasses, SkipMemoized, Enter, DetectCollision, Register,
       BeginPrune, PruneSeen, PruneVisit, AssembleTooComplex, Assemble, core
  <2>2. QED
    BY <1>1, <2>1 DEF WholeInv
<1>4. QED
  BY <1>2, <1>3

LEMMA WholeHolds == Spec => []WholeInv
BY FreshInit, WholeFresh, WholeNext, InvariantHolds, TableHolds, PTL DEF Spec

\* What cannot be written as a fold is worth an integer that cannot be written.
LEMMA OverlongLiteral ==
  ASSUME NEW num \in Decimals, num.exp >= 0, ~Writable(num), NEW u
  PROVE  Overlong(LiteralMeaning(u, num))
<1> DEFINE v == InUnitsOf(num, 0)
           a == IntegerDec(v)
           x == LiteralMeaning(u, num)
<1>1. v \in Int /\ x = Rational(u, v, TenTo[-0])
  BY LiteralIn
<1>2. TenTo[0] = 1
  BY TenToDef
<1> HIDE DEF v
<1>3. x = Rational(u, v, 1)
  BY <1>1, <1>2
<1>4. x.kind = "number" /\ x.p = v /\ x.q = 1
  BY <1>1, <1>3, RationalInteger
<1>5. a \in Decimals /\ a.exp = 0 /\ InUnitsOf(a, 0) = v
  <2>1. a.neg = (v < 0) /\ a.coeff = DecAbs(v) /\ a.exp = 0
    BY DEF IntegerDec, Dec
  <2>2. DecAbs(v) \in Nat /\ (IF v < 0 THEN -DecAbs(v) ELSE DecAbs(v)) = v
    BY <1>1 DEF DecAbs
  <2>3. a \in Decimals
    BY <2>2 DEF IntegerDec, Dec, Decimals
  <2>4. InUnitsOf(a, 0) = (IF v < 0 THEN -DecAbs(v) ELSE DecAbs(v)) * TenTo[0 - 0]
    BY <2>1 DEF InUnitsOf
  <2>5. QED
    BY <1>1, <1>2, <2>1, <2>2, <2>3, <2>4
<1> HIDE DEF a
<1> DEFINE c == Canonical(num)
           d == Canonical(a)
<1>6. \A b \in Decimals : b.exp >= 0 => Canonical(b).exp >= 0
  BY WholeLiteral DEF NumberPayload, Payload
<1>7. /\ c \in Decimals /\ Stripped(c) /\ c.exp >= 0
      /\ d \in Decimals /\ Stripped(d) /\ d.exp >= 0
  BY <1>5, <1>6, CanonicalFacts
<1>8. InUnitsOf(c, 0) = v /\ InUnitsOf(d, 0) = v
  BY <1>5, CanonicalFacts DEF v
<1> HIDE DEF c, d
<1>9. c.exp \in Int /\ d.exp \in Int
  BY <1>7 DEF Decimals
<1>10. c = d
  <2>1. CASE c.exp <= d.exp
    BY <1>7, <1>8, <1>9, <2>1, StrippedUnique
  <2>2. CASE d.exp <= c.exp
    BY <1>7, <1>8, <1>9, <2>2, StrippedUnique
  <2>3. QED
    BY <1>9, <2>1, <2>2
<1>11. ~Writable(a)
  BY <1>10 DEF Writable, c, d
<1> HIDE DEF x
<1>12. Overlong(x)
  BY <1>4, <1>11 DEF Overlong, a
<1>13. QED
  BY <1>12 DEF x

\* What rec is folded into is worth what rec means.
LEMMA FoldMeans ==
  ASSUME NEW table, NEW env, NEW D, NEW ids, NEW kids, NEW xs, NEW rec,
         BuildsOperator(table, env, D, ids, kids, xs, rec),
         NEW num, FoldsTo(rec, ids, table, num)
  PROVE  MeaningOf(rec, xs, env) = LiteralMeaning(rec.unit, num)
<1> DEFINE sorted == SortedIds(Flattened(rec.type, ids, kids))
           operands == PayloadsOf(sorted, table)
           ys == ValuesAt(D, sorted)
<1>1. kids = PayloadsOf(ids, table)
  BY DEF BuildsOperator, OperandsAt
<1>2. CASE rec.type = "Add" /\ AllLiterals(operands) /\ num = SumOf(operands)
  <2>1. /\ MeaningOf(rec, xs, env) = MeaningOf(rec, ys, env)
        /\ BuildsCollection(table, env, D, sorted, operands, ys, rec)
    BY <1>2, MergedOperandsMean DEF MergedTypes, CollectionTypes
  <2> HIDE DEF sorted, operands, ys
  <2>2. MeaningOf(rec, ys, env) = LiteralMeaning(rec.unit, SumOf(operands))
    BY <1>2, <2>1, SumLiteral
  <2>3. QED
    BY <1>2, <2>1, <2>2
<1>3. CASE /\ rec.type = "Subtract" /\ AllLiterals(kids)
           /\ num = ExactSub(kids[1].num, kids[2].num)
  BY <1>3, DifferenceLiteral
<1>4. CASE /\ rec.type = "Multiply" /\ AllLiterals(kids)
           /\ num = ExactMul(kids[1].num, kids[2].num)
  BY <1>4, ProductLiteral
<1>5. QED
  BY <1>1, <1>2, <1>3, <1>4 DEF FoldsTo

\* What makes _safe_number_payload raise is such a number.
LEMMA RaisingFold ==
  ASSUME NEW table, TableIn(table), NEW ids \in Seq(DOMAIN table),
         NEW rec, SourceOK(rec, ids), WholeTable(table), TooLongToFold(rec, ids, table)
  PROVE  /\ rec.type \in {"Add", "Subtract", "Multiply"}
         /\ \E num \in Decimals : FoldsTo(rec, ids, table, num) /\ num.exp >= 0 /\ ~Writable(num)
<1>1. \A num \in Decimals : FoldOutcome(num) = "raises" => ~Writable(num)
  BY OutcomeFacts
<1>2. \E num : FoldsTo(rec, ids, table, num) /\ FoldOutcome(num) = "raises"
  BY DEF TooLongToFold, FoldsTo
<1>3. PICK num : FoldsTo(rec, ids, table, num) /\ FoldOutcome(num) = "raises"
  BY <1>2
<1>4. num \in Decimals /\ num.exp >= 0
  BY <1>3, WholeFold
<1>5. rec.type \in {"Add", "Subtract", "Multiply"}
  BY <1>3 DEF FoldsTo
<1>6. QED
  BY <1>1, <1>3, <1>4, <1>5

\* The bare ValueError leaves canonicalize_contract for a reason.
LEMMA EscapesAreOverlong ==
  ASSUME IInv, TableInv, KindInv, PromiseInv, ArgumentsInv, WholeInv, FoldEscapes
  PROVE  HasOverlongConstant(graph, root)
<1> DEFINE n == Top.node
           rec == graph[n]
           ids == OperandIds(n)
<1>1. /\ n \in Node /\ ChildSet(graph, n) \subseteq DOMAIN memo /\ pc = "walk"
  BY Surfacing DEF FoldEscapes, Popping
<1>2. Finished
  BY <1>1 DEF Finished
<1>3. n \in Reached
  <2>1. WalkInv /\ Popping(TRUE)
    BY <1>1 DEF IInv, FoldEscapes
  <2>2. NonEmpty(stack, Frames(Reached)) /\ stack[Len(stack)].leaving
    BY <2>1 DEF WalkInv, NonEmpty, Popping, Top
  <2>3. PICK L \in [Reached -> Nat] : StackInv(graph, root, stack, DOMAIN memo, L)
    BY <2>1 DEF WalkInv
  <2>4. stack[Len(stack)].node \in Reached
    BY <2>2, <2>3, PopFinished
  <2>5. QED
    BY <2>4 DEF Top
<1>4. BuildRaises(n)
  BY DEF FoldEscapes
<1> HIDE DEF n
<1>5. TooLongToFold(rec, ids, canonNodes)
  BY <1>4 DEF BuildRaises, ChildIds, OperandIds, MemoIds
<1>6. ids \in Seq(DOMAIN canonNodes) /\ SourceOK(rec, ids)
  BY <1>1, <1>2, <1>3, FinishedChildren
<1>7. TableIn(canonNodes) /\ WholeTable(canonNodes)
  BY DEF TableInv, WholeInv
<1>8. /\ rec.type \in {"Add", "Subtract", "Multiply"}
      /\ \E num \in Decimals :
           FoldsTo(rec, ids, canonNodes, num) /\ num.exp >= 0 /\ ~Writable(num)
  <2> HIDE DEF ids, rec
  <2>1. QED
    BY <1>5, <1>6, <1>7, RaisingFold
<1>9. PICK num \in Decimals : FoldsTo(rec, ids, canonNodes, num) /\ num.exp >= 0 /\ ~Writable(num)
  BY <1>8
<1> DEFINE x == LiteralMeaning(rec.unit, num)
<1>10. Overlong(x)
  BY <1>9, OverlongLiteral
<1>11. ASSUME NEW env \in Environments PROVE Denotations(env)[n] = x
  <2>1. PICK D : MeaningTable(canonNodes, env, D)
    BY <1>2, TableMeans
  <2>2. \A k \in DOMAIN memo : D[memo[k]] = Denotations(env)[k]
    BY <1>2, <2>1, ObjectsKeepMeaning
  <2>3. \A i \in 1..Len(graph[n].kids) : graph[n].kids[i] \in DOMAIN memo
    BY <1>1, <1>2, <1>3, FinishedChildren
  <2>4. \A i \in 1..Len(graph[n].kids) :
           D[memo[graph[n].kids[i]]] = Denotations(env)[graph[n].kids[i]]
    BY <2>2, <2>3
  <2> DEFINE xs == ValuesAt(D, ids)
             kids == PayloadsOf(ids, canonNodes)
  <2>5. /\ BuildsOperator(canonNodes, env, D, ids, kids, xs, rec)
        /\ Denotations(env)[n] = MeaningOf(rec, xs, env)
    BY <1>1, <1>2, <1>3, <2>1, <2>4, ObjectBuilds
  <2> HIDE DEF xs, kids, ids, rec
  <2>6. MeaningOf(rec, xs, env) = LiteralMeaning(rec.unit, num)
    BY <1>9, <2>5, FoldMeans
  <2>7. QED
    BY <2>5, <2>6
<1> HIDE DEF x
<1>12. \A env, other \in Environments :
         /\ Overlong(Denotations(env)[n])
         /\ Denotations(env)[n] = Denotations(other)[n]
  BY <1>10, <1>11
<1>13. QED
  BY <1>3, <1>8, <1>12 DEF HasOverlongConstant, Reached, Denotations

-----------------------------------------------------------------------------
(* What the caller of canonicalize_contract is promised.                   *)

\* A raised kind is the kind of the answer.
LEMMA RaisedAnswer ==
  ASSUME NEW kind, Raise(kind), kind # "none"
  PROVE  result'.kind = kind /\ result' # NoResult /\ pc' = "done"
BY DEF Raise, NoResult

\* What validation refuses, canonicalization may refuse.
LEMMA RefusalPromised ==
  ASSUME NEW kind \in Failures,
         RejectionPromised(graph, root, config.validation, kind),
         NEW res, res.kind = Translation(kind)
  PROVE  CanonicalPromised(CallInput, res)
<1>1. /\ CallInput.graph = graph /\ CallInput.root = root /\ CallInput.config = config
  BY DEF CallInput
<1>2. CASE kind = "ContractCycleError"
  <2>1. Cyclic(graph, root)
    BY <1>2 DEF RejectionPromised, Invalid, Mismatch
  <2>2. res.kind = "CanonicalizationCycleError"
    BY <1>2 DEF Translation, Invalid, Mismatch
  <2>3. QED
    BY <1>1, <2>1, <2>2 DEF CanonicalPromised
<1>3. CASE kind = "ContractComplexityError"
  <2>1. res.kind = "CanonicalizationComplexityError"
    BY <1>3 DEF Translation, Invalid, Mismatch
  <2>2. QED
    BY <1>1, <1>3, <2>1 DEF CanonicalPromised
<1>4. CASE kind \in {Invalid, Mismatch}
  <2>1. res.kind = "CanonicalizationNotValidatedError"
    BY <1>4 DEF Translation, Invalid, Mismatch
  <2>2. QED
    BY <1>1, <1>4, <2>1 DEF CanonicalPromised
<1>5. CASE kind = "PythonError"
  <2>1. res.kind = "PythonError"
    BY <1>5 DEF Translation, Invalid, Mismatch
  <2>2. QED
    BY <1>1, <1>5, <2>1 DEF CanonicalPromised
<1>6. QED
  BY <1>2, <1>3, <1>4, <1>5 DEF Failures

\* Every answer is one the arguments justify.
LEMMA AnswerPromised ==
  ASSUME IInv, TableInv, PruneInv, KindInv, PromiseInv, ArgumentsInv, WholeInv,
         Next, result' # result
  PROVE  /\ pc # "done" /\ pc' = "done" /\ result = NoResult /\ result' # NoResult
         /\ CanonicalPromised(CallInput, result')
<1>0. /\ CallInput.graph = graph /\ CallInput.root = root /\ CallInput.config = config
  BY DEF CallInput
<1>1. pc # "done" => result = NoResult
  BY DEF PromiseInv
<1>2. CASE RejectConfig
  <2>1. /\ pc = "config" /\ Raise("CanonicalizationInputError")
        /\ config.schema = "other" \/ config.form = "forged" \/ ~IsContract(graph[root])
    BY <1>2 DEF RejectConfig
  <2>2. /\ result'.kind = "CanonicalizationInputError"
        /\ result' # NoResult /\ pc' = "done"
    BY <2>1, RaisedAnswer
  <2>3. CanonicalPromised(CallInput, result')
    BY <1>0, <2>1, <2>2 DEF CanonicalPromised
  <2>4. QED
    BY <1>1, <2>1, <2>2, <2>3
<1>3. CASE ValidationFails
  <2>1. PICK kind \in Verdicts \ {"metrics"} : Raise(Translation(kind))
    BY <1>3 DEF ValidationFails
  <2>2. kind \in Failures /\ RejectionPromised(graph, root, config.validation, kind)
    BY <2>1 DEF Verdicts
  <2>3. Translation(kind) # "none"
    BY <2>2, Translated DEF CanonicalizationErrors
  <2>4. result'.kind = Translation(kind) /\ result' # NoResult /\ pc' = "done"
    BY <2>1, <2>3, RaisedAnswer
  <2>5. CanonicalPromised(CallInput, result')
    BY <2>2, <2>4, RefusalPromised
  <2>6. pc = "validate"
    BY <1>3 DEF ValidationFails
  <2>7. QED
    BY <1>1, <2>4, <2>5, <2>6
<1>4. CASE DetectCollision
  <2>1. PICK id \in Answers(digests, BuildPayload(Top.node)) :
          id \in DOMAIN canonNodes /\ canonNodes[id] # BuildPayload(Top.node)
    BY <1>4 DEF DetectCollision
  <2>2. Oracle # "one order"
    <3> DEFINE payload == BuildPayload(Top.node)
    <3>1. id \in Answers(digests, payload) /\ id \in DOMAIN canonNodes
          /\ canonNodes[id] # payload
      BY <2>1
    <3> HIDE DEF payload
    <3>2. ASSUME Oracle = "one order" PROVE FALSE
      <4>1. NoClash(digests) /\ DigestsTyped(digests) /\ ContentAddressed(canonNodes, digests)
        BY <3>2 DEF PromiseInv, TableInv, Unclashed
      <4>2. QED
        BY <3>1, <3>2, <4>1, TableHasIt
    <3>3. QED
      BY <3>2
  <2>3. Oracle = "any"
    BY <2>2, OracleAssumption
  <2>4. pc = "walk" /\ Raise("CanonicalizationCollisionError")
    BY <1>4 DEF DetectCollision, Popping
  <2>5. /\ result'.kind = "CanonicalizationCollisionError"
        /\ result' # NoResult /\ pc' = "done"
    BY <2>4, RaisedAnswer
  <2>6. CanonicalPromised(CallInput, result')
    BY <2>3, <2>5 DEF CanonicalPromised
  <2>7. QED
    BY <1>1, <2>4, <2>5, <2>6
<1>5. CASE PruneVisit
  <2>1. /\ pc = "prune" /\ pruneStack # << >>
    BY <1>5 DEF PruneVisit
  <2>2. pruneStack[Len(pruneStack)] \in DOMAIN canonNodes
    BY <2>1, PruneVisits DEF PruneInv, TableInv
  <2>3. result' = result
    BY <1>5, <2>2 DEF PruneVisit, PruneTop
  <2>4. QED
    BY <2>3
<1>6. CASE AssembleTooComplex
  <2>1. pc = "prune" /\ Raise("CanonicalizationComplexityError") /\ ~WithinBounds(Document)
    BY <1>6 DEF AssembleTooComplex
  <2>2. /\ result'.kind = "CanonicalizationComplexityError"
        /\ result' # NoResult /\ pc' = "done"
    BY <2>1, RaisedAnswer
  <2>3. config.nodes \in Nat /\ config.bytes \in Nat
    BY CanonicalAssumption DEF ArgumentsInv
  <2> DEFINE a == Cardinality(DOMAIN Document.nodes)
             b == ByteLength(Document)
             m == Cardinality(Reach(graph, root))
             n == UnfoldedSize(graph, root)
  <2>4. /\ a \in Nat /\ b \in Nat /\ m \in Nat /\ n \in Nat /\ a <= m /\ b <= n
        /\ ~Cyclic(graph, root)
    BY <2>1, DocumentSize
  <2>5. ~(a <= config.nodes) \/ ~(b <= config.bytes)
    BY <2>1 DEF WithinBounds
  <2> HIDE DEF a, b, m, n
  <2>6. m > config.nodes \/ n > config.bytes
    BY <2>3, <2>4, <2>5
  <2>7. CanonicalPromised(CallInput, result')
    BY <1>0, <2>2, <2>4, <2>6 DEF CanonicalPromised, m, n
  <2>8. QED
    BY <1>1, <2>1, <2>2, <2>7
<1>7. CASE Assemble
  <2>1. pc = "prune" /\ pc' = "done" /\ WithinBounds(Document)
        /\ result'.kind = "canonical" /\ result'.document = Document /\ result' # NoResult
    BY <1>7 DEF Assemble, NoResult
  <2>2. /\ config.schema = "supported" /\ config.form = "exact"
        /\ Acceptable(graph, root, config.validation)
    BY <2>1 DEF PromiseInv
  <2>3. config.validation.form = "exact" /\ \A n \in Reach(graph, root) : NodeAccepted(graph, n)
    BY <2>2 DEF Acceptable
  <2>4. CanonicalPromised(CallInput, result')
    BY <1>0, <2>1, <2>2, <2>3 DEF CanonicalPromised, WithinBounds
  <2>5. QED
    BY <1>1, <2>1, <2>4
<1>8. CASE \/ AcceptConfig \/ ValidationPasses \/ SkipMemoized \/ Enter \/ Build
           \/ BeginPrune \/ PruneSeen
  <2>1. result' = result
    BY <1>8 DEF AcceptConfig, ValidationPasses, SkipMemoized, Enter, Build, BeginPrune,
                PruneSeen
  <2>2. QED
    BY <2>1
<1>9. CASE FoldEscapes
  <2>1. pc = "walk" /\ Raise("PythonError")
    BY <1>9 DEF FoldEscapes, Popping
  <2>2. result'.kind = "PythonError" /\ result' # NoResult /\ pc' = "done"
    BY <2>1, RaisedAnswer
  <2>3. config.validation.form = "exact"
    BY <2>1 DEF PromiseInv, Acceptable
  <2>4. HasOverlongConstant(graph, root)
    BY <1>9, EscapesAreOverlong
  <2>5. CanonicalPromised(CallInput, result')
    BY <1>0, <2>2, <2>3, <2>4 DEF CanonicalPromised
  <2>6. QED
    BY <1>1, <2>1, <2>2, <2>5
<1>10. QED
  BY <1>2, <1>3, <1>4, <1>5, <1>6, <1>7, <1>8, <1>9 DEF Next

\* canonicalize_contract keeps the promise its caller has: it answers once, a
\* document only for a contract that validates and within both limits, an error
\* only for its reason: there are never more nodes than objects and never more
\* bytes than the unfolding of the graph, and the bare ValueError of str() is
\* raised only if a sum, difference or product of the contract is worth an
\* integer of more digits than str() writes, whatever the observables are.
THEOREM CanonicalizationKeepsPromise == Spec => KeepsPromise
<1> DEFINE Invariants == /\ IInv /\ TableInv /\ PruneInv /\ KindInv /\ ArgumentsInv /\ PromiseInv
                         /\ WholeInv
<1>1. Spec => []Invariants
  BY ArgumentsHold, PromiseHolds, InvariantHolds, TableHolds, PruneHolds, KindHolds,
     WholeHolds, PTL
<1>2. Init => Call!Init
  BY DEF Init, Call!Init
<1>3. Invariants /\ [Next]_vars
        => [Call!Answer]_<<[graph |-> graph, root |-> root, config |-> config], result>>
  <2> SUFFICES ASSUME Invariants, [Next]_vars,
                      ~(UNCHANGED <<[graph |-> graph, root |-> root, config |-> config],
                                    result>>)
               PROVE  Call!Answer
    OBVIOUS
  <2>1. graph' = graph /\ root' = root /\ config' = config
    BY DEF Next, vars, RejectConfig, AcceptConfig, FoldEscapes, ValidationFails,
       ValidationPasses, SkipMemoized, Enter, Build, DetectCollision, Register,
       BeginPrune, PruneSeen, PruneVisit, AssembleTooComplex, Assemble, callArgs
  <2>2. UNCHANGED [graph |-> graph, root |-> root, config |-> config]
    BY <2>1
  <2>3. result' # result
    BY <2>2
  <2>4. Next
    BY <2>3 DEF vars
  <2>5. /\ result = NoResult /\ result' # NoResult
        /\ CanonicalPromised(CallInput, result')
    BY <2>3, <2>4, AnswerPromised
  <2>6. CallInput = [graph |-> graph, root |-> root, config |-> config]
    BY DEF CallInput
  <2>7. QED
    BY <2>2, <2>5, <2>6 DEF Call!Answer
<1>4. QED
  BY <1>1, <1>2, <1>3, PTL DEF Spec, KeepsPromise, Call!Spec

-----------------------------------------------------------------------------
(* Two calls under one digest function.                                    *)

\* What a call has established, whatever calls there were before it.
CallInv ==
  /\ IInv /\ TableInv /\ PruneInv /\ KindInv /\ ArgumentsInv /\ PromiseInv
  /\ DocumentKeepsMeaning

LEMMA CallFresh == Fresh => CallInv
<1>1. Fresh => DocumentKeepsMeaning
  BY DEF Fresh, NoResult, DocumentKeepsMeaning
<1>2. QED
  BY <1>1, InvFresh, TableFresh, PruneFresh, KindFresh, ArgumentsFresh, PromiseFresh
     DEF CallInv

LEMMA CallNext == CallInv /\ [Next]_vars => CallInv'
<1>1. SUFFICES ASSUME CallInv, [Next]_vars PROVE CallInv'
  OBVIOUS
<1>2. /\ IInv /\ TableInv /\ PruneInv /\ KindInv /\ ArgumentsInv /\ PromiseInv
      /\ DocumentKeepsMeaning
  BY <1>1 DEF CallInv
<1>3. IInv' /\ TableInv'
  BY <1>1, <1>2, InvNext, TableNext
<1>4. PruneInv' /\ KindInv'
  BY <1>1, <1>2, PruneNext, KindNext
<1>5. ArgumentsInv' /\ PromiseInv'
  BY <1>1, <1>2, ArgumentsNext, PromiseNext
<1>6. DocumentKeepsMeaning'
  BY <1>1, <1>2, MeaningNext
<1>7. QED
  BY <1>3, <1>4, <1>5, <1>6 DEF CallInv

\* The second call starts from nothing but the answers of SHA-256.
LEMMA RestartIsFresh ==
  ASSUME CallInv, NEW r \in Roots, Restart(r)
  PROVE  Fresh'
<1>1. graph \in Graphs /\ config \in Configs /\ DigestsTyped(digests) /\ Unclashed(digests)
  BY DEF CallInv, IInv, ArgumentsInv, TableInv, PromiseInv
<1>2. graph' = graph /\ config' = config /\ digests' = digests
  BY DEF Restart
<1>3. QED
  BY <1>1, <1>2 DEF Restart, Fresh

\* res is a document with the identity that SHA-256 has given it.
Identified(res, answered) ==
  /\ res.kind = "canonical"
  /\ res.document \in DOMAIN answered /\ answered[res.document] = res.identity

\* The document of res means what the contract r means.
MeansContract(res, g, r) ==
  \A env \in Environments :
    DocumentMeaning(res.document.nodes, env)[res.document.root] = ContractMeaning(g, r, env)

\* What is known of the two results.
ResultsInv ==
  /\ left \in Roots /\ right \in Roots
  /\ root = IF leftResult = NoResult THEN left ELSE right
  /\ leftResult # NoResult =>
       Identified(leftResult, contractDigests) /\ MeansContract(leftResult, graph, left)
  /\ result.kind = "canonical" => Identified(result, contractDigests) /\ pc = "done"
  /\ answer # "none" => pc = "done"
  /\ answer = "equivalent" =>
       /\ leftResult # NoResult /\ result.kind = "canonical"
       /\ leftResult.identity = result.identity

\* What SHA-256 has answered it answers again.
LEMMA StaysIdentified ==
  ASSUME NEW res, NEW answered, Identified(res, answered),
         NEW x, NEW id \in Answers(answered, x)
  PROVE  Identified(res, Extended(answered, x, id))
<1>1. x \in DOMAIN answered => id = answered[x]
  BY AnswersKept
<1>2. QED
  BY <1>1 DEF Identified, Extended

\* Only the last step of a call makes a document and asks for its identity.
Pausing == UNCHANGED <<pc, result, contractDigests>>
Working ==
  pc # "done" /\ result'.kind # "canonical" /\ contractDigests' = contractDigests
Answering ==
  /\ pc = "prune" /\ pruneStack = << >> /\ pc' = "done" /\ digests' = digests
  /\ \E id \in Answers(contractDigests, Document) :
       /\ contractDigests' = Extended(contractDigests, Document, id)
       /\ result' = [kind |-> "canonical", document |-> Document, identity |-> id]

LEMMA StepsOfCall ==
  ASSUME CallInv, [Next]_vars
  PROVE  graph' = graph /\ root' = root /\ (Pausing \/ Working \/ Answering)
<1>1. pc # "done" => result.kind # "canonical"
  BY DEF CallInv, PromiseInv, NoResult
<1>2. CASE UNCHANGED vars
  BY <1>2 DEF Pausing, vars
<1>3. CASE Assemble
  BY <1>3 DEF Assemble, Answering, callArgs
<1>4. CASE RejectConfig \/ FoldEscapes \/ DetectCollision \/ AssembleTooComplex
  BY <1>4, NoErrorIsCanonical
     DEF RejectConfig, FoldEscapes, DetectCollision, AssembleTooComplex, Register, Popping, callArgs, oracle,
         Working
<1>5. CASE ValidationFails
  <2>1. PICK kind \in Failures : Raise(Translation(kind))
    BY <1>5 DEF ValidationFails, Verdicts
  <2>2. result'.kind # "canonical"
    BY <2>1, Translated, NoErrorIsCanonical DEF CanonicalizationErrors
  <2>3. QED
    BY <1>5, <2>2 DEF ValidationFails, Working, callArgs, oracle
<1>6. CASE PruneVisit
  <2>1. result' = result \/ Raise("CanonicalizationError")
    BY <1>6 DEF PruneVisit
  <2>2. result'.kind # "canonical"
    BY <1>1, <1>6, <2>1, NoErrorIsCanonical DEF PruneVisit
  <2>3. QED
    BY <1>6, <2>2 DEF PruneVisit, Working, callArgs, oracle
<1>7. CASE AcceptConfig \/ ValidationPasses \/ SkipMemoized \/ Enter \/ Build \/ BeginPrune
           \/ PruneSeen
  BY <1>1, <1>7
     DEF AcceptConfig, ValidationPasses, SkipMemoized, Enter, Build, Register, Popping,
         BeginPrune, PruneSeen, callArgs, oracle, Working
<1>8. QED
  BY <1>2, <1>3, <1>4, <1>5, <1>6, <1>7 DEF Next

LEMMA ResultsWhileCalling ==
  ASSUME CallInv, ResultsInv, [Next]_vars, UNCHANGED eqVars
  PROVE  ResultsInv'
<1>1. left' = left /\ right' = right /\ leftResult' = leftResult /\ answer' = answer
  BY DEF eqVars
<1>2. graph' = graph /\ root' = root /\ (Pausing \/ Working \/ Answering)
  BY StepsOfCall
<1>3. CASE Pausing
  BY <1>1, <1>2, <1>3 DEF Pausing, ResultsInv
<1>4. CASE Working
  <2>1. answer = "none"
    BY <1>4 DEF Working, ResultsInv
  <2>2. QED
    BY <1>1, <1>2, <1>4, <2>1 DEF Working, ResultsInv
<1>5. CASE Answering
  <2>1. answer = "none" /\ pc' = "done"
    BY <1>5 DEF Answering, ResultsInv
  <2>2. PICK id \in Answers(contractDigests, Document) :
          /\ contractDigests' = Extended(contractDigests, Document, id)
          /\ result' = [kind |-> "canonical", document |-> Document, identity |-> id]
    BY <1>5 DEF Answering
  <2>3. Identified(result', contractDigests')
    BY <2>2 DEF Identified, Extended
  <2>4. leftResult # NoResult => Identified(leftResult, contractDigests')
    BY <2>2, StaysIdentified DEF ResultsInv
  <2>5. QED
    BY <1>1, <1>2, <2>1, <2>3, <2>4 DEF ResultsInv
<1>6. QED
  BY <1>2, <1>3, <1>4, <1>5

LEMMA ResultsNext ==
  ASSUME CallInv, ResultsInv, [EqNext]_allVars
  PROVE  ResultsInv'
<1>1. CASE CanonicalizeStep \/ UNCHANGED allVars
  <2>1. [Next]_vars /\ UNCHANGED eqVars
    BY <1>1 DEF CanonicalizeStep, allVars
  <2>2. QED
    BY <2>1, ResultsWhileCalling
<1>2. CASE CanonicalizeRight
  <2>1. /\ answer = "none" /\ result.kind = "canonical" /\ leftResult = NoResult
        /\ leftResult' = result /\ root' = right /\ result' = NoResult
        /\ graph' = graph /\ contractDigests' = contractDigests
        /\ left' = left /\ right' = right /\ answer' = answer
    BY <1>2 DEF CanonicalizeRight, Returned, Restart
  <2>2. leftResult' # NoResult /\ result'.kind # "canonical"
    BY <2>1 DEF NoResult
  <2>3. Identified(leftResult', contractDigests')
    BY <2>1 DEF ResultsInv
  <2>4. MeansContract(leftResult', graph', left')
    BY <2>1 DEF ResultsInv, CallInv, DocumentKeepsMeaning, MeansContract
  <2>5. QED
    BY <2>1, <2>2, <2>3, <2>4 DEF ResultsInv
<1>3. CASE Propagate
  <2>1. answer' # "equivalent"
    BY <1>3 DEF Propagate, Returned, CanonicalizationErrors
  <2>2. /\ UNCHANGED <<graph, root, pc, result, contractDigests, left, right, leftResult>>
        /\ pc = "done"
    BY <1>3 DEF Propagate, Returned, vars
  <2>3. QED
    BY <2>1, <2>2 DEF ResultsInv
<1>4. CASE Compare
  <2>1. /\ UNCHANGED <<graph, root, pc, result, contractDigests, left, right, leftResult>>
        /\ pc = "done"
    BY <1>4 DEF Compare, Returned, vars
  <2>2. /\ leftResult # NoResult /\ result.kind = "canonical"
        /\ answer' = "equivalent" => leftResult.identity = result.identity
    BY <1>4 DEF Compare, Returned
  <2>3. QED
    BY <2>1, <2>2 DEF ResultsInv
<1>5. QED
  BY <1>1, <1>2, <1>3, <1>4 DEF EqNext

LEMMA CallsNext ==
  ASSUME CallInv, ResultsInv, [EqNext]_allVars
  PROVE  [Next]_vars \/ Fresh'
<1>1. CASE CanonicalizeRight
  <2>1. right \in Roots /\ Restart(right)
    BY <1>1 DEF CanonicalizeRight, ResultsInv
  <2>2. QED
    BY <2>1, RestartIsFresh
<1>2. CASE ~CanonicalizeRight
  BY <1>2 DEF EqNext, CanonicalizeStep, Propagate, Compare, allVars
<1>3. QED
  BY <1>1, <1>2

LEMMA CallsHold == EqSpec => [](CallInv /\ ResultsInv)
<1>1. EqInit => Fresh /\ ResultsInv
  <2>1. EqInit => ResultsInv
    BY RootPairsAssumption DEF EqInit, Init, ResultsInv, NoResult
  <2>2. EqInit => Fresh
    BY FreshInit DEF EqInit
  <2>3. QED
    BY <2>1, <2>2
<1>2. CallInv /\ ResultsInv /\ [EqNext]_allVars => ([Next]_vars \/ Fresh') /\ ResultsInv'
  BY CallsNext, ResultsNext
<1>3. QED
  BY <1>1, <1>2, CallFresh, CallNext, PTL DEF EqSpec

\* structurally_equivalent makes no wrong "equal": contracts that it calls
\* equivalent pay the same whatever the observables are, unless two different
\* documents have one digest; for every pair of contracts that may share
\* objects, every limit and every digest function.
THEOREM EquivalenceIsSound == EqSpec => []EquivalenceSound
<1>1. CallInv /\ ResultsInv => EquivalenceSound
  <2>1. SUFFICES ASSUME CallInv, ResultsInv, answer = "equivalent",
                        leftResult.document = result.document
                 PROVE  \A env \in Environments :
                          ContractMeaning(graph, left, env) = ContractMeaning(graph, right, env)
    BY DEF EquivalenceSound, ResultsInv, Identified
  <2>2. /\ leftResult # NoResult /\ result.kind = "canonical" /\ root = right
        /\ MeansContract(leftResult, graph, left)
    BY <2>1 DEF ResultsInv
  <2>3. MeansContract(result, graph, right)
    BY <2>1, <2>2 DEF CallInv, DocumentKeepsMeaning, MeansContract
  <2>4. QED
    BY <2>1, <2>2, <2>3 DEF MeansContract
<1>2. QED
  BY <1>1, CallsHold, PTL

-----------------------------------------------------------------------------
(* The objects of a call and their payloads, as constants.                 *)

\* The objects of R have the ids m, and these the payloads t.
Traced(g, R, m, t) ==
  /\ g \in Graphs /\ R \subseteq Node
  /\ \A n \in R : NodeAccepted(g, n)
  /\ Grounded([n \in R |-> g[n].kids], R)
  /\ TableIn(t) /\ DOMAIN m = R /\ Accounted(g, m, t)

LEMMA TracedObject ==
  ASSUME NEW g, NEW R, NEW m, NEW t, Traced(g, R, m, t), NEW n \in R,
         NEW ids, ids = MemoIds(m, g[n].kids)
  PROVE  /\ ids \in Seq(DOMAIN t) /\ SourceOK(g[n], ids)
         /\ m[n] \in DOMAIN t /\ t[m[n]] = PayloadOf(g[n], ids, t)
         /\ Len(ids) = Len(g[n].kids) /\ Len(g[n].kids) \in Nat
         /\ g[n].kids \in Seq(R)
         /\ \A i \in 1..Len(g[n].kids) :
              /\ ids[i] = m[g[n].kids[i]] /\ ids[i] \in DOMAIN t
              /\ g[n].kids[i] \in R
              /\ g[n].kids[i] \in Seq2Set(g[n].kids)
<1> DEFINE kids == g[n].kids
<1>1. /\ g \in Graphs /\ n \in Node /\ DOMAIN m = R /\ NodeAccepted(g, n)
      /\ \A k \in DOMAIN m : m[k] \in DOMAIN t
      /\ t[m[n]] = PayloadOf(g[n], ids, t)
  BY DEF Traced, Accounted
<1>2. kids \in Seq(R)
  BY DEF Traced, Grounded
<1>3. Len(kids) \in Nat /\ \A i \in 1..Len(kids) : kids[i] \in R
  BY <1>2, LenProperties, ElementOfSeq
<1>4. ChildSet(g, n) \subseteq DOMAIN m
  BY <1>1, <1>3 DEF ChildSet, Seq2Set
<1>5. ids \in Seq(DOMAIN t) /\ SourceOK(g[n], ids)
  BY <1>1, <1>4, SourceFacts
<1>6. \A i \in 1..Len(kids) : kids[i] \in Seq2Set(kids)
  BY DEF Seq2Set
<1> HIDE DEF kids
<1>7. ids = [i \in 1..Len(kids) |-> m[kids[i]]]
  BY DEF MemoIds, kids
<1>8. Len(ids) = Len(kids) /\ \A i \in 1..Len(kids) : ids[i] = m[kids[i]]
  BY <1>3, <1>5, <1>7, LenProperties
<1>9. \A i \in 1..Len(kids) : ids[i] \in DOMAIN t
  BY <1>1, <1>3, <1>8
<1>10. QED
  BY <1>1, <1>2, <1>3, <1>5, <1>6, <1>8, <1>9 DEF kids

-----------------------------------------------------------------------------
(* Which objects become literals.                                          *)

LiteralTypes == {"Number", "BooleanConstant"}

\* p is a literal, or a collection of literals.
Condensed(p, t) ==
  \/ p.type \in LiteralTypes
  \/ p.type \in MergedTypes /\ \A i \in 1..Len(p.kids) : t[p.kids[i]].type \in LiteralTypes

\* What makes an operator a literal.
MadeOfLiterals(type, ids, t) ==
  \/ type \in LiteralTypes
  \/ /\ type \in {"Subtract", "Multiply", "Negate", "Comparison", "Not"}
     /\ \A i \in 1..Len(ids) : t[ids[i]].type \in LiteralTypes
  \/ /\ type \in Conditionals
     /\ t[ids[1]].type \in LiteralTypes
     /\ Condensed(t[ids[2]], t) \/ Condensed(t[ids[3]], t)

LEMMA CondensedOperator ==
  ASSUME NEW t, TableIn(t), NEW ids \in Seq(DOMAIN t), NEW rec,
         SourceOK(rec, ids), rec.type \notin MergedTypes,
         Condensed(OperatorPayload(rec, ids, PayloadsOf(ids, t)), t)
  PROVE  MadeOfLiterals(rec.type, ids, t)
<1> DEFINE kids == PayloadsOf(ids, t)
           p == OperatorPayload(rec, ids, kids)
<1>1. /\ Len(ids) \in Nat /\ Len(kids) = Len(ids)
      /\ \A i \in 1..Len(ids) : kids[i] = t[ids[i]]
  BY PayloadsFacts
<1>2. AllLiterals(kids) => \A i \in 1..Len(ids) : t[ids[i]].type \in LiteralTypes
  BY <1>1 DEF AllLiterals, IsLiteral, LiteralTypes
<1>3. Condensed(p, t)
  OBVIOUS
<1>4. rec.type \in SupportedTypes
  BY DEF SourceOK
<1> HIDE DEF kids
<1>5. CASE rec.type \in LiteralTypes
  BY <1>5 DEF MadeOfLiterals
<1>6. CASE rec.type \in {"Observable", "Payment"}
  <2>1. p = Payload(rec.type, ids, rec.unit, rec.val, DecZero, "")
    BY <1>6 DEF OperatorPayload
  <2> HIDE DEF p
  <2>2. p.type = rec.type
    BY <2>1 DEF Payload
  <2>3. QED
    BY <1>3, <1>6, <2>2 DEF Condensed, LiteralTypes, MergedTypes
<1>7. CASE rec.type \in {"Zero", "Divide", "Both", "Scale"}
  <2>1. p = Payload(rec.type, ids, "none", 0, DecZero, "")
    BY <1>7 DEF OperatorPayload
  <2> HIDE DEF p
  <2>2. p.type = rec.type
    BY <2>1 DEF Payload
  <2>3. QED
    BY <1>3, <1>7, <2>2 DEF Condensed, LiteralTypes, MergedTypes
<1>8. CASE rec.type \in {"Negate", "Subtract", "Multiply", "Comparison"}
  <2>1. CASE AllLiterals(kids)
    BY <1>2, <1>8, <2>1 DEF MadeOfLiterals
  <2>2. CASE ~AllLiterals(kids)
    <3>1. p.type = rec.type
      BY <1>8, <2>2 DEF OperatorPayload, Payload
    <3> HIDE DEF p
    <3>2. QED
      BY <1>3, <1>8, <3>1 DEF Condensed, LiteralTypes, MergedTypes
  <2>3. QED
    BY <2>1, <2>2
<1>9. CASE rec.type = "Not"
  <2>1. Len(ids) = 1
    BY <1>9 DEF SourceOK, Arity
  <2>2. CASE IsConstant(kids[1])
    BY <1>1, <1>9, <2>1, <2>2 DEF MadeOfLiterals, IsConstant, LiteralTypes
  <2>3. CASE ~IsConstant(kids[1])
    <3>1. p.type = rec.type
      BY <1>9, <2>3 DEF OperatorPayload, Payload
    <3> HIDE DEF p
    <3>2. QED
      BY <1>3, <1>9, <3>1 DEF Condensed, LiteralTypes, MergedTypes
  <2>4. QED
    BY <2>2, <2>3
<1>10. CASE rec.type \in Conditionals
  <2>1. Len(ids) = 3
    <3>1. rec.type \in DOMAIN Arity /\ Arity[rec.type] = 3
      BY <1>10 DEF Arity, Conditionals
    <3>2. QED
      BY <3>1 DEF SourceOK
  <2>2. kids[1] = t[ids[1]] /\ kids[2] = t[ids[2]] /\ kids[3] = t[ids[3]]
    BY <1>1, <2>1
  <2>3. CASE IsConstant(kids[1])
    <3>1. p = kids[2] \/ p = kids[3]
      BY <1>10, <2>3 DEF OperatorPayload, Conditionals
    <3> HIDE DEF p
    <3>2. QED
      BY <1>3, <1>10, <2>2, <2>3, <3>1 DEF MadeOfLiterals, IsConstant, LiteralTypes
  <2>4. CASE ~IsConstant(kids[1])
    <3>1. p.type = rec.type
      BY <1>10, <2>4 DEF OperatorPayload, Payload, Conditionals
    <3> HIDE DEF p
    <3>2. QED
      BY <1>3, <1>10, <3>1 DEF Condensed, LiteralTypes, MergedTypes, Conditionals
  <2>5. QED
    BY <2>3, <2>4
<1> HIDE DEF p
<1>11. rec.type \notin MergedTypes
  OBVIOUS
<1>12. QED
  BY <1>4, <1>5, <1>6, <1>7, <1>8, <1>9, <1>10, <1>11
     DEF SupportedTypes, ScalarTypes, BooleanTypes, ContractTypes, MergedTypes, CollectionTypes,
         LiteralTypes, Conditionals

\* A collection stays one, or becomes a literal made of literals.
LEMMA CollectionOrLiteral ==
  ASSUME NEW rec, rec.type \in MergedTypes, NEW ids, NEW kids,
         NEW p, p = CollectionPayload(rec, ids, kids)
  PROVE  \/ p = Payload(rec.type, ids, "none", 0, DecZero, "")
         \/ p.type \in LiteralTypes /\ (AllLiterals(kids) \/ AllConstants(kids))
<1> DEFINE kept == Payload(rec.type, ids, "none", 0, DecZero, "")
<1>1. \A u, a : NumberPayload(u, a).type \in LiteralTypes
  BY DEF NumberPayload, Payload, LiteralTypes
<1>2. \A b : BooleanPayload(b).type \in LiteralTypes
  BY DEF BooleanPayload, Payload, LiteralTypes
<1>3. CASE rec.type = "Add"
  <2>1. p = IF AllLiterals(kids) THEN Fold(rec, SumOf(kids), kept) ELSE kept
    BY <1>3 DEF CollectionPayload
  <2> HIDE DEF kept
  <2>2. CASE AllLiterals(kids)
    <3>1. p = NumberPayload(rec.unit, SumOf(kids)) \/ p = kept
      BY <2>1, <2>2 DEF Fold
    <3>2. QED
      BY <1>1, <2>2, <3>1 DEF kept
  <2>3. QED
    BY <2>1, <2>2 DEF kept
<1>4. CASE rec.type \in {"Maximum", "Minimum"}
  <2>1. p = IF AllLiterals(kids)
            THEN NumberPayload(rec.unit,
                   ExtremeOf(IF rec.type = "Maximum" THEN 1 ELSE -1, kids))
            ELSE kept
    BY <1>4 DEF CollectionPayload
  <2> HIDE DEF kept
  <2>2. QED
    BY <1>1, <2>1 DEF kept
<1>5. CASE rec.type = "AllOf"
  <2>1. p = IF AllConstants(kids)
            THEN BooleanPayload(\A i \in 1..Len(kids) : kids[i].val = 1) ELSE kept
    BY <1>5 DEF CollectionPayload
  <2> HIDE DEF kept
  <2>2. QED
    BY <1>2, <2>1 DEF kept
<1>6. CASE rec.type = "AnyOf"
  <2>1. p = IF AllConstants(kids)
            THEN BooleanPayload(\E i \in 1..Len(kids) : kids[i].val = 1) ELSE kept
    BY <1>6 DEF CollectionPayload
  <2> HIDE DEF kept
  <2>2. QED
    BY <1>2, <2>1 DEF kept
<1>7. QED
  BY <1>3, <1>4, <1>5, <1>6 DEF MergedTypes, CollectionTypes

\* The sorted operands of a collection, nested ones merged.
SortedOperands(type, ids, t) == SortedIds(Flattened(type, ids, PayloadsOf(ids, t)))

LEMMA SortedOperandsFacts ==
  ASSUME NEW t, TableIn(t), NEW type \in MergedTypes, NEW ids \in Seq(DOMAIN t), ids # << >>
  PROVE  /\ SortedOperands(type, ids, t) \in NonEmptySeqs(DOMAIN t)
         /\ SortedOperands(type, ids, t) \in NonEmptySeqs(Nat)
         /\ Flattened(type, ids, PayloadsOf(ids, t)) \in NonEmptySeqs(Nat)
         /\ \A x : Occurs(x, Flattened(type, ids, PayloadsOf(ids, t)))
                     <=> Occurs(x, SortedOperands(type, ids, t))
<1> DEFINE f == Flattened(type, ids, PayloadsOf(ids, t))
           s == SortedIds(f)
           U == Unmerged(type, t)
<1>1. f \in NonEmptySeqs(U)
  BY MergedOperands
<1>2. U \subseteq DOMAIN t /\ DOMAIN t \subseteq Nat
  BY DEF Unmerged, TableIn
<1> HIDE DEF f, U
<1>3. f \in Seq(U) /\ f # << >> /\ f \in Seq(Nat) /\ U \in SUBSET Nat
  BY <1>1, <1>2, WiderSeq DEF NonEmptySeqs
<1>4. /\ s \in Seq(U) /\ Len(s) = Len(f) /\ Seq2Set(s) = Seq2Set(f)
      /\ Len(f) \in Nat /\ Len(f) # 0
  BY <1>3, SortedFacts, LenProperties, EmptySeq
<1> HIDE DEF s
<1>5. s \in Seq(DOMAIN t) /\ s \in Seq(Nat) /\ s # << >>
  <2>1. U \subseteq Nat
    BY <1>2
  <2>2. s \in Seq(DOMAIN t)
    BY <1>2, <1>4, WiderSeq
  <2>3. s \in Seq(Nat)
    BY <1>4, <2>1, WiderSeq
  <2>4. QED
    BY <1>4, <2>2, <2>3, EmptySeq
<1>6. \A x : Occurs(x, f) <=> x \in Seq2Set(f)
  BY DEF Occurs, Seq2Set
<1>7. \A x : Occurs(x, s) <=> x \in Seq2Set(s)
  BY DEF Occurs, Seq2Set
<1>8. s = SortedOperands(type, ids, t)
  BY DEF SortedOperands, s, f
<1>9. QED
  BY <1>3, <1>4, <1>5, <1>6, <1>7, <1>8 DEF NonEmptySeqs, f

\* What a collection merges for an operand is among its operands.
LEMMA MergesOperand ==
  ASSUME NEW t, TableIn(t), NEW type \in MergedTypes, NEW ids \in Seq(DOMAIN t), ids # << >>,
         NEW i \in 1..Len(ids)
  PROVE  /\ t[ids[i]].type = type =>
              \A j \in 1..Len(t[ids[i]].kids) :
                Occurs(t[ids[i]].kids[j], SortedOperands(type, ids, t))
         /\ t[ids[i]].type # type => Occurs(ids[i], SortedOperands(type, ids, t))
<1> DEFINE kids == PayloadsOf(ids, t)
           ss == OperandLists(type, ids, kids)
           U == Unmerged(type, t)
<1>1. ss \in NonEmptySeqs(NonEmptySeqs(U)) /\ Len(ss) = Len(ids)
  BY MergedOperands
<1>2. Flattened(type, ids, kids) = FlattenSeq(ss)
  BY DEF Flattened, OperandLists
<1>3. kids[i] = t[ids[i]]
  BY PayloadsFacts
<1>4. ss[i] = IF t[ids[i]].type = type THEN t[ids[i]].kids ELSE << ids[i] >>
  <2> HIDE DEF kids
  <2>1. QED
    BY <1>3 DEF OperandLists
<1>5. \A x : Occurs(x, FlattenSeq(ss)) => Occurs(x, SortedOperands(type, ids, t))
  BY <1>2, SortedOperandsFacts
<1> HIDE DEF ss, U, kids
<1>6. \A x : Occurs(x, ss[i]) => Occurs(x, FlattenSeq(ss))
  BY <1>1, FlattenContains
<1>7. CASE t[ids[i]].type = type
  <2>1. \A j \in 1..Len(t[ids[i]].kids) : Occurs(t[ids[i]].kids[j], ss[i])
    BY <1>4, <1>7 DEF Occurs
  <2>2. QED
    BY <1>5, <1>6, <1>7, <2>1
<1>8. CASE t[ids[i]].type # type
  <2>1. ss[i] = << ids[i] >>
    BY <1>4, <1>8
  <2>2. Len(ss[i]) = 1 /\ ss[i][1] = ids[i]
    BY <2>1
  <2>3. Occurs(ids[i], ss[i])
    BY <2>2 DEF Occurs
  <2>4. QED
    BY <1>5, <1>6, <1>8, <2>3
<1>9. QED
  BY <1>7, <1>8

\* What makes a collection a literal, or a collection of literals.
LEMMA CondensedCollection ==
  ASSUME NEW t, TableIn(t), NEW ids \in Seq(DOMAIN t), NEW rec, SourceOK(rec, ids),
         rec.type \in MergedTypes, Condensed(PayloadOf(rec, ids, t), t)
  PROVE  \A i \in 1..Len(ids) : Condensed(t[ids[i]], t)
<1> DEFINE ops == SortedOperands(rec.type, ids, t)
           kids == PayloadsOf(ops, t)
           p == CollectionPayload(rec, ops, kids)
<1>1. ids # << >>
  BY DEF SourceOK
<1>2. p = PayloadOf(rec, ids, t)
  BY DEF PayloadOf, SortedOperands
<1>3. ops \in Seq(DOMAIN t)
  BY <1>1, SortedOperandsFacts DEF NonEmptySeqs
<1>4. /\ Len(ops) \in Nat /\ Len(kids) = Len(ops)
      /\ \A j \in 1..Len(ops) : kids[j] = t[ops[j]]
  BY <1>3, PayloadsFacts
<1>5. \/ p = Payload(rec.type, ops, "none", 0, DecZero, "")
      \/ p.type \in LiteralTypes /\ (AllLiterals(kids) \/ AllConstants(kids))
  BY CollectionOrLiteral
<1>6. Condensed(p, t)
  BY <1>2
<1> HIDE DEF p, kids, ops
<1>7. \A j \in 1..Len(ops) : t[ops[j]].type \in LiteralTypes
  <2>1. CASE p = Payload(rec.type, ops, "none", 0, DecZero, "")
    <3>1. p.type = rec.type /\ p.kids = ops
      BY <2>1 DEF Payload
    <3>2. p.type \notin LiteralTypes
      BY <3>1 DEF LiteralTypes, MergedTypes, CollectionTypes
    <3>3. QED
      BY <1>6, <3>1, <3>2 DEF Condensed
  <2>2. CASE AllLiterals(kids) \/ AllConstants(kids)
    BY <1>4, <2>2 DEF AllLiterals, AllConstants, IsLiteral, IsConstant, LiteralTypes
  <2>3. QED
    BY <1>5, <2>1, <2>2
<1>8. \A x : Occurs(x, ops) => t[x].type \in LiteralTypes
  BY <1>7 DEF Occurs
<1>9. ASSUME NEW i \in 1..Len(ids) PROVE Condensed(t[ids[i]], t)
  <2>1. /\ t[ids[i]].type = rec.type =>
             \A j \in 1..Len(t[ids[i]].kids) : Occurs(t[ids[i]].kids[j], ops)
        /\ t[ids[i]].type # rec.type => Occurs(ids[i], ops)
    BY <1>1, MergesOperand DEF ops
  <2>2. QED
    BY <1>8, <2>1 DEF Condensed
<1>10. QED
  BY <1>9

\* S has whatever may fold because of it.
FoldClosed(g, R, S) == \A n \in R : MayFold(g, S, n) => n \in S

\* What is or contains nothing but literals may fold.
LEMMA CondensedMayFold ==
  ASSUME NEW g, NEW R, NEW m, NEW t, Traced(g, R, m, t),
         NEW n \in R, Condensed(t[m[n]], t), NEW S,
         \A k \in Seq2Set(g[n].kids) : Condensed(t[m[k]], t) => k \in S
  PROVE  MayFold(g, S, n)
<1> DEFINE kids == g[n].kids
           ids == MemoIds(m, kids)
           rec == g[n]
<1>1. /\ ids \in Seq(DOMAIN t) /\ SourceOK(rec, ids)
      /\ m[n] \in DOMAIN t /\ t[m[n]] = PayloadOf(rec, ids, t)
      /\ Len(ids) = Len(kids) /\ Len(kids) \in Nat
      /\ \A i \in 1..Len(kids) : ids[i] = m[kids[i]] /\ kids[i] \in Seq2Set(kids)
  BY TracedObject
<1>2. TableIn(t)
  BY DEF Traced
<1> HIDE DEF ids
<1>3. \A i \in 1..Len(kids) : Condensed(t[ids[i]], t) => kids[i] \in S
  BY <1>1
<1>4. \A i \in 1..Len(kids) : t[ids[i]].type \in LiteralTypes => kids[i] \in S
  BY <1>3 DEF Condensed
<1>5. CASE rec.type \in MergedTypes
  <2>1. \A i \in 1..Len(ids) : Condensed(t[ids[i]], t)
    BY <1>1, <1>2, <1>5, CondensedCollection
  <2>2. \A i \in 1..Len(kids) : kids[i] \in S
    BY <1>1, <1>3, <2>1
  <2>3. Seq2Set(kids) \subseteq S
    BY <2>2 DEF Seq2Set
  <2>4. QED
    BY <1>5, <2>3 DEF MayFold, MergedTypes, CollectionTypes
<1>6. CASE rec.type \notin MergedTypes
  <2>1. t[m[n]] = OperatorPayload(rec, ids, PayloadsOf(ids, t))
    BY <1>1, <1>6 DEF PayloadOf
  <2>2. MadeOfLiterals(rec.type, ids, t)
    BY <1>1, <1>2, <1>6, <2>1, CondensedOperator
  <2>3. CASE rec.type \in LiteralTypes
    BY <2>3 DEF MayFold, LiteralTypes
  <2>4. CASE /\ rec.type \in {"Subtract", "Multiply", "Negate", "Comparison", "Not"}
             /\ \A i \in 1..Len(ids) : t[ids[i]].type \in LiteralTypes
    <3>1. Seq2Set(kids) \subseteq S
      BY <1>1, <1>4, <2>4 DEF Seq2Set
    <3>2. QED
      BY <2>4, <3>1 DEF MayFold
  <2>5. CASE /\ rec.type \in Conditionals
             /\ t[ids[1]].type \in LiteralTypes
             /\ Condensed(t[ids[2]], t) \/ Condensed(t[ids[3]], t)
    <3>1. rec.type \in DOMAIN Arity /\ Arity[rec.type] = 3
      BY <2>5 DEF Arity, Conditionals
    <3>2. Len(kids) = 3
      BY <1>1, <3>1 DEF SourceOK
    <3>3. kids[1] \in S /\ (kids[2] \in S \/ kids[3] \in S)
      BY <1>3, <1>4, <2>5, <3>2
    <3>4. QED
      BY <2>5, <3>3 DEF MayFold
  <2>6. QED
    BY <2>2, <2>3, <2>4, <2>5 DEF MadeOfLiterals
<1>7. QED
  BY <1>5, <1>6

\* What becomes a literal, or a collection of literals, is among what the graph
\* says may fold.
LEMMA CondensedFolds ==
  ASSUME NEW g, NEW R, NEW m, NEW t, Traced(g, R, m, t),
         NEW n \in R, Condensed(t[m[n]], t)
  PROVE  n \in Foldable(g, R)
<1>1. ASSUME NEW S \in SUBSET R, FoldClosed(g, R, S) PROVE n \in S
  <2> DEFINE Bad == {k \in R : Condensed(t[m[k]], t) /\ k \notin S}
  <2>1. SUFFICES ASSUME Bad # {} PROVE FALSE
    OBVIOUS
  <2>2. PICK k \in Bad : Seq2Set([x \in R |-> g[x].kids][k]) \cap Bad = {}
    BY <2>1 DEF Traced, Grounded
  <2>3. k \in R /\ Condensed(t[m[k]], t) /\ k \notin S
    OBVIOUS
  <2>4. Seq2Set(g[k].kids) \cap Bad = {}
    BY <2>2, <2>3
  <2>5. Seq2Set(g[k].kids) \subseteq R
    <3>1. Len(g[k].kids) \in Nat /\ \A i \in 1..Len(g[k].kids) : g[k].kids[i] \in R
      <4>1. g[k].kids \in Seq(R)
        BY <2>3 DEF Traced, Grounded
      <4>2. QED
        BY <4>1, LenProperties, ElementOfSeq
    <3>2. QED
      BY <3>1 DEF Seq2Set
  <2>6. \A c \in Seq2Set(g[k].kids) : Condensed(t[m[c]], t) => c \in S
    BY <2>4, <2>5
  <2> HIDE DEF Bad
  <2>7. MayFold(g, S, k)
    BY <2>3, <2>6, CondensedMayFold
  <2>8. QED
    BY <1>1, <2>3, <2>7 DEF FoldClosed
<1>2. QED
  BY <1>1 DEF Foldable, FoldClosed

\* A collection that cannot fold stays a collection of its operands.
LEMMA StaysCollection ==
  ASSUME NEW g, NEW R, NEW m, NEW t, Traced(g, R, m, t),
         NEW n \in R, g[n].type \in MergedTypes, n \notin Foldable(g, R)
  PROVE  /\ t[m[n]].type = g[n].type
         /\ t[m[n]].kids = SortedOperands(g[n].type, MemoIds(m, g[n].kids), t)
<1> DEFINE ids == MemoIds(m, g[n].kids)
           ops == SortedOperands(g[n].type, ids, t)
           below == PayloadsOf(ops, t)
           p == t[m[n]]
<1>1. t[m[n]] = PayloadOf(g[n], ids, t)
  BY TracedObject
<1>2. p = CollectionPayload(g[n], ops, below)
  BY <1>1 DEF PayloadOf, SortedOperands
<1>3. ~Condensed(p, t)
  BY CondensedFolds
<1> HIDE DEF p, ops, below
<1>4. p = Payload(g[n].type, ops, "none", 0, DecZero, "")
  BY <1>2, <1>3, CollectionOrLiteral DEF Condensed
<1>5. p.type = g[n].type /\ p.kids = ops
  BY <1>4 DEF Payload
<1>6. QED
  BY <1>5 DEF p, ops

-----------------------------------------------------------------------------
(* The operands that the law of associativity shows.                       *)

\* The runs of operands that n opens up to, if o gives those of its children.
OpenedRuns(g, n, o) ==
  [i \in 1..Len(g[n].kids) |->
     IF g[g[n].kids[i]].type = g[n].type THEN o[g[n].kids[i]] ELSE << g[n].kids[i] >>]

LEMMA OperandsAre ==
  ASSUME NEW g, NEW n, NEW o
  PROVE  OperandsOf(g, n, o)
           = IF g[n].type \in MergedTypes THEN FlattenSeq(OpenedRuns(g, n, o)) ELSE g[n].kids
BY DEF OperandsOf, OpenedRuns

\* Only the children matter.
LEMMA OperandsSame ==
  ASSUME NEW g, NEW n, NEW S, g[n].kids \in Seq(S), NEW u, NEW w, \A x \in S : u[x] = w[x]
  PROVE  OperandsOf(g, n, u) = OperandsOf(g, n, w)
<1> DEFINE kids == g[n].kids
<1>1. \A i \in 1..Len(kids) : kids[i] \in S
  BY ElementOfSeq
<1>2. OpenedRuns(g, n, u) = OpenedRuns(g, n, w)
  BY <1>1 DEF OpenedRuns
<1>3. QED
  BY <1>2, OperandsAre

Opens(g, S, o) == \A n \in S : o[n] = OperandsOf(g, n, o)

\* Children first, every object is given its operands.
LEMMA OperandsExist ==
  ASSUME NEW g, NEW kids, NEW R, kids = [n \in R |-> g[n].kids], Grounded(kids, R)
  PROVE  \E o : Opens(g, R, o)
<1> DEFINE N == Cardinality(R)
           Down(S) == \A x \in S : kids[x] \in Seq(S)
           Done(k) == \E S \in SUBSET R : /\ Cardinality(S) = k /\ Down(S)
                                         /\ \E u : Opens(g, S, u)
           T == {k \in Nat : Done(k)}
<1>1. N \in Nat
  BY FS_CardinalityType DEF Grounded
<1>2. 0 \in T
  <2>1. {} \in SUBSET R /\ Cardinality({}) = 0
    BY FS_EmptySet
  <2>2. Down({}) /\ Opens(g, {}, << >>)
    BY DEF Opens
  <2>3. QED
    BY <2>1, <2>2
<1>3. ASSUME NEW k \in 0..(N - 1), k \in T PROVE k + 1 \in T
  <2>1. PICK S \in SUBSET R : /\ Cardinality(S) = k /\ Down(S)
                              /\ \E u : Opens(g, S, u)
    BY <1>3
  <2>2. PICK u : Opens(g, S, u)
    BY <2>1
  <2>3. R \ S # {}
    <3>1. S # R
      BY <1>1, <2>1
    <3>2. QED
      BY <3>1
  <2>4. PICK x \in R \ S : Seq2Set(kids[x]) \cap (R \ S) = {}
    BY <2>3 DEF Grounded
  <2>5. kids[x] \in Seq(S)
    <3>1. kids[x] \in Seq(R)
      BY DEF Grounded
    <3>2. \A i \in 1..Len(kids[x]) : kids[x][i] \in R
      BY <3>1, ElementOfSeq
    <3>3. \A i \in 1..Len(kids[x]) : kids[x][i] \in S
      BY <2>4, <3>2 DEF Seq2Set
    <3>4. QED
      BY <3>1, <3>3, NarrowerSeq
  <2> DEFINE S2 == S \cup {x}
             v == [y \in S2 |-> IF y = x THEN OperandsOf(g, x, u) ELSE u[y]]
  <2>6. S2 \in SUBSET R /\ Cardinality(S2) = k + 1
    <3>1. IsFiniteSet(S) /\ x \notin S
      BY FS_Subset DEF Grounded
    <3>2. QED
      BY <2>1, <3>1, FS_AddElement
  <2>7. \A y \in S2 : kids[y] \in Seq(S) /\ g[y].kids = kids[y]
    BY <2>1, <2>5
  <2>8. \A y \in S : v[y] = u[y]
    OBVIOUS
  <2>9. v[x] = OperandsOf(g, x, u)
    OBVIOUS
  <2> HIDE DEF v
  <2>10. ASSUME NEW y \in S2 PROVE OperandsOf(g, y, v) = OperandsOf(g, y, u)
    <3>1. g[y].kids \in Seq(S)
      BY <2>7
    <3>2. QED
      BY <2>8, <3>1, OperandsSame
  <2>11. Opens(g, S2, v)
    BY <2>2, <2>8, <2>9, <2>10 DEF Opens
  <2>12. Down(S2)
    <3>1. S \subseteq S2
      OBVIOUS
    <3> HIDE DEF S2
    <3>2. QED
      BY <2>7, <3>1, WiderSeq
  <2> HIDE DEF S2, Down
  <2>13. k + 1 \in Nat /\ Done(k + 1)
    BY <1>1, <2>6, <2>11, <2>12
  <2>14. QED
    BY <2>13
<1>4. N \in T
  <2> HIDE DEF T
  <2>1. 0..N \subseteq T
    BY <1>1, <1>2, <1>3, Climb
  <2>2. QED
    BY <1>1, <2>1
<1>5. PICK S \in SUBSET R : Cardinality(S) = N /\ \E u : Opens(g, S, u)
  BY <1>4
<1>6. S = R
  BY <1>5, FS_Subset DEF Grounded
<1>7. QED
  BY <1>5, <1>6

\* OpenedUp is what the choice of a solution finds.
LEMMA OpenedSolves ==
  ASSUME NEW g, NEW R, Grounded([n \in R |-> g[n].kids], R)
  PROVE  Opens(g, R, OpenedUp(g, R))
<1> DEFINE Eq(f) == f = [n \in R |-> OperandsOf(g, n, f)]
           w == OpenedUp(g, R)
<1>1. w = CHOOSE f : Eq(f)
  BY DEF OpenedUp
<1>2. PICK u : Opens(g, R, u)
  BY OperandsExist
<1> DEFINE v == [n \in R |-> u[n]]
<1>3. \A n \in R : v[n] = u[n]
  OBVIOUS
<1>4. v = [n \in R |-> v[n]]
  OBVIOUS
<1> HIDE DEF v
<1>5. ASSUME NEW n \in R PROVE OperandsOf(g, n, v) = OperandsOf(g, n, u)
  <2>1. g[n].kids \in Seq(R)
    BY DEF Grounded
  <2>2. QED
    BY <1>3, <2>1, OperandsSame
<1>6. \A n \in R : v[n] = OperandsOf(g, n, v)
  BY <1>2, <1>3, <1>5 DEF Opens
<1>7. Eq(v)
  BY <1>4, <1>6
<1> HIDE DEF Eq, w
<1>8. Eq(w)
  BY <1>1, <1>7
<1>9. \A n \in R : w[n] = OperandsOf(g, n, w)
  BY <1>8 DEF Eq
<1>10. QED
  BY <1>9 DEF Opens, w

\* No collection has a nested one of its type that may fold.
NothingFolds(g, R) ==
  \A n \in R : g[n].type \in MergedTypes =>
    \A k \in Seq2Set(g[n].kids) : g[k].type = g[n].type => k \notin Foldable(g, R)

\* o opens up the objects of R, collections to at least one operand each.
OpensUp(g, R, o) ==
  /\ Opens(g, R, o)
  /\ \A n \in R : o[n] \in Seq(R) /\ (g[n].type \in MergedTypes => o[n] # << >>)

\* The runs of a collection whose nested collections are opened up.
LEMMA RunsTyped ==
  ASSUME NEW g, NEW R, NEW n, g[n].kids \in NonEmptySeqs(R), NEW o,
         \A i \in 1..Len(g[n].kids) :
           g[g[n].kids[i]].type = g[n].type => o[g[n].kids[i]] \in NonEmptySeqs(R)
  PROVE  /\ OpenedRuns(g, n, o) \in NonEmptySeqs(NonEmptySeqs(R))
         /\ Len(OpenedRuns(g, n, o)) = Len(g[n].kids) /\ Len(g[n].kids) \in Nat \ {0}
<1> DEFINE kids == g[n].kids
           ss == OpenedRuns(g, n, o)
           A == NonEmptySeqs(R)
<1>1. kids \in Seq(R) /\ kids # << >>
  BY DEF NonEmptySeqs
<1>2. Len(kids) \in Nat \ {0} /\ \A i \in 1..Len(kids) : kids[i] \in R
  BY <1>1, LenProperties, EmptySeq, ElementOfSeq
<1>3. \A x \in R : << x >> \in A
  BY DEF NonEmptySeqs
<1> HIDE DEF A
<1>4. \A i \in 1..Len(kids) :
        (IF g[kids[i]].type = g[n].type THEN o[kids[i]] ELSE << kids[i] >>) \in A
  BY <1>2, <1>3 DEF A
<1>5. ss \in [1..Len(kids) -> A]
  BY <1>4 DEF OpenedRuns
<1> HIDE DEF ss, kids
<1>6. ss \in Seq(A)
  BY <1>2, <1>5, SeqDef
<1>7. Len(ss) = Len(kids)
  BY <1>2, <1>5, <1>6, LenProperties
<1>8. ss # << >>
  BY <1>2, <1>7, EmptySeq
<1>9. QED
  BY <1>2, <1>6, <1>7, <1>8 DEF NonEmptySeqs, A, ss, kids

LEMMA OpenedTyped ==
  ASSUME NEW g, NEW R, Grounded([n \in R |-> g[n].kids], R),
         \A n \in R : g[n].type \in MergedTypes => g[n].kids # << >>,
         NEW o, Opens(g, R, o)
  PROVE  OpensUp(g, R, o)
<1> DEFINE Good(n) == o[n] \in Seq(R) /\ (g[n].type \in MergedTypes => o[n] # << >>)
           Bad == {n \in R : ~Good(n)}
<1>1. ASSUME Bad # {} PROVE FALSE
  <2>1. PICK n \in Bad : Seq2Set([x \in R |-> g[x].kids][n]) \cap Bad = {}
    BY <1>1 DEF Grounded
  <2>2. n \in R /\ ~Good(n)
    OBVIOUS
  <2>3. Seq2Set(g[n].kids) \cap Bad = {}
    BY <2>1, <2>2
  <2>4. g[n].kids \in Seq(R)
    BY <2>2 DEF Grounded
  <2>5. \A i \in 1..Len(g[n].kids) : g[n].kids[i] \in R /\ g[n].kids[i] \in Seq2Set(g[n].kids)
    BY <2>4, ElementOfSeq DEF Seq2Set
  <2>6. \A i \in 1..Len(g[n].kids) : Good(g[n].kids[i])
    BY <2>3, <2>5
  <2>7. o[n] = IF g[n].type \in MergedTypes THEN FlattenSeq(OpenedRuns(g, n, o)) ELSE g[n].kids
    BY <2>2, OperandsAre DEF Opens
  <2>8. CASE g[n].type \in MergedTypes
    <3>1. g[n].kids \in NonEmptySeqs(R)
      BY <2>2, <2>4, <2>8 DEF NonEmptySeqs
    <3>2. \A i \in 1..Len(g[n].kids) :
            g[g[n].kids[i]].type = g[n].type => o[g[n].kids[i]] \in NonEmptySeqs(R)
      BY <2>6, <2>8 DEF NonEmptySeqs
    <3>3. OpenedRuns(g, n, o) \in NonEmptySeqs(NonEmptySeqs(R))
      BY <3>1, <3>2, RunsTyped
    <3>4. FlattenSeq(OpenedRuns(g, n, o)) \in NonEmptySeqs(R)
      BY <3>3, FlattenTyped
    <3>5. QED
      BY <2>2, <2>7, <2>8, <3>4 DEF NonEmptySeqs
  <2>9. QED
    BY <2>2, <2>4, <2>7, <2>8
<1>2. QED
  BY <1>1 DEF OpensUp

-----------------------------------------------------------------------------
(* Merging payloads merges what the law shows.                             *)

\* What a collection of the type merges for an operand whose payload is id.
SpliceOf(type, t, id) == IF t[id].type = type THEN t[id].kids ELSE << id >>

\* How many of the ids that are merged for an object are up to x.
Spans(x, type, m, t) == [k \in DOMAIN m |-> CountUpTo(x, SpliceOf(type, t, m[k]))]

\* The operands that are merged into n, in no order.
MergedInto(g, m, t, n) ==
  LET ids == MemoIds(m, g[n].kids)
  IN  Flattened(g[n].type, ids, PayloadsOf(ids, t))

\* The operands merged into n are those merged for the operands s.
Covers(g, m, t, n, s) ==
  /\ \A x \in Nat :
       CountUpTo(x, MergedInto(g, m, t, n)) = FoldOf("Add", Spans(x, g[n].type, m, t), s)
  /\ \A y : Occurs(y, MergedInto(g, m, t, n)) =>
       \E j \in 1..Len(s) : Occurs(y, SpliceOf(g[n].type, t, m[s[j]]))

LEMMA SpliceTyped ==
  ASSUME NEW t, TableIn(t), NEW type \in MergedTypes, NEW id \in DOMAIN t
  PROVE  /\ SpliceOf(type, t, id) \in NonEmptySeqs(DOMAIN t)
         /\ SpliceOf(type, t, id) \in NonEmptySeqs(Nat)
<1> DEFINE s == SpliceOf(type, t, id)
<1>1. PayloadIn(t[id], t) /\ DOMAIN t \subseteq Nat
  BY DEF TableIn
<1>2. s \in Seq(DOMAIN t) /\ s # << >>
  <2>1. CASE t[id].type = type
    BY <1>1, <2>1 DEF PayloadIn, SpliceOf
  <2>2. CASE t[id].type # type
    BY <2>2 DEF SpliceOf
  <2>3. QED
    BY <2>1, <2>2
<1> HIDE DEF s
<1>3. s \in Seq(Nat)
  BY <1>1, <1>2, WiderSeq
<1>4. QED
  BY <1>2, <1>3 DEF NonEmptySeqs, s

LEMMA SpansAdd ==
  ASSUME NEW g, NEW R, NEW m, NEW t, Traced(g, R, m, t),
         NEW x \in Nat, NEW type \in MergedTypes
  PROVE  CombinableOn(R, "Add", "scalar", Spans(x, type, m, t))
<1>1. TableIn(t) /\ DOMAIN m = R /\ \A k \in R : m[k] \in DOMAIN t
  BY DEF Traced, Accounted
<1>2. ASSUME NEW k \in R
      PROVE  IsNumberOf(CountUpTo(x, SpliceOf(type, t, m[k])), "scalar")
  <2>1. SpliceOf(type, t, m[k]) \in NonEmptySeqs(Nat)
    BY <1>1, SpliceTyped
  <2>2. QED
    BY <2>1, CountOf
<1>3. \A k \in R : Spans(x, type, m, t)[k] = CountUpTo(x, SpliceOf(type, t, m[k]))
  BY <1>1 DEF Spans
<1>4. QED
  BY <1>2, <1>3 DEF CombinableOn, Combinable

\* One operand.
LEMMA FoldOfOne ==
  ASSUME NEW type, NEW D, NEW k
  PROVE  FoldOf(type, D, << k >>) = D[k]
<1> DEFINE s == << k >>
<1>1. Len(s) = 1 /\ s[1] = k
  OBVIOUS
<1> HIDE DEF s
<1>2. ValuesAt(D, s)[1] = D[k]
  BY <1>1, ValuesFacts
<1>3. Folded(type, ValuesAt(D, s), 1) = ValuesAt(D, s)[1]
  BY FoldedSteps
<1>4. QED
  BY <1>1, <1>2, <1>3 DEF FoldOf, s

\* What is merged for the operands tops of n is run.
RunCovers(g, m, t, n, run, tops) ==
  /\ \A x \in Nat : CountUpTo(x, run) = FoldOf("Add", Spans(x, g[n].type, m, t), tops)
  /\ \A y : Occurs(y, run) =>
       \E j \in 1..Len(tops) : Occurs(y, SpliceOf(g[n].type, t, m[tops[j]]))

\* What is merged for one operand is what it shows.
LEMMA RunCovered ==
  ASSUME NEW g, NEW R, NEW m, NEW t, Traced(g, R, m, t), NothingFolds(g, R),
         NEW n \in R, g[n].type \in MergedTypes, NEW k \in Seq2Set(g[n].kids), k \in R,
         NEW run, NEW tops,
         run = SpliceOf(g[n].type, t, m[k]),
         g[k].type = g[n].type => Covers(g, m, t, k, tops),
         g[k].type # g[n].type => tops = << k >>
  PROVE  RunCovers(g, m, t, n, run, tops)
<1> DEFINE type == g[n].type
<1>1. DOMAIN m = R
  BY DEF Traced
<1>2. CASE g[k].type # type
  <2>1. tops = << k >> /\ Len(tops) = 1 /\ tops[1] = k
    BY <1>2
  <2>2. ASSUME NEW x \in Nat
        PROVE  CountUpTo(x, run) = FoldOf("Add", Spans(x, type, m, t), tops)
    <3>1. Spans(x, type, m, t)[k] = CountUpTo(x, run)
      BY <1>1 DEF Spans
    <3>2. FoldOf("Add", Spans(x, type, m, t), tops) = Spans(x, type, m, t)[k]
      BY <2>1, FoldOfOne
    <3>3. QED
      BY <3>1, <3>2
  <2>3. QED
    BY <2>1, <2>2 DEF RunCovers
<1>3. CASE g[k].type = type
  <2> DEFINE ids == MemoIds(m, g[k].kids)
             f == MergedInto(g, m, t, k)
  <2>1. k \notin Foldable(g, R)
    BY <1>3 DEF NothingFolds
  <2>2. t[m[k]].type = type /\ t[m[k]].kids = SortedOperands(type, ids, t)
    BY <1>3, <2>1, StaysCollection
  <2>3. run = SortedOperands(type, ids, t)
    BY <2>2 DEF SpliceOf
  <2>4. f = Flattened(type, ids, PayloadsOf(ids, t)) /\ run = SortedIds(f)
    BY <1>3, <2>3 DEF MergedInto, SortedOperands
  <2>5. ids \in Seq(DOMAIN t) /\ SourceOK(g[k], ids) /\ TableIn(t)
    BY TracedObject DEF Traced
  <2>6. ids # << >>
    BY <1>3, <2>5 DEF SourceOK
  <2>7. /\ f \in NonEmptySeqs(Nat)
        /\ \A y : Occurs(y, f) <=> Occurs(y, run)
    BY <2>3, <2>4, <2>5, <2>6, SortedOperandsFacts
  <2>8. Covers(g, m, t, k, tops)
    BY <1>3
  <2> HIDE DEF f, ids
  <2>9. ASSUME NEW x \in Nat
        PROVE  CountUpTo(x, run) = FoldOf("Add", Spans(x, type, m, t), tops)
    <3>1. CountUpTo(x, run) = CountUpTo(x, f)
      BY <2>4, <2>7, CountSorted
    <3>2. CountUpTo(x, f) = FoldOf("Add", Spans(x, type, m, t), tops)
      BY <1>3, <2>8 DEF Covers, f
    <3>3. QED
      BY <3>1, <3>2
  <2>10. ASSUME NEW y, Occurs(y, run)
         PROVE  \E j \in 1..Len(tops) : Occurs(y, SpliceOf(type, t, m[tops[j]]))
    <3>1. Occurs(y, f)
      BY <2>7, <2>10
    <3>2. QED
      BY <1>3, <2>8, <3>1 DEF Covers, f
  <2>11. QED
    BY <2>9, <2>10 DEF RunCovers
<1>4. QED
  BY <1>2, <1>3

\* The runs that are merged into a collection.
LEMMA MergedRuns ==
  ASSUME NEW g, NEW R, NEW m, NEW t, Traced(g, R, m, t),
         NEW n \in R, g[n].type \in MergedTypes
  PROVE  LET ids == MemoIds(m, g[n].kids)
             ss == OperandLists(g[n].type, ids, PayloadsOf(ids, t))
         IN  /\ ss \in NonEmptySeqs(NonEmptySeqs(Nat)) /\ Len(ss) = Len(g[n].kids)
             /\ MergedInto(g, m, t, n) = FlattenSeq(ss)
             /\ \A i \in 1..Len(g[n].kids) : ss[i] = SpliceOf(g[n].type, t, m[g[n].kids[i]])
             /\ g[n].kids \in NonEmptySeqs(R)
<1> DEFINE kids == g[n].kids
           type == g[n].type
           ids == MemoIds(m, kids)
           below == PayloadsOf(ids, t)
           ss == OperandLists(type, ids, below)
<1>1. /\ ids \in Seq(DOMAIN t) /\ SourceOK(g[n], ids)
      /\ Len(ids) = Len(kids) /\ Len(kids) \in Nat /\ kids \in Seq(R)
      /\ \A i \in 1..Len(kids) : ids[i] = m[kids[i]] /\ ids[i] \in DOMAIN t
  BY TracedObject
<1>2. TableIn(t)
  BY DEF Traced
<1> HIDE DEF ids
<1>3. ids # << >> /\ kids # << >>
  BY <1>1, EmptySeq DEF SourceOK
<1>4. \A i \in 1..Len(ids) :
        /\ t[ids[i]].type = type => t[ids[i]].kids \in NonEmptySeqs(Nat)
        /\ t[ids[i]].type # type => ids[i] \in Nat
  <2>1. ASSUME NEW i \in 1..Len(ids)
        PROVE  /\ t[ids[i]].type = type => t[ids[i]].kids \in NonEmptySeqs(Nat)
               /\ t[ids[i]].type # type => ids[i] \in Nat
    <3>1. ids[i] \in DOMAIN t /\ ids[i] \in Nat
      BY <1>1, <1>2 DEF TableIn
    <3>2. SpliceOf(type, t, ids[i]) \in NonEmptySeqs(Nat)
      BY <1>2, <3>1, SpliceTyped
    <3>3. QED
      BY <3>1, <3>2 DEF SpliceOf
  <2>2. QED
    BY <2>1
<1>5. ss \in NonEmptySeqs(NonEmptySeqs(Nat)) /\ Len(ss) = Len(ids)
  BY <1>1, <1>3, <1>4, FlattenedIn
<1>6. \A i \in 1..Len(ids) : below[i] = t[ids[i]]
  BY <1>1, PayloadsFacts
<1>7. MergedInto(g, m, t, n) = FlattenSeq(ss)
  BY DEF MergedInto, Flattened, OperandLists, ids
<1>8. \A i \in 1..Len(kids) : ss[i] = SpliceOf(type, t, m[kids[i]])
  <2> HIDE DEF below
  <2>1. QED
    BY <1>1, <1>6 DEF OperandLists, SpliceOf
<1> HIDE DEF ss
<1>9. QED
  BY <1>1, <1>3, <1>5, <1>7, <1>8 DEF NonEmptySeqs, ss, ids

\* Entries of what is merged for the operands that s shows.
Covered(g, m, t, n, s) ==
  {y \in Nat : \E j \in 1..Len(s) : Occurs(y, SpliceOf(g[n].type, t, m[s[j]]))}

\* If the nested collections show what is merged for them, so does the collection.
LEMMA CoversMerged ==
  ASSUME NEW g, NEW R, NEW m, NEW t, Traced(g, R, m, t), NothingFolds(g, R),
         NEW o, OpensUp(g, R, o), NEW n \in R, g[n].type \in MergedTypes,
         \A k \in Seq2Set(g[n].kids) : g[k].type = g[n].type => Covers(g, m, t, k, o[k])
  PROVE  Covers(g, m, t, n, o[n])
<1> DEFINE kids == g[n].kids
           type == g[n].type
           ids == MemoIds(m, kids)
           ss == OperandLists(type, ids, PayloadsOf(ids, t))
           tt == OpenedRuns(g, n, o)
           s == o[n]
<1>1. /\ ss \in NonEmptySeqs(NonEmptySeqs(Nat)) /\ Len(ss) = Len(kids)
      /\ MergedInto(g, m, t, n) = FlattenSeq(ss)
      /\ \A i \in 1..Len(kids) : ss[i] = SpliceOf(type, t, m[kids[i]])
      /\ kids \in NonEmptySeqs(R)
  BY MergedRuns
<1> HIDE DEF ss
<1>2. kids \in Seq(R) /\ \A i \in 1..Len(kids) : kids[i] \in R /\ kids[i] \in Seq2Set(kids)
  BY <1>1, ElementOfSeq DEF NonEmptySeqs, Seq2Set
<1>3. \A i \in 1..Len(kids) : tt[i] = IF g[kids[i]].type = type THEN o[kids[i]] ELSE << kids[i] >>
  BY DEF OpenedRuns
<1>4. \A i \in 1..Len(kids) : g[kids[i]].type = type => o[kids[i]] \in NonEmptySeqs(R)
  BY <1>2 DEF OpensUp, NonEmptySeqs
<1>5. /\ tt \in NonEmptySeqs(NonEmptySeqs(R)) /\ Len(tt) = Len(kids)
      /\ Len(kids) \in Nat \ {0}
  BY <1>1, <1>4, RunsTyped
<1>6. s = FlattenSeq(tt)
  BY OperandsAre DEF OpensUp, Opens
<1> HIDE DEF tt, s
<1>7. ASSUME NEW i \in 1..Len(kids) PROVE RunCovers(g, m, t, n, ss[i], tt[i])
  <2> DEFINE k == kids[i]
             run == ss[i]
             tops == tt[i]
  <2>1. /\ k \in R /\ k \in Seq2Set(kids) /\ run = SpliceOf(type, t, m[k])
        /\ g[k].type = type => Covers(g, m, t, k, tops)
        /\ g[k].type # type => tops = << k >>
    BY <1>1, <1>2, <1>3, <1>7
  <2> HIDE DEF k, run, tops
  <2>2. RunCovers(g, m, t, n, run, tops)
    BY <2>1, RunCovered
  <2>3. QED
    BY <2>2 DEF run, tops
<1>8. ASSUME NEW x \in Nat
      PROVE  CountUpTo(x, MergedInto(g, m, t, n)) = FoldOf("Add", Spans(x, type, m, t), s)
  <2> DEFINE W == Spans(x, type, m, t)
  <2>1. CombinableOn(R, "Add", "scalar", W)
    BY SpansAdd
  <2>2. \A i \in 1..Len(ss) : CountUpTo(x, ss[i]) = FoldOf("Add", W, tt[i])
    BY <1>1, <1>7 DEF RunCovers
  <2>3. Len(tt) = Len(ss)
    BY <1>1, <1>5
  <2> HIDE DEF W
  <2>4. CountUpTo(x, FlattenSeq(ss)) = FoldOf("Add", W, FlattenSeq(tt))
    BY <1>1, <1>5, <2>1, <2>2, <2>3, SameCountRuns
  <2>5. QED
    BY <1>1, <1>6, <2>4 DEF W
<1>9. ASSUME NEW y, Occurs(y, MergedInto(g, m, t, n))
      PROVE  \E j \in 1..Len(s) : Occurs(y, SpliceOf(type, t, m[s[j]]))
  <2> DEFINE T == Covered(g, m, t, n, s)
  <2>1. \A i \in 1..Len(ss) : ss[i] \in NonEmptySeqs(Nat)
    BY <1>1, ElementOfSeq DEF NonEmptySeqs
  <2>2. ASSUME NEW i \in 1..Len(ss), NEW j \in 1..Len(ss[i]) PROVE ss[i][j] \in T
    <3>1. ss[i] \in Seq(Nat)
      BY <2>1 DEF NonEmptySeqs
    <3>2. ss[i][j] \in Nat /\ Occurs(ss[i][j], ss[i]) /\ i \in 1..Len(kids)
      BY <1>1, <3>1, ElementOfSeq DEF Occurs
    <3>3. PICK h \in 1..Len(tt[i]) : Occurs(ss[i][j], SpliceOf(type, t, m[tt[i][h]]))
      BY <1>7, <3>2 DEF RunCovers
    <3>4. Occurs(tt[i][h], tt[i]) /\ i \in 1..Len(tt)
      BY <1>5, <3>2 DEF Occurs
    <3>5. Occurs(tt[i][h], s)
      BY <1>5, <1>6, <3>4, FlattenContains
    <3>6. PICK e \in 1..Len(s) : s[e] = tt[i][h]
      BY <3>5 DEF Occurs
    <3>7. QED
      BY <3>2, <3>3, <3>6 DEF Covered
  <2> HIDE DEF T
  <2>3. RunsWithin(ss, T)
    BY <2>2 DEF RunsWithin
  <2>4. \A e \in 1..Len(FlattenSeq(ss)) : FlattenSeq(ss)[e] \in T
    BY <1>1, <2>3, FlattenWithin
  <2>5. y \in T
    BY <1>1, <1>9, <2>4 DEF Occurs
  <2>6. QED
    BY <2>5 DEF T, Covered
<1>10. QED
  BY <1>8, <1>9 DEF Covers, s

\* Every collection shows what is merged into it, however deeply it is nested.
LEMMA AllCovered ==
  ASSUME NEW g, NEW R, NEW m, NEW t, Traced(g, R, m, t), NothingFolds(g, R),
         NEW o, OpensUp(g, R, o)
  PROVE  \A n \in R : g[n].type \in MergedTypes => Covers(g, m, t, n, o[n])
<1> DEFINE Bad == {n \in R : g[n].type \in MergedTypes /\ ~Covers(g, m, t, n, o[n])}
<1>1. ASSUME Bad # {} PROVE FALSE
  <2>1. PICK n \in Bad : Seq2Set([x \in R |-> g[x].kids][n]) \cap Bad = {}
    BY <1>1 DEF Traced, Grounded
  <2>2. n \in R /\ g[n].type \in MergedTypes /\ ~Covers(g, m, t, n, o[n])
    OBVIOUS
  <2>3. Seq2Set(g[n].kids) \cap Bad = {}
    BY <2>1, <2>2
  <2>4. Seq2Set(g[n].kids) \subseteq R
    <3>1. Len(g[n].kids) \in Nat /\ \A i \in 1..Len(g[n].kids) : g[n].kids[i] \in R
      BY <2>2, TracedObject
    <3>2. QED
      BY <3>1 DEF Seq2Set
  <2>5. \A k \in Seq2Set(g[n].kids) : g[k].type = g[n].type => Covers(g, m, t, k, o[k])
    BY <2>2, <2>3, <2>4
  <2> HIDE DEF Bad
  <2>6. QED
    BY <2>2, <2>5, CoversMerged
<1>2. QED
  BY <1>1

-----------------------------------------------------------------------------
(* What the laws call equal.                                               *)

\* Every order is a rearrangement.
LEMMA OrderFacts ==
  ASSUME NEW type, NEW k \in Nat, NEW order \in Orders(type, k)
  PROVE  /\ order \in [1..k -> 1..k]
         /\ \A j \in 1..k : \E i \in 1..k : order[i] = j
         /\ type \notin MergedTypes \cup {"Multiply"} => \A i \in 1..k : order[i] = i
BY DEF Orders, Bijection, Surjection

\* Matching depends on which operands are equal, and on nothing else.
LEMMA MatchesMore ==
  ASSUME NEW g, NEW A, NEW B, NEW as \in Seq(A), NEW bs \in Seq(B), NEW l, NEW r,
         NEW u, NEW w, \A q \in A \X B : u[q] => w[q],
         Matches(g, u, l, r, as, bs)
  PROVE  Matches(g, w, l, r, as, bs)
<1> DEFINE k == Len(as)
<1>1. k \in Nat /\ Len(bs) = k
  BY LenProperties DEF Matches
<1>2. (\A i \in 1..k : as[i] \in A) /\ (\A i \in 1..k : bs[i] \in B)
  BY <1>1, ElementOfSeq
<1>3. PICK order \in Orders(g[l].type, k) : \A i \in 1..k : u[<<as[order[i]], bs[i]>>]
  BY DEF Matches
<1>4. \A i \in 1..k : order[i] \in 1..k
  BY <1>1, OrderFacts
<1>5. \A i \in 1..k : <<as[order[i]], bs[i]>> \in A \X B
  BY <1>2, <1>4
<1>6. \A i \in 1..k : w[<<as[order[i]], bs[i]>>]
  BY <1>3, <1>5
<1>7. <<g[l].type, g[l].unit, g[l].val, g[l].op>> = <<g[r].type, g[r].unit, g[r].val, g[r].op>>
  BY DEF Matches
<1> HIDE DEF k
<1>8. QED
  BY <1>1, <1>3, <1>6, <1>7 DEF Matches, k

Listed(o, S) == \A n \in S : o[n] \in Seq(S)

\* A set of pairs as a function.
AsPairs(A, B, M) == [q \in A \X B |-> q \in M]

\* The pairs of M match.
Supported(g, A, B, lo, ro, M) ==
  \A p \in M : Matches(g, AsPairs(A, B, M), p[1], p[2], lo[p[1]], ro[p[2]])

LEMMA SupportGrows ==
  ASSUME NEW g, NEW A, NEW B, NEW lo, NEW ro, Listed(lo, A), Listed(ro, B),
         NEW M \in SUBSET (A \X B), NEW N \in SUBSET (A \X B), M \subseteq N,
         NEW p \in A \X B,
         Matches(g, AsPairs(A, B, M), p[1], p[2], lo[p[1]], ro[p[2]])
  PROVE  Matches(g, AsPairs(A, B, N), p[1], p[2], lo[p[1]], ro[p[2]])
<1> DEFINE u == AsPairs(A, B, M)
           w == AsPairs(A, B, N)
           l == p[1]
           r == p[2]
           as == lo[l]
           bs == ro[r]
<1>1. as \in Seq(A) /\ bs \in Seq(B)
  BY DEF Listed
<1>2. \A q \in A \X B : u[q] => w[q]
  BY DEF AsPairs
<1>3. Matches(g, u, l, r, as, bs)
  OBVIOUS
<1> HIDE DEF u, w, l, r, as, bs
<1>4. Matches(g, w, l, r, as, bs)
  BY <1>1, <1>2, <1>3, MatchesMore
<1>5. QED
  BY <1>4 DEF w, l, r, as, bs

\* f says of every pair whether it matches, given what f says.
SaysEqual(g, A, B, lo, ro, f) ==
  \A p \in A \X B : f[p] = Matches(g, f, p[1], p[2], lo[p[1]], ro[p[2]])

TellsPairs(g, A, B, lo, ro, f) ==
  f = [p \in A \X B |-> Matches(g, f, p[1], p[2], lo[p[1]], ro[p[2]])]

\* There is such a function: all the pairs that support each other match.
LEMMA PairsExist ==
  ASSUME NEW g, NEW A, NEW B, NEW lo, NEW ro, Listed(lo, A), Listed(ro, B)
  PROVE  \E f : TellsPairs(g, A, B, lo, ro, f)
<1> DEFINE Sets == {M \in SUBSET (A \X B) : Supported(g, A, B, lo, ro, M)}
           All == UNION Sets
           f == AsPairs(A, B, All)
<1>1. All \in SUBSET (A \X B) /\ \A M \in Sets : M \subseteq All
  OBVIOUS
<1>2. ASSUME NEW p \in All
      PROVE  Matches(g, f, p[1], p[2], lo[p[1]], ro[p[2]])
  <2>1. PICK M \in Sets : p \in M
    OBVIOUS
  <2>2. /\ Matches(g, AsPairs(A, B, M), p[1], p[2], lo[p[1]], ro[p[2]])
        /\ p \in A \X B /\ M \in SUBSET (A \X B) /\ M \subseteq All
    BY <1>1, <2>1 DEF Supported
  <2> HIDE DEF Sets, All
  <2>3. QED
    BY <1>1, <2>2, SupportGrows
<1>3. ASSUME NEW p \in A \X B, Matches(g, f, p[1], p[2], lo[p[1]], ro[p[2]])
      PROVE  p \in All
  <2> DEFINE N == All \cup {p}
  <2>1. N \in SUBSET (A \X B) /\ All \subseteq N
    BY <1>1
  <2>2. ASSUME NEW q \in N
        PROVE  Matches(g, AsPairs(A, B, N), q[1], q[2], lo[q[1]], ro[q[2]])
    <3>1. q \in A \X B /\ Matches(g, f, q[1], q[2], lo[q[1]], ro[q[2]])
      BY <1>2, <1>3, <2>1
    <3> HIDE DEF N, All
    <3>2. QED
      BY <1>1, <2>1, <3>1, SupportGrows DEF f
  <2>3. N \in Sets
    BY <2>1, <2>2 DEF Supported
  <2>4. QED
    BY <1>1, <2>3
<1> HIDE DEF All
<1>4. ASSUME NEW p \in A \X B
      PROVE  f[p] = Matches(g, f, p[1], p[2], lo[p[1]], ro[p[2]])
  <2>1. f[p] = (p \in All)
    BY DEF AsPairs
  <2>2. Matches(g, f, p[1], p[2], lo[p[1]], ro[p[2]]) \in BOOLEAN
    BY DEF Matches
  <2> HIDE DEF f
  <2>3. QED
    BY <1>2, <1>3, <2>1, <2>2
<1>5. f = [p \in A \X B |-> f[p]]
  BY DEF AsPairs
<1> HIDE DEF f
<1>6. f = [p \in A \X B |-> Matches(g, f, p[1], p[2], lo[p[1]], ro[p[2]])]
  BY <1>4, <1>5
<1>7. QED
  BY <1>6 DEF TellsPairs

\* EqualPairs is such a function.
LEMMA PairsChosen ==
  ASSUME NEW g, NEW A, NEW B, Listed(OpenedUp(g, A), A), Listed(OpenedUp(g, B), B)
  PROVE  SaysEqual(g, A, B, OpenedUp(g, A), OpenedUp(g, B), EqualPairs(g, A, B))
<1> DEFINE lo == OpenedUp(g, A)
           ro == OpenedUp(g, B)
           Eq(f) == f = [p \in A \X B |-> Matches(g, f, p[1], p[2], lo[p[1]], ro[p[2]])]
           w == EqualPairs(g, A, B)
<1>1. w = CHOOSE f : Eq(f)
  BY DEF EqualPairs
<1>2. \E f : Eq(f)
  <2> HIDE DEF lo, ro
  <2>1. Listed(lo, A) /\ Listed(ro, B)
    BY DEF lo, ro
  <2>2. PICK f : TellsPairs(g, A, B, lo, ro, f)
    BY <2>1, PairsExist
  <2>3. QED
    BY <2>2 DEF TellsPairs
<1> HIDE DEF w, Eq
<1>3. Eq(w)
  BY <1>1, <1>2
<1>4. \A p \in A \X B : w[p] = Matches(g, w, p[1], p[2], lo[p[1]], ro[p[2]])
  BY <1>3 DEF Eq
<1>5. QED
  BY <1>4 DEF SaysEqual, w

-----------------------------------------------------------------------------
(* What two tables have in common: the largest part that both hold, with   *)
(* all it refers to.                                                       *)

\* The tables agree on S, and S on its references.
Shared(t1, t2, S) == \A id \in S : t1[id] = t2[id] /\ t1[id].kids \in Seq(S)

Common(t1, t2) == UNION {S \in SUBSET (DOMAIN t1 \cap DOMAIN t2) : Shared(t1, t2, S)}
CommonTable(t1, t2) == [id \in Common(t1, t2) |-> t1[id]]

LEMMA CommonFacts ==
  ASSUME NEW t1, NEW t2
  PROVE  /\ Common(t1, t2) \subseteq DOMAIN t1 /\ Common(t1, t2) \subseteq DOMAIN t2
         /\ \A id \in Common(t1, t2) :
              t1[id] = t2[id] /\ t1[id].kids \in Seq(Common(t1, t2))
<1> DEFINE C == Common(t1, t2)
<1>1. C \subseteq DOMAIN t1 /\ C \subseteq DOMAIN t2
  BY DEF Common
<1>2. ASSUME NEW id \in C PROVE t1[id] = t2[id] /\ t1[id].kids \in Seq(C)
  <2>1. PICK S \in SUBSET (DOMAIN t1 \cap DOMAIN t2) : Shared(t1, t2, S) /\ id \in S
    BY DEF Common
  <2>2. S \subseteq C
    BY <2>1 DEF Common
  <2>3. t1[id] = t2[id] /\ t1[id].kids \in Seq(S)
    BY <2>1 DEF Shared
  <2> HIDE DEF C
  <2>4. QED
    BY <2>2, <2>3, WiderSeq
<1>3. QED
  BY <1>1, <1>2

LEMMA CommonJoins ==
  ASSUME NEW t1, NEW t2, NEW id \in DOMAIN t1 \cap DOMAIN t2,
         t1[id] = t2[id], t1[id].kids \in Seq(Common(t1, t2))
  PROVE  id \in Common(t1, t2)
<1> DEFINE C == Common(t1, t2)
           S == C \cup {id}
<1>1. C \subseteq S /\ S \in SUBSET (DOMAIN t1 \cap DOMAIN t2)
  BY CommonFacts
<1>2. \A x \in S : t1[x] = t2[x] /\ t1[x].kids \in Seq(C)
  BY CommonFacts
<1> HIDE DEF C, S
<1>3. \A x \in S : t1[x] = t2[x] /\ t1[x].kids \in Seq(S)
  BY <1>1, <1>2, WiderSeq
<1>4. Shared(t1, t2, S)
  BY <1>3 DEF Shared
<1>5. id \in S
  BY DEF S
<1>6. QED
  BY <1>1, <1>4, <1>5 DEF Common

LEMMA CommonTyped ==
  ASSUME NEW t1, NEW t2, TableIn(t1)
  PROVE  /\ DOMAIN CommonTable(t1, t2) = Common(t1, t2)
         /\ TableIn(CommonTable(t1, t2))
         /\ Grows(CommonTable(t1, t2), t1) /\ Grows(CommonTable(t1, t2), t2)
<1> DEFINE C == Common(t1, t2)
           c == CommonTable(t1, t2)
<1>1. DOMAIN c = C /\ \A id \in C : c[id] = t1[id]
  BY DEF CommonTable
<1>2. /\ C \subseteq DOMAIN t1 /\ C \subseteq DOMAIN t2
      /\ \A id \in C : t1[id] = t2[id] /\ t1[id].kids \in Seq(C)
  BY CommonFacts
<1> HIDE DEF C, c
<1>3. Grows(c, t1) /\ Grows(c, t2)
  BY <1>1, <1>2 DEF Grows
<1>4. ASSUME NEW id \in C PROVE PayloadIn(c[id], c)
  <2> DEFINE p == t1[id]
  <2>1. PayloadIn(p, t1) /\ c[id] = p /\ p.kids \in Seq(DOMAIN c)
    BY <1>1, <1>2 DEF TableIn
  <2> HIDE DEF p
  <2>2. PayloadsOf(p.kids, t1) = PayloadsOf(p.kids, c)
    BY <1>3, <2>1, SamePayloads
  <2>3. PayloadIn(p, c)
    BY <2>1, <2>2 DEF PayloadIn
  <2>4. QED
    BY <2>1, <2>3
<1>5. DOMAIN c \subseteq Nat
  BY <1>1, <1>2 DEF TableIn
<1>6. TableIn(c)
  BY <1>1, <1>4, <1>5 DEF TableIn
<1>7. QED
  BY <1>1, <1>3, <1>6 DEF C, c

-----------------------------------------------------------------------------
(* What _build_payload reads of an object.                                 *)

SameFields(a, b) == a.type = b.type /\ a.unit = b.unit /\ a.val = b.val /\ a.op = b.op

LEMMA OperatorReads ==
  ASSUME NEW a, NEW b, SameFields(a, b), NEW ids, NEW kids
  PROVE  OperatorPayload(a, ids, kids) = OperatorPayload(b, ids, kids)
<1>1. \A num, kept : Fold(a, num, kept) = Fold(b, num, kept)
  BY DEF Fold, SameFields
<1>2. a.type = b.type /\ a.unit = b.unit /\ a.val = b.val /\ a.op = b.op
  BY DEF SameFields
<1>3. QED
  BY <1>1, <1>2 DEF OperatorPayload

LEMMA CollectionReads ==
  ASSUME NEW a, NEW b, SameFields(a, b), NEW ids, NEW kids
  PROVE  CollectionPayload(a, ids, kids) = CollectionPayload(b, ids, kids)
<1>1. \A num, kept : Fold(a, num, kept) = Fold(b, num, kept)
  BY DEF Fold, SameFields
<1>2. a.type = b.type /\ a.unit = b.unit /\ a.val = b.val /\ a.op = b.op
  BY DEF SameFields
<1>3. QED
  BY <1>1, <1>2 DEF CollectionPayload

\* The factors of a product in the other order.
LEMMA ProductSwapped ==
  ASSUME NEW t, TableIn(t), NEW rec, rec.type = "Multiply",
         NEW x \in DOMAIN t, NEW y \in DOMAIN t
  PROVE  OperatorPayload(rec, <<x, y>>, PayloadsOf(<<x, y>>, t))
           = OperatorPayload(rec, <<y, x>>, PayloadsOf(<<y, x>>, t))
<1> DEFINE ids == <<x, y>>
           swap == <<y, x>>
           kids == PayloadsOf(ids, t)
           skids == PayloadsOf(swap, t)
<1>1. Len(ids) = 2 /\ Len(swap) = 2 /\ ids[1] = x /\ ids[2] = y /\ swap[1] = y /\ swap[2] = x
  OBVIOUS
<1>2. ids \in Seq(DOMAIN t) /\ swap \in Seq(DOMAIN t)
  OBVIOUS
<1> HIDE DEF ids, swap
<1>3. Len(kids) = 2 /\ kids[1] = t[x] /\ kids[2] = t[y]
  BY <1>1, <1>2, PayloadsFacts
<1>4. Len(skids) = 2 /\ skids[1] = t[y] /\ skids[2] = t[x]
  BY <1>1, <1>2, PayloadsFacts
<1> HIDE DEF kids, skids
<1>5. x \in Nat /\ y \in Nat /\ t[x].num \in Decimals /\ t[y].num \in Decimals
  BY DEF TableIn, PayloadIn
<1>6. Factors(ids) = Factors(swap)
  <2>1. CASE x < y
    BY <1>1, <1>5, <2>1 DEF Factors
  <2>2. CASE y < x
    BY <1>1, <1>5, <2>2 DEF Factors
  <2>3. CASE x = y
    BY <1>1, <1>5, <2>3 DEF Factors
  <2>4. QED
    BY <1>5, <2>1, <2>2, <2>3
<1>7. AllLiterals(kids) <=> AllLiterals(skids)
  <2>1. AllLiterals(kids) <=> IsLiteral(t[x]) /\ IsLiteral(t[y])
    BY <1>3 DEF AllLiterals
  <2>2. AllLiterals(skids) <=> IsLiteral(t[x]) /\ IsLiteral(t[y])
    BY <1>4 DEF AllLiterals
  <2>3. QED
    BY <2>1, <2>2
<1>8. ExactMul(kids[1].num, kids[2].num) = ExactMul(skids[1].num, skids[2].num)
  BY <1>3, <1>4, <1>5, MulCommutes
<1> DEFINE product(s) == Payload(rec.type, Factors(s), "none", 0, DecZero, "")
<1>9. OperatorPayload(rec, ids, kids)
        = IF AllLiterals(kids)
          THEN Fold(rec, ExactMul(kids[1].num, kids[2].num), product(ids))
          ELSE product(ids)
  BY DEF OperatorPayload
<1>10. OperatorPayload(rec, swap, skids)
        = IF AllLiterals(skids)
          THEN Fold(rec, ExactMul(skids[1].num, skids[2].num), product(swap))
          ELSE product(swap)
  BY DEF OperatorPayload
<1>11. product(ids) = product(swap)
  BY <1>6
<1> HIDE DEF product
<1>12. OperatorPayload(rec, ids, kids) = OperatorPayload(rec, swap, skids)
  BY <1>7, <1>8, <1>9, <1>10, <1>11
<1>13. QED
  BY <1>12 DEF ids, swap, kids, skids

-----------------------------------------------------------------------------
(* Objects that the laws call equal have one payload, under one digest.    *)

\* An operand that an object shows is a child of it, or shown by a child.
LEMMA OpenedEntries ==
  ASSUME NEW g, NEW R, NEW o, OpensUp(g, R, o), NEW n \in R, g[n].kids \in Seq(R),
         g[n].type \in MergedTypes => g[n].kids # << >>,
         NEW e, Occurs(e, o[n])
  PROVE  \E k \in Seq2Set(g[n].kids) : e = k \/ Occurs(e, o[k])
<1> DEFINE kids == g[n].kids
           K == Seq2Set(kids)
           tt == OpenedRuns(g, n, o)
           T == {x \in R : \E k \in K : x = k \/ Occurs(x, o[k])}
<1>1. o[n] = IF g[n].type \in MergedTypes THEN FlattenSeq(tt) ELSE kids
  BY OperandsAre DEF OpensUp, Opens
<1>2. \A i \in 1..Len(kids) : kids[i] \in R /\ kids[i] \in K
  BY ElementOfSeq DEF Seq2Set
<1>3. CASE g[n].type \notin MergedTypes
  <2>1. o[n] = kids
    BY <1>1, <1>3
  <2>2. PICK i \in 1..Len(kids) : kids[i] = e
    BY <2>1 DEF Occurs
  <2>3. QED
    BY <1>2, <2>2
<1>4. CASE g[n].type \in MergedTypes
  <2>1. kids \in NonEmptySeqs(R)
    BY <1>4 DEF NonEmptySeqs
  <2>2. \A i \in 1..Len(kids) : g[kids[i]].type = g[n].type => o[kids[i]] \in NonEmptySeqs(R)
    BY <1>2, <1>4 DEF OpensUp, NonEmptySeqs
  <2>3. /\ tt \in NonEmptySeqs(NonEmptySeqs(R)) /\ Len(tt) = Len(kids)
        /\ Len(kids) \in Nat \ {0}
    BY <2>1, <2>2, RunsTyped
  <2>4. \A i \in 1..Len(kids) :
          tt[i] = IF g[kids[i]].type = g[n].type THEN o[kids[i]] ELSE << kids[i] >>
    BY DEF OpenedRuns
  <2>5. ASSUME NEW i \in 1..Len(kids), NEW j \in 1..Len(tt[i]) PROVE tt[i][j] \in T
    <3>1. kids[i] \in R /\ kids[i] \in K
      BY <1>2
    <3>2. CASE tt[i] = << kids[i] >>
      <4>1. j = 1 /\ tt[i][j] = kids[i]
        BY <3>2
      <4>2. QED
        BY <3>1, <4>1
    <3>3. CASE tt[i] = o[kids[i]]
      <4>1. o[kids[i]] \in Seq(R)
        BY <3>1 DEF OpensUp
      <4>2. tt[i][j] \in R
        BY <3>3, <4>1, ElementOfSeq
      <4>3. Occurs(tt[i][j], o[kids[i]])
        BY <3>3 DEF Occurs
      <4>4. QED
        BY <3>1, <4>2, <4>3
    <3>4. QED
      BY <2>4, <3>2, <3>3
  <2> HIDE DEF tt, T
  <2>6. RunsWithin(tt, T)
    BY <2>3, <2>5 DEF RunsWithin
  <2>7. \A j \in 1..Len(FlattenSeq(tt)) : FlattenSeq(tt)[j] \in T
    BY <2>3, <2>6, FlattenWithin
  <2>8. e \in T
    BY <1>1, <1>4, <2>7 DEF Occurs
  <2>9. QED
    BY <2>8 DEF T
<1>5. QED
  BY <1>3, <1>4

\* Two calls under one digest function.
TracedTwice(g, A, m1, t1, B, m2, t2, answered) ==
  /\ Traced(g, A, m1, t1) /\ Traced(g, B, m2, t2)
  /\ ContentAddressed(t1, answered) /\ ContentAddressed(t2, answered)

\* l and r have one payload, with all it refers to.
Agreed(m1, t1, m2, t2, l, r) == m1[l] = m2[r] /\ m1[l] \in Common(t1, t2)

\* One payload has one digest.
LEMMA SamePayloadAgreed ==
  ASSUME NEW g, NEW A, NEW m1, NEW t1, NEW B, NEW m2, NEW t2, NEW answered,
         TracedTwice(g, A, m1, t1, B, m2, t2, answered),
         NEW l \in A, NEW r \in B, t1[m1[l]] = t2[m2[r]],
         t1[m1[l]].kids \in Seq(Common(t1, t2))
  PROVE  Agreed(m1, t1, m2, t2, l, r)
<1>1. m1[l] \in DOMAIN t1 /\ m2[r] \in DOMAIN t2
  BY DEF TracedTwice, Traced, Accounted
<1>2. answered[t1[m1[l]]] = m1[l] /\ answered[t2[m2[r]]] = m2[r]
  BY <1>1 DEF TracedTwice, ContentAddressed
<1>3. m1[l] = m2[r]
  BY <1>2
<1>4. m1[l] \in Common(t1, t2)
  BY <1>1, <1>3, CommonJoins
<1>5. QED
  BY <1>3, <1>4 DEF Agreed

\* The operands as and bs agree, in the order that matches them.
Matched(m1, t1, m2, t2, order, as, bs) ==
  \A i \in 1..Len(as) : Agreed(m1, t1, m2, t2, as[order[i]], bs[i])

LEMMA SeqOfTwo ==
  ASSUME NEW S, NEW s \in Seq(S), Len(s) = 2
  PROVE  s = <<s[1], s[2]>>
<1>1. s[1] \in S /\ s[2] \in S
  BY ElementOfSeq
<1> DEFINE q == <<s[1], s[2]>>
<1>2. q \in Seq(S) /\ Len(q) = 2 /\ q[1] = s[1] /\ q[2] = s[2]
  BY <1>1
<1> HIDE DEF q
<1>3. \A i \in 1..Len(s) : s[i] = q[i]
  BY <1>2
<1>4. s = q
  BY <1>2, <1>3, SeqEqual
<1>5. QED
  BY <1>4 DEF q

\* Operators that take their operands as they are.
LEMMA OperatorsAgree ==
  ASSUME NEW g, NEW A, NEW m1, NEW t1, NEW B, NEW m2, NEW t2, NEW answered,
         TracedTwice(g, A, m1, t1, B, m2, t2, answered),
         NEW l \in A, NEW r \in B, SameFields(g[l], g[r]), g[l].type \notin MergedTypes,
         Len(g[l].kids) = Len(g[r].kids), NEW order \in Orders(g[l].type, Len(g[l].kids)),
         Matched(m1, t1, m2, t2, order, g[l].kids, g[r].kids)
  PROVE  Agreed(m1, t1, m2, t2, l, r)
<1> DEFINE as == g[l].kids
           bs == g[r].kids
           ids == MemoIds(m1, as)
           jds == MemoIds(m2, bs)
           k == Len(as)
           C == Common(t1, t2)
           c == CommonTable(t1, t2)
<1>1. /\ ids \in Seq(DOMAIN t1) /\ SourceOK(g[l], ids) /\ Len(ids) = k /\ k \in Nat
      /\ t1[m1[l]] = PayloadOf(g[l], ids, t1)
      /\ \A i \in 1..k : ids[i] = m1[as[i]]
  BY TracedObject DEF TracedTwice
<1>2. /\ jds \in Seq(DOMAIN t2) /\ Len(jds) = k
      /\ t2[m2[r]] = PayloadOf(g[r], jds, t2)
      /\ \A i \in 1..k : jds[i] = m2[bs[i]]
  BY TracedObject DEF TracedTwice
<1>3. /\ DOMAIN c = C /\ TableIn(c) /\ Grows(c, t1) /\ Grows(c, t2)
  BY CommonTyped DEF TracedTwice, Traced
<1>4. /\ order \in [1..k -> 1..k]
      /\ \A j \in 1..k : \E i \in 1..k : order[i] = j
      /\ g[l].type # "Multiply" => \A i \in 1..k : order[i] = i
  <2> DEFINE type == g[l].type
  <2>1. k \in Nat /\ order \in Orders(type, k) /\ type \notin MergedTypes
    BY <1>1
  <2> HIDE DEF k, type
  <2>2. /\ order \in [1..k -> 1..k]
        /\ \A j \in 1..k : \E i \in 1..k : order[i] = j
        /\ type \notin MergedTypes \cup {"Multiply"} => \A i \in 1..k : order[i] = i
    BY <2>1, OrderFacts
  <2>3. QED
    BY <2>1, <2>2 DEF type
<1> HIDE DEF ids, jds, C, c
<1>5. \A i \in 1..k : jds[i] = ids[order[i]] /\ jds[i] \in C
  <2>1. ASSUME NEW i \in 1..k PROVE jds[i] = ids[order[i]] /\ jds[i] \in C
    <3>1. order[i] \in 1..k
      BY <1>4
    <3>2. m1[as[order[i]]] = m2[bs[i]] /\ m1[as[order[i]]] \in C
      BY DEF Matched, Agreed, C
    <3>3. ids[order[i]] = m1[as[order[i]]]
      BY <1>1, <3>1
    <3>4. jds[i] = m2[bs[i]]
      BY <1>2
    <3>5. QED
      BY <3>2, <3>3, <3>4
  <2>2. QED
    BY <2>1
<1>6. \A j \in 1..k : ids[j] \in C
  BY <1>4, <1>5
<1> HIDE DEF k
<1>7. ids \in Seq(DOMAIN c) /\ jds \in Seq(DOMAIN c)
  BY <1>1, <1>2, <1>3, <1>5, <1>6, NarrowerSeq
<1>8. t1[m1[l]] = OperatorPayload(g[l], ids, PayloadsOf(ids, c))
  BY <1>1, <1>3, <1>7, SamePayloads DEF PayloadOf
<1>9. t2[m2[r]] = OperatorPayload(g[r], jds, PayloadsOf(jds, c))
  BY <1>2, <1>3, <1>7, SamePayloads DEF PayloadOf, SameFields
<1>10. t2[m2[r]] = OperatorPayload(g[l], jds, PayloadsOf(jds, c))
  BY <1>9, OperatorReads
<1>11. PayloadIn(t1[m1[l]], c)
  BY <1>1, <1>3, <1>7, <1>8, OperatorIn
<1>12. t1[m1[l]].kids \in Seq(C)
  BY <1>3, <1>11 DEF PayloadIn
<1>13. t1[m1[l]] = t2[m2[r]]
  <2>1. CASE ids = jds
    BY <1>8, <1>10, <2>1
  <2>2. CASE ids # jds
    <3>1. g[l].type = "Multiply"
      <4>1. SUFFICES ASSUME g[l].type # "Multiply" PROVE FALSE
        OBVIOUS
      <4>2. \A i \in 1..k : jds[i] = ids[i]
        BY <1>4, <1>5, <4>1
      <4>3. jds = ids
        BY <1>1, <1>2, <1>7, <4>2, SeqEqual
      <4>4. QED
        BY <2>2, <4>3
    <3>2. k = 2
      <4>1. g[l].type \in DOMAIN Arity /\ Arity[g[l].type] = 2
        BY <3>1 DEF Arity
      <4>2. QED
        BY <1>1, <4>1 DEF SourceOK
    <3>3. ids = <<ids[1], ids[2]>> /\ jds = <<jds[1], jds[2]>>
      BY <1>1, <1>2, <1>7, <3>2, SeqOfTwo
    <3>4. \/ jds[1] = ids[1] /\ jds[2] = ids[2]
          \/ jds[1] = ids[2] /\ jds[2] = ids[1]
      <4>1. order[1] \in {1, 2} /\ order[2] \in {1, 2}
        BY <1>4, <3>2
      <4>2. order[1] # order[2]
        BY <1>4, <3>2
      <4>3. QED
        BY <1>5, <3>2, <4>1, <4>2
    <3>5. jds = <<ids[2], ids[1]>>
      BY <2>2, <3>3, <3>4
    <3>6. ids[1] \in DOMAIN c /\ ids[2] \in DOMAIN c
      BY <1>3, <1>6, <3>2
    <3>7. QED
      BY <1>3, <1>8, <1>10, <3>1, <3>3, <3>5, <3>6, ProductSwapped
  <2>3. QED
    BY <2>1, <2>2
<1>14. QED
  BY <1>12, <1>13, SamePayloadAgreed DEF C

Permutes(order, k) ==
  order \in [1..k -> 1..k] /\ \A j \in 1..k : \E i \in 1..k : order[i] = j

LEMMA OrderPermutes ==
  ASSUME NEW type, NEW k \in Nat, NEW order \in Orders(type, k)
  PROVE  Permutes(order, k)
BY OrderFacts DEF Permutes

\* A permutation of the operands rearranges their values.
LEMMA OrderRearranges ==
  ASSUME NEW k \in Nat, NEW order \in [1..k -> 1..k],
         \A j \in 1..k : \E i \in 1..k : order[i] = j,
         NEW us, NEW vs, \A i \in 1..k : us[order[i]] = vs[i]
  PROVE  \E h : Rearranges(h, k, us, vs)
<1> DEFINE h == [j \in 1..k |-> CHOOSE i \in 1..k : order[i] = j]
<1>1. \A j \in 1..k : h[j] \in 1..k /\ order[h[j]] = j
  OBVIOUS
<1>2. h \in [1..k -> 1..k]
  OBVIOUS
<1> HIDE DEF h
<1>3. \A i, j \in 1..k : h[i] = h[j] => i = j
  BY <1>1
<1>4. \A j \in 1..k : us[j] = vs[h[j]]
  BY <1>1
<1>5. QED
  BY <1>2, <1>3, <1>4 DEF Rearranges

LEMMA ValueOf ==
  ASSUME NEW D, NEW s, Len(s) \in Nat
  PROVE  \A i \in 1..Len(s) : ValuesAt(D, s)[i] = D[s[i]]
BY ValuesFacts

\* Agreeing objects are merged for the same ids.
LEMMA SameSplice ==
  ASSUME NEW m1, NEW t1, NEW m2, NEW t2, NEW l, NEW r, Agreed(m1, t1, m2, t2, l, r),
         NEW type
  PROVE  SpliceOf(type, t1, m1[l]) = SpliceOf(type, t2, m2[r])
<1> DEFINE id == m1[l]
<1>1. id \in Common(t1, t2) /\ id = m2[r]
  BY DEF Agreed
<1> HIDE DEF id
<1>2. t1[id] = t2[id]
  BY <1>1, CommonFacts
<1>3. SpliceOf(type, t1, id) = SpliceOf(type, t2, id)
  BY <1>2 DEF SpliceOf
<1>4. QED
  BY <1>1, <1>3 DEF id

\* Agreeing operands are merged for as many ids.
LEMMA SpansAgree ==
  ASSUME NEW g, NEW A, NEW m1, NEW t1, NEW B, NEW m2, NEW t2, NEW answered,
         TracedTwice(g, A, m1, t1, B, m2, t2, answered),
         NEW type \in MergedTypes, NEW x \in Nat,
         NEW ls \in NonEmptySeqs(A), NEW rs \in NonEmptySeqs(B), Len(ls) = Len(rs),
         NEW order \in Orders(type, Len(ls)), Matched(m1, t1, m2, t2, order, ls, rs)
  PROVE  FoldOf("Add", Spans(x, type, m1, t1), ls) = FoldOf("Add", Spans(x, type, m2, t2), rs)
<1> DEFINE k == Len(ls)
           D == Spans(x, type, m1, t1)
           E == Spans(x, type, m2, t2)
           us == ValuesAt(D, ls)
           vs == ValuesAt(E, rs)
<1>1. /\ k \in Nat \ {0} /\ Len(rs) = k
      /\ \A i \in 1..k : ls[i] \in A
      /\ \A i \in 1..k : rs[i] \in B
  <2>1. ls \in Seq(A) /\ ls # << >> /\ rs \in Seq(B)
    BY DEF NonEmptySeqs
  <2>2. QED
    BY <2>1, LenProperties, EmptySeq, ElementOfSeq
<1>2. DOMAIN m1 = A /\ DOMAIN m2 = B
  BY DEF TracedTwice, Traced
<1>3. order \in [1..k -> 1..k] /\ \A j \in 1..k : \E i \in 1..k : order[i] = j
  <2>1. k \in Nat /\ order \in Orders(type, k)
    BY <1>1
  <2> HIDE DEF k
  <2>2. Permutes(order, k)
    BY <2>1, OrderPermutes
  <2>3. QED
    BY <2>2 DEF Permutes
<1>4. /\ \A i \in 1..k : us[i] = D[ls[i]]
      /\ \A i \in 1..k : vs[i] = E[rs[i]]
  <2>1. Len(ls) \in Nat /\ Len(rs) \in Nat
    BY <1>1
  <2> HIDE DEF D, E, us, vs
  <2>2. us = ValuesAt(D, ls) /\ vs = ValuesAt(E, rs)
    BY DEF us, vs
  <2>3. \A i \in 1..Len(ls) : ValuesAt(D, ls)[i] = D[ls[i]]
    BY <2>1, ValueOf
  <2>4. \A i \in 1..Len(rs) : ValuesAt(E, rs)[i] = E[rs[i]]
    BY <2>1, ValueOf
  <2>5. QED
    BY <1>1, <2>2, <2>3, <2>4
<1>5. ASSUME NEW i \in 1..k PROVE us[order[i]] = vs[i]
  <2>1. order[i] \in 1..k /\ ls[order[i]] \in A /\ rs[i] \in B
    BY <1>1, <1>3
  <2>2. Agreed(m1, t1, m2, t2, ls[order[i]], rs[i])
    BY DEF Matched
  <2>3. SpliceOf(type, t1, m1[ls[order[i]]]) = SpliceOf(type, t2, m2[rs[i]])
    BY <2>2, SameSplice
  <2>5. /\ D[ls[order[i]]] = CountUpTo(x, SpliceOf(type, t1, m1[ls[order[i]]]))
        /\ E[rs[i]] = CountUpTo(x, SpliceOf(type, t2, m2[rs[i]]))
    BY <1>2, <2>1 DEF Spans
  <2>6. D[ls[order[i]]] = E[rs[i]]
    BY <2>3, <2>5
  <2> HIDE DEF D, E, us, vs
  <2>7. QED
    BY <1>4, <2>1, <2>6
<1>6. CombinableOn(B, "Add", "scalar", E)
  <2>1. Traced(g, B, m2, t2)
    BY DEF TracedTwice
  <2>2. QED
    BY <2>1, SpansAdd
<1> HIDE DEF D, E, us, vs
<1>7. Operable("Add", "scalar", vs, k)
  BY <1>1, <1>4, <1>6 DEF Operable, CombinableOn
<1>8. PICK h : Rearranges(h, k, us, vs)
  BY <1>1, <1>3, <1>5, OrderRearranges
<1>9. Folded("Add", us, k) = Folded("Add", vs, k)
  <2>1. "Add" \in MergedTypes
    BY DEF MergedTypes, CollectionTypes
  <2> HIDE DEF k
  <2>2. QED
    BY <1>1, <1>7, <1>8, <2>1, FoldedRearranged
<1>10. QED
  BY <1>1, <1>9 DEF FoldOf, us, vs, D, E

\* The merged operands of a collection.
LEMMA MergedIntoFacts ==
  ASSUME NEW g, NEW R, NEW m, NEW t, Traced(g, R, m, t), NEW n \in R,
         g[n].type \in MergedTypes, NEW f, f = MergedInto(g, m, t, n)
  PROVE  /\ f \in NonEmptySeqs(Nat)
         /\ SortedIds(f) \in Seq(DOMAIN t) /\ SortedIds(f) \in Seq(Nat)
         /\ t[m[n]] = CollectionPayload(g[n], SortedIds(f), PayloadsOf(SortedIds(f), t))
         /\ \A y : Occurs(y, f) <=> Occurs(y, SortedIds(f))
<1> DEFINE ids == MemoIds(m, g[n].kids)
           type == g[n].type
<1>1. ids \in Seq(DOMAIN t) /\ SourceOK(g[n], ids) /\ t[m[n]] = PayloadOf(g[n], ids, t)
  BY TracedObject
<1>2. ids # << >> /\ TableIn(t)
  BY <1>1 DEF SourceOK, Traced
<1>3. f = Flattened(type, ids, PayloadsOf(ids, t))
  BY DEF MergedInto
<1> HIDE DEF ids
<1>4. SortedIds(f) = SortedOperands(type, ids, t)
  BY <1>3 DEF SortedOperands
<1>5. t[m[n]] = CollectionPayload(g[n], SortedIds(f), PayloadsOf(SortedIds(f), t))
  BY <1>1, <1>3 DEF PayloadOf
<1>6. QED
  BY <1>1, <1>2, <1>3, <1>4, <1>5, SortedOperandsFacts DEF NonEmptySeqs

\* Collections whose operands agree.
LEMMA CollectionsAgree ==
  ASSUME NEW g, NEW A, NEW m1, NEW t1, NEW B, NEW m2, NEW t2, NEW answered,
         TracedTwice(g, A, m1, t1, B, m2, t2, answered),
         NEW l \in A, NEW r \in B, SameFields(g[l], g[r]), g[l].type \in MergedTypes,
         NEW ls \in NonEmptySeqs(A), NEW rs \in NonEmptySeqs(B), Len(ls) = Len(rs),
         NEW order \in Orders(g[l].type, Len(ls)), Matched(m1, t1, m2, t2, order, ls, rs),
         Covers(g, m1, t1, l, ls), Covers(g, m2, t2, r, rs)
  PROVE  Agreed(m1, t1, m2, t2, l, r)
<1> DEFINE type == g[l].type
           f1 == MergedInto(g, m1, t1, l)
           f2 == MergedInto(g, m2, t2, r)
           s == SortedIds(f1)
           k == Len(ls)
           C == Common(t1, t2)
           c == CommonTable(t1, t2)
<1>1. Traced(g, A, m1, t1) /\ Traced(g, B, m2, t2) /\ g[r].type = type
  BY DEF TracedTwice, SameFields
<1>2. /\ f1 \in NonEmptySeqs(Nat)
      /\ s \in Seq(DOMAIN t1) /\ s \in Seq(Nat)
      /\ t1[m1[l]] = CollectionPayload(g[l], s, PayloadsOf(s, t1))
      /\ \A y : Occurs(y, f1) <=> Occurs(y, s)
  BY <1>1, MergedIntoFacts
<1>3. /\ f2 \in NonEmptySeqs(Nat)
      /\ t2[m2[r]] = CollectionPayload(g[r], SortedIds(f2), PayloadsOf(SortedIds(f2), t2))
  BY <1>1, MergedIntoFacts
<1>4. SameCounts(f1, f2)
  <2>1. ASSUME NEW x \in Nat PROVE CountUpTo(x, f1) = CountUpTo(x, f2)
    <3>1. CountUpTo(x, f1) = FoldOf("Add", Spans(x, type, m1, t1), ls)
      BY DEF Covers
    <3>2. CountUpTo(x, f2) = FoldOf("Add", Spans(x, type, m2, t2), rs)
      BY <1>1 DEF Covers
    <3>3. FoldOf("Add", Spans(x, type, m1, t1), ls) = FoldOf("Add", Spans(x, type, m2, t2), rs)
      BY <2>1, SpansAgree
    <3>4. QED
      BY <3>1, <3>2, <3>3
  <2>2. QED
    BY <2>1 DEF SameCounts
<1>5. SortedIds(f2) = s
  <2> HIDE DEF f1, f2
  <2>1. SortedIds(f1) = SortedIds(f2)
    BY <1>2, <1>3, <1>4, SortedByCount
  <2>2. QED
    BY <2>1
<1>6. DOMAIN c = C /\ Grows(c, t1) /\ Grows(c, t2)
  BY <1>1, CommonTyped DEF Traced
<1>7. ASSUME NEW j \in 1..k PROVE m1[ls[j]] \in C
  <2>1. k \in Nat /\ order \in Orders(type, k)
    BY LenProperties DEF NonEmptySeqs
  <2>2. PICK i \in 1..k : order[i] = j
    <3> HIDE DEF k, type
    <3>1. QED
      BY <2>1, OrderFacts
  <2>3. QED
    BY <2>2 DEF Matched, Agreed
<1>8. ASSUME NEW i \in 1..Len(s) PROVE s[i] \in C
  <2>1. Occurs(s[i], f1)
    BY <1>2 DEF Occurs
  <2>2. PICK j \in 1..k : Occurs(s[i], SpliceOf(type, t1, m1[ls[j]]))
    BY <2>1 DEF Covers
  <2> DEFINE id == m1[ls[j]]
  <2>3. id \in C /\ t1[id].kids \in Seq(C)
    BY <1>7, CommonFacts
  <2>4. PICK e \in 1..Len(SpliceOf(type, t1, id)) : SpliceOf(type, t1, id)[e] = s[i]
    BY <2>2 DEF Occurs
  <2> HIDE DEF id, C, s
  <2>5. SpliceOf(type, t1, id) \in Seq(C)
    BY <2>3 DEF SpliceOf
  <2>6. QED
    BY <2>4, <2>5, ElementOfSeq
<1> HIDE DEF s, f1, f2, C, c
<1>9. s \in Seq(DOMAIN c)
  BY <1>2, <1>6, <1>8, NarrowerSeq
<1>10. PayloadsOf(s, t1) = PayloadsOf(s, c) /\ PayloadsOf(s, t2) = PayloadsOf(s, c)
  BY <1>6, <1>9, SamePayloads
<1>11. t1[m1[l]] = t2[m2[r]]
  <2> DEFINE below == PayloadsOf(s, c)
  <2>1. t1[m1[l]] = CollectionPayload(g[l], s, below)
    BY <1>2, <1>10
  <2>2. t2[m2[r]] = CollectionPayload(g[r], s, below)
    BY <1>3, <1>5, <1>10
  <2> HIDE DEF below
  <2>3. CollectionPayload(g[l], s, below) = CollectionPayload(g[r], s, below)
    BY CollectionReads
  <2>4. QED
    BY <2>1, <2>2, <2>3
<1>12. t1[m1[l]].kids = s \/ t1[m1[l]].kids = << >>
  BY <1>2, CollectionKids
<1>13. t1[m1[l]].kids \in Seq(C)
  <2>1. s \in Seq(C) /\ << >> \in Seq(C)
    BY <1>6, <1>9, EmptySeq
  <2>2. QED
    BY <1>12, <2>1
<1>14. QED
  BY <1>11, <1>13, SamePayloadAgreed DEF C

\* Whatever the laws call equal to e, agrees with it.
Settled(same, m1, t1, B, m2, t2, e) ==
  \A b \in B : same[<<e, b>>] => Agreed(m1, t1, m2, t2, e, b)

\* What Matches says, as facts.
MatchedUnder(same, order, ls, rs) ==
  \A i \in 1..Len(ls) : same[<<ls[order[i]], rs[i]>>]

LEMMA MatchFacts ==
  ASSUME NEW g, NEW same, NEW l, NEW r, NEW ls, NEW rs, Matches(g, same, l, r, ls, rs)
  PROVE  /\ SameFields(g[l], g[r]) /\ Len(ls) = Len(rs)
         /\ \E order \in Orders(g[l].type, Len(ls)) : MatchedUnder(same, order, ls, rs)
<1> DEFINE a == g[l]
           b == g[r]
<1>1. <<a.type, a.unit, a.val, a.op>> = <<b.type, b.unit, b.val, b.op>>
  BY DEF Matches
<1>2. SameFields(a, b)
  <2> HIDE DEF a, b
  <2>1. QED
    BY <1>1 DEF SameFields
<1>3. Len(ls) = Len(rs)
  BY DEF Matches
<1>4. \E order \in Orders(g[l].type, Len(ls)) : MatchedUnder(same, order, ls, rs)
  BY DEF Matches, MatchedUnder
<1>5. QED
  BY <1>2, <1>3, <1>4

\* Operands that are settled agree in the order that matches them.
LEMMA MatchedSettled ==
  ASSUME NEW A, NEW m1, NEW t1, NEW B, NEW m2, NEW t2, NEW same, NEW type,
         NEW ls \in Seq(A), NEW rs \in Seq(B), Len(ls) = Len(rs),
         NEW order \in Orders(type, Len(ls)), MatchedUnder(same, order, ls, rs),
         \A e \in A : Occurs(e, ls) => Settled(same, m1, t1, B, m2, t2, e)
  PROVE  Matched(m1, t1, m2, t2, order, ls, rs)
<1>1. Len(ls) \in Nat
  BY LenProperties
<1>2. Permutes(order, Len(ls))
  <2> DEFINE k == Len(ls)
  <2>1. k \in Nat /\ order \in Orders(type, k)
    BY <1>1
  <2> HIDE DEF k
  <2>2. Permutes(order, k)
    BY <2>1, OrderPermutes
  <2>3. QED
    BY <2>2 DEF k
<1>3. ASSUME NEW i \in 1..Len(ls)
      PROVE  Agreed(m1, t1, m2, t2, ls[order[i]], rs[i])
  <2>1. order[i] \in 1..Len(ls)
    BY <1>2 DEF Permutes
  <2>2. ls[order[i]] \in A /\ Occurs(ls[order[i]], ls)
    BY <2>1, ElementOfSeq DEF Occurs
  <2>3. rs[i] \in B
    BY ElementOfSeq
  <2>4. same[<<ls[order[i]], rs[i]>>]
    BY DEF MatchedUnder
  <2>5. Settled(same, m1, t1, B, m2, t2, ls[order[i]])
    BY <2>2
  <2>6. QED
    BY <2>3, <2>4, <2>5 DEF Settled
<1>4. QED
  BY <1>3 DEF Matched

\* Objects that match agree, if their operands do.
LEMMA PairAgrees ==
  ASSUME NEW g, NEW A, NEW m1, NEW t1, NEW B, NEW m2, NEW t2, NEW answered,
         TracedTwice(g, A, m1, t1, B, m2, t2, answered),
         NothingFolds(g, A), NothingFolds(g, B),
         NEW lo, OpensUp(g, A, lo), NEW ro, OpensUp(g, B, ro),
         NEW same, NEW l \in A, NEW r \in B, Matches(g, same, l, r, lo[l], ro[r]),
         \A e \in A : Occurs(e, lo[l]) => Settled(same, m1, t1, B, m2, t2, e)
  PROVE  Agreed(m1, t1, m2, t2, l, r)
<1> DEFINE type == g[l].type
           ls == lo[l]
           rs == ro[r]
<1>1. Traced(g, A, m1, t1) /\ Traced(g, B, m2, t2)
  BY DEF TracedTwice
<1>2. ls \in Seq(A) /\ rs \in Seq(B)
  BY DEF OpensUp
<1>3. SameFields(g[l], g[r]) /\ Len(ls) = Len(rs)
  BY MatchFacts
<1>4. PICK order \in Orders(type, Len(ls)) : MatchedUnder(same, order, ls, rs)
  BY MatchFacts
<1>5. Matched(m1, t1, m2, t2, order, ls, rs)
  <2> HIDE DEF type, ls, rs
  <2>1. \A e \in A : Occurs(e, ls) => Settled(same, m1, t1, B, m2, t2, e)
    BY DEF ls
  <2>2. QED
    BY <1>2, <1>3, <1>4, <2>1, MatchedSettled
<1>6. CASE type \in MergedTypes
  <2>1. g[r].type \in MergedTypes
    BY <1>3, <1>6 DEF SameFields
  <2>2. ls \in NonEmptySeqs(A) /\ rs \in NonEmptySeqs(B)
    BY <1>2, <1>6, <2>1 DEF OpensUp, NonEmptySeqs
  <2>3. Covers(g, m1, t1, l, ls)
    BY <1>1, <1>6, AllCovered
  <2>4. Covers(g, m2, t2, r, rs)
    BY <1>1, <2>1, AllCovered
  <2>5. order \in Orders(g[l].type, Len(ls))
    OBVIOUS
  <2> HIDE DEF ls, rs
  <2>6. QED
    BY <1>3, <1>5, <1>6, <2>2, <2>3, <2>4, <2>5, CollectionsAgree
<1>7. CASE type \notin MergedTypes
  <2>1. g[r].type \notin MergedTypes
    BY <1>3, <1>7 DEF SameFields
  <2>2. ls = g[l].kids
    BY <1>7, OperandsAre DEF OpensUp, Opens
  <2>3. rs = g[r].kids
    BY <2>1, OperandsAre DEF OpensUp, Opens
  <2> HIDE DEF ls, rs
  <2>4. /\ Len(g[l].kids) = Len(g[r].kids) /\ order \in Orders(g[l].type, Len(g[l].kids))
        /\ Matched(m1, t1, m2, t2, order, g[l].kids, g[r].kids)
    BY <1>3, <1>4, <1>5, <2>2, <2>3
  <2>5. QED
    BY <1>3, <1>7, <2>4, OperatorsAgree
<1>8. QED
  BY <1>6, <1>7

\* Children first, everything that the laws call equal agrees.
LEMMA EqualAgree ==
  ASSUME NEW g, NEW A, NEW m1, NEW t1, NEW B, NEW m2, NEW t2, NEW answered,
         TracedTwice(g, A, m1, t1, B, m2, t2, answered),
         NothingFolds(g, A), NothingFolds(g, B),
         NEW lo, OpensUp(g, A, lo), NEW ro, OpensUp(g, B, ro),
         NEW same, SaysEqual(g, A, B, lo, ro, same)
  PROVE  \A n \in A : Settled(same, m1, t1, B, m2, t2, n)
<1> DEFINE Ok(e) == Settled(same, m1, t1, B, m2, t2, e)
           Shown(n) == \A e \in A : Occurs(e, lo[n]) => Ok(e)
           Bad == {n \in A : ~Ok(n) \/ ~Shown(n)}
<1>1. Traced(g, A, m1, t1)
  BY DEF TracedTwice
<1>2. ASSUME Bad # {} PROVE FALSE
  <2>1. PICK n \in Bad : Seq2Set([x \in A |-> g[x].kids][n]) \cap Bad = {}
    BY <1>1, <1>2 DEF Traced, Grounded
  <2>2. n \in A /\ (~Ok(n) \/ ~Shown(n))
    OBVIOUS
  <2>3. Seq2Set(g[n].kids) \cap Bad = {}
    BY <2>1, <2>2
  <2>4. /\ g[n].kids \in Seq(A) /\ Len(g[n].kids) \in Nat
        /\ \A i \in 1..Len(g[n].kids) : g[n].kids[i] \in A
    BY <1>1, <2>2, TracedObject
  <2>5. g[n].type \in MergedTypes => g[n].kids # << >>
    <3> DEFINE ids == MemoIds(m1, g[n].kids)
    <3>1. SourceOK(g[n], ids) /\ Len(ids) = Len(g[n].kids)
      BY <1>1, <2>2, TracedObject
    <3>2. g[n].type \in MergedTypes => Len(ids) # 0
      <4> HIDE DEF ids
      <4>1. QED
        BY <3>1, EmptySeq DEF SourceOK
    <3>3. QED
      BY <3>1, <3>2, EmptySeq
  <2>6. \A k \in Seq2Set(g[n].kids) : k \in A /\ Ok(k) /\ Shown(k)
    <3>1. Seq2Set(g[n].kids) \subseteq A
      BY <2>4 DEF Seq2Set
    <3>2. QED
      BY <2>3, <3>1
  <2> HIDE DEF Ok
  <2>7. Shown(n)
    <3> SUFFICES ASSUME NEW e \in A, Occurs(e, lo[n]) PROVE Ok(e)
      OBVIOUS
    <3>1. PICK k \in Seq2Set(g[n].kids) : e = k \/ Occurs(e, lo[k])
      <4> HIDE DEF Bad, Shown
      <4>1. QED
        BY <2>2, <2>4, <2>5, OpenedEntries
    <3>2. QED
      BY <2>6, <3>1
  <2>8. ASSUME NEW b \in B, same[<<n, b>>] PROVE Agreed(m1, t1, m2, t2, n, b)
    <3>1. Matches(g, same, n, b, lo[n], ro[b])
      <4> DEFINE p == <<n, b>>
      <4>1. p \in A \X B /\ p[1] = n /\ p[2] = b
        BY <2>2
      <4> HIDE DEF p, Bad, Shown
      <4>2. same[p] = Matches(g, same, p[1], p[2], lo[p[1]], ro[p[2]])
        BY <4>1 DEF SaysEqual
      <4>3. QED
        BY <2>8, <4>1, <4>2 DEF p
    <3>2. \A e \in A : Occurs(e, lo[n]) => Settled(same, m1, t1, B, m2, t2, e)
      BY <2>7 DEF Ok
    <3> HIDE DEF Bad, Shown
    <3>3. QED
      BY <2>2, <3>1, <3>2, PairAgrees
  <2>9. Ok(n)
    BY <2>8 DEF Ok, Settled
  <2>10. QED
    BY <2>2, <2>7, <2>9
<1>3. QED
  BY <1>2

-----------------------------------------------------------------------------
(* The documents of contracts that the laws call equal.                    *)

\* res is the document of the contract r: its objects have the ids m, these the
\* payloads t, and X of them are left when the table is pruned.
RecordOf(res, g, r, answered, m, t, X) ==
  /\ r \in Reach(g, r) /\ Traced(g, Reach(g, r), m, t) /\ ContentAddressed(t, answered)
  /\ Pruning(t, m[r], << >>, X)
  /\ res.document = [root |-> m[r], nodes |-> [id \in X |-> t[id]]]

Recorded(res, g, r, answered) ==
  \E m, t, X : RecordOf(res, g, r, answered, m, t, X)

\* The other table holds what is reached from what both have in common.
LEMMA ReachedInCommon ==
  ASSUME NEW t1, NEW t2, NEW r \in Common(t1, t2),
         NEW X, Pruning(t1, r, << >>, X), NEW Y, Pruning(t2, r, << >>, Y)
  PROVE  X \subseteq Common(t1, t2) /\ Y \subseteq X
<1> DEFINE C == Common(t1, t2)
<1>1. Seq2Set(<< >>) = {}
  BY EmptySeq DEF Seq2Set
<1>2. /\ C \subseteq DOMAIN t1 /\ C \subseteq DOMAIN t2
      /\ \A id \in C : t1[id] = t2[id] /\ t1[id].kids \in Seq(C)
  BY CommonFacts
<1> HIDE DEF C
<1>3. r \in C
  BY DEF C
<1>4. RefsClosed(t1, C)
  <2>1. ASSUME NEW id \in C PROVE Seq2Set(t1[id].kids) \subseteq C
    <3>1. t1[id].kids \in Seq(C)
      BY <1>2
    <3>2. QED
      BY <3>1, ElementOfSeq DEF Seq2Set
  <2>2. QED
    BY <2>1 DEF RefsClosed
<1>5. X \subseteq C
  BY <1>1, <1>2, <1>3, <1>4 DEF Pruning
<1>6. r \in X /\ \A id \in X : Seq2Set(t1[id].kids) \subseteq X
  BY <1>1 DEF Pruning
<1>7. RefsClosed(t2, X)
  <2>1. ASSUME NEW id \in X PROVE Seq2Set(t2[id].kids) \subseteq X
    <3>1. t1[id] = t2[id]
      BY <1>2, <1>5
    <3>2. QED
      BY <1>6, <3>1
  <2>2. QED
    BY <2>1 DEF RefsClosed
<1>8. Y \subseteq X
  BY <1>1, <1>2, <1>5, <1>6, <1>7 DEF Pruning
<1>9. QED
  BY <1>5, <1>8 DEF C

LEMMA CommonSwaps ==
  ASSUME NEW t1, NEW t2, NEW r \in Common(t1, t2)
  PROVE  r \in Common(t2, t1)
<1> DEFINE C == Common(t1, t2)
<1>1. /\ C \subseteq DOMAIN t1 /\ C \subseteq DOMAIN t2
      /\ \A id \in C : t1[id] = t2[id] /\ t1[id].kids \in Seq(C)
  BY CommonFacts
<1> HIDE DEF C
<1>2. Shared(t2, t1, C)
  BY <1>1 DEF Shared
<1>3. C \in SUBSET (DOMAIN t2 \cap DOMAIN t1)
  BY <1>1
<1>4. r \in C
  BY DEF C
<1>5. QED
  BY <1>2, <1>3, <1>4 DEF Common

\* What is in common has one document.
LEMMA SameDocument ==
  ASSUME NEW t1, NEW t2, NEW r \in Common(t1, t2),
         NEW X, Pruning(t1, r, << >>, X), NEW Y, Pruning(t2, r, << >>, Y)
  PROVE  [id \in X |-> t1[id]] = [id \in Y |-> t2[id]]
<1>1. X \subseteq Common(t1, t2) /\ Y \subseteq X
  BY ReachedInCommon
<1>2. X \subseteq Y
  <2>1. r \in Common(t2, t1)
    BY CommonSwaps
  <2>2. QED
    BY <2>1, ReachedInCommon
<1>3. X = Y
  BY <1>1, <1>2
<1>4. \A id \in X : t1[id] = t2[id]
  BY <1>1, CommonFacts
<1>5. QED
  BY <1>3, <1>4

\* The objects of a call are opened up.
LEMMA TracedOpens ==
  ASSUME NEW g, NEW R, NEW m, NEW t, Traced(g, R, m, t)
  PROVE  OpensUp(g, R, OpenedUp(g, R))
<1> DEFINE o == OpenedUp(g, R)
<1>1. Grounded([n \in R |-> g[n].kids], R)
  BY DEF Traced
<1>2. Opens(g, R, o)
  BY <1>1, OpenedSolves
<1>3. ASSUME NEW n \in R, g[n].type \in MergedTypes PROVE g[n].kids # << >>
  <2> DEFINE ids == MemoIds(m, g[n].kids)
  <2>1. SourceOK(g[n], ids) /\ Len(ids) = Len(g[n].kids) /\ ids \in Seq(DOMAIN t)
    BY TracedObject
  <2> HIDE DEF ids
  <2>2. Len(ids) # 0
    BY <1>3, <2>1, EmptySeq DEF SourceOK
  <2>3. QED
    BY <2>1, <2>2, EmptySeq
<1> HIDE DEF o
<1>4. OpensUp(g, R, o)
  BY <1>1, <1>2, <1>3, OpenedTyped
<1>5. QED
  BY <1>4 DEF o

LEMMA NothingGrouped ==
  ASSUME NEW g, NEW r, ~GroupsLiterals(g, r)
  PROVE  NothingFolds(g, Reach(g, r))
BY DEF GroupsLiterals, NothingFolds

\* Contracts that the laws call equal have one root, with all it refers to.
LEMMA LawAgrees ==
  ASSUME NEW g, NEW l, NEW r, NEW m1, NEW t1, NEW m2, NEW t2, NEW answered,
         TracedTwice(g, Reach(g, l), m1, t1, Reach(g, r), m2, t2, answered),
         l \in Reach(g, l), r \in Reach(g, r),
         ~GroupsLiterals(g, l), ~GroupsLiterals(g, r), LawEqual(g, l, r)
  PROVE  Agreed(m1, t1, m2, t2, l, r)
<1> DEFINE A == Reach(g, l)
           B == Reach(g, r)
           lo == OpenedUp(g, A)
           ro == OpenedUp(g, B)
           same == EqualPairs(g, A, B)
<1>1. NothingFolds(g, A) /\ NothingFolds(g, B)
  BY NothingGrouped
<1>2. same[<<l, r>>]
  BY DEF LawEqual
<1>3. TracedTwice(g, A, m1, t1, B, m2, t2, answered) /\ l \in A /\ r \in B
  OBVIOUS
<1> HIDE DEF A, B
<1>4. Traced(g, A, m1, t1) /\ Traced(g, B, m2, t2)
  BY <1>3 DEF TracedTwice
<1>5. OpensUp(g, A, lo) /\ OpensUp(g, B, ro)
  BY <1>4, TracedOpens
<1>6. SaysEqual(g, A, B, lo, ro, same)
  <2>1. Listed(OpenedUp(g, A), A) /\ Listed(OpenedUp(g, B), B)
    BY <1>5 DEF OpensUp, Listed
  <2>2. QED
    BY <2>1, PairsChosen
<1> HIDE DEF lo, ro, same
<1>7. \A n \in A : Settled(same, m1, t1, B, m2, t2, n)
  BY <1>1, <1>3, <1>5, <1>6, EqualAgree
<1>8. QED
  BY <1>2, <1>3, <1>7 DEF Settled

\* So they have one identity.
LEMMA LawGivesIdentity ==
  ASSUME NEW g, NEW l, NEW r, NEW answered, NEW named, NEW res1, NEW res2,
         Recorded(res1, g, l, answered), Recorded(res2, g, r, answered),
         Identified(res1, named), Identified(res2, named),
         ~GroupsLiterals(g, l), ~GroupsLiterals(g, r), LawEqual(g, l, r)
  PROVE  res1.identity = res2.identity
<1>1. PICK m1, t1, X : RecordOf(res1, g, l, answered, m1, t1, X)
  BY DEF Recorded
<1>2. PICK m2, t2, Y : RecordOf(res2, g, r, answered, m2, t2, Y)
  BY DEF Recorded
<1>3. TracedTwice(g, Reach(g, l), m1, t1, Reach(g, r), m2, t2, answered)
  BY <1>1, <1>2 DEF RecordOf, TracedTwice
<1>4. l \in Reach(g, l) /\ r \in Reach(g, r)
  BY <1>1, <1>2 DEF RecordOf
<1>5. Agreed(m1, t1, m2, t2, l, r)
  BY <1>3, <1>4, LawAgrees
<1> DEFINE id == m1[l]
<1>6. id = m2[r] /\ id \in Common(t1, t2)
  BY <1>5 DEF Agreed
<1>7. Pruning(t1, id, << >>, X) /\ Pruning(t2, id, << >>, Y)
  BY <1>1, <1>2, <1>6 DEF RecordOf
<1> HIDE DEF id
<1>8. [k \in X |-> t1[k]] = [k \in Y |-> t2[k]]
  BY <1>6, <1>7, SameDocument
<1>9. /\ res1.document = [root |-> id, nodes |-> [k \in X |-> t1[k]]]
      /\ res2.document = [root |-> id, nodes |-> [k \in Y |-> t2[k]]]
  BY <1>1, <1>2, <1>6 DEF RecordOf, id
<1>10. res1.document = res2.document
  BY <1>8, <1>9
<1>11. QED
  BY <1>10 DEF Identified

-----------------------------------------------------------------------------
(* What the two calls leave behind.                                        *)

\* What is known of the documents of the two calls.
RecordsInv ==
  /\ leftResult # NoResult => Recorded(leftResult, graph, left, digests)
  /\ result.kind = "canonical" => Recorded(result, graph, root, digests)
  /\ answer = "different" =>
       /\ leftResult # NoResult /\ result.kind = "canonical"
       /\ leftResult.identity # result.identity

\* A step asks SHA-256 at most one question.
Asking ==
  digests' = digests \/ \E x : \E id \in Answers(digests, x) : digests' = Extended(digests, x, id)

LEMMA StepsAsk ==
  ASSUME [Next]_vars
  PROVE  Asking
<1>1. CASE Build \/ DetectCollision
  BY <1>1 DEF Build, DetectCollision, Register, Asking
<1>2. CASE \/ RejectConfig \/ AcceptConfig \/ FoldEscapes \/ ValidationFails
           \/ ValidationPasses \/ SkipMemoized \/ Enter \/ BeginPrune \/ PruneSeen \/ PruneVisit
           \/ AssembleTooComplex \/ Assemble \/ UNCHANGED vars
  <2>1. digests' = digests
    BY <1>2 DEF RejectConfig, AcceptConfig, FoldEscapes, ValidationFails, ValidationPasses,
                SkipMemoized, Enter, BeginPrune, PruneSeen, PruneVisit, AssembleTooComplex, Assemble,
                vars, oracle
  <2>2. QED
    BY <2>1 DEF Asking
<1>3. QED
  BY <1>1, <1>2 DEF Next

LEMMA StaysRecorded ==
  ASSUME NEW res, NEW g, NEW r, NEW answered, Recorded(res, g, r, answered),
         NEW x, NEW id \in Answers(answered, x)
  PROVE  Recorded(res, g, r, Extended(answered, x, id))
<1>1. PICK m, t, X : RecordOf(res, g, r, answered, m, t, X)
  BY DEF Recorded
<1>2. ContentAddressed(t, Extended(answered, x, id))
  BY <1>1, AskingKeepsTable DEF RecordOf
<1>3. RecordOf(res, g, r, Extended(answered, x, id), m, t, X)
  BY <1>1, <1>2 DEF RecordOf
<1>4. QED
  BY <1>3 DEF Recorded

LEMMA RecordedNext ==
  ASSUME Asking, NEW res, NEW r, Recorded(res, graph, r, digests)
  PROVE  Recorded(res, graph, r, digests')
<1>1. CASE digests' = digests
  BY <1>1
<1>2. CASE digests' # digests
  <2>1. PICK x : \E id \in Answers(digests, x) : digests' = Extended(digests, x, id)
    BY <1>2 DEF Asking
  <2>2. PICK id \in Answers(digests, x) : digests' = Extended(digests, x, id)
    BY <2>1
  <2>3. Recorded(res, graph, r, Extended(digests, x, id))
    BY <2>2, StaysRecorded
  <2>4. QED
    BY <2>2, <2>3
<1>3. QED
  BY <1>1, <1>2

\* What is assembled is the document of the contract.
LEMMA AssembledRecorded ==
  ASSUME CallInv, pc = "prune", pruneStack = << >>,
         NEW res, res.document = Document
  PROVE  Recorded(res, graph, root, digests)
<1>1. Finished
  BY DEF Finished, CallInv
<1>2. /\ graph \in Graphs /\ root \in Reached /\ Reached \subseteq Node
      /\ DOMAIN memo = Reached /\ \A n \in Reached : NodeAccepted(graph, n)
      /\ Grounded(KidsBelow, Reached)
  BY <1>1, FinishedFacts
<1>3. Traced(graph, Reach(graph, root), memo, canonNodes)
  BY <1>2 DEF CallInv, TableInv, Traced, Reached, KidsBelow
<1>4. ContentAddressed(canonNodes, digests) /\ Pruning(canonNodes, memo[root], << >>, reachable)
  BY DEF CallInv, TableInv, PruneInv
<1>5. RecordOf(res, graph, root, digests, memo, canonNodes, reachable)
  BY <1>2, <1>3, <1>4 DEF RecordOf, Reached, Document
<1>6. QED
  BY <1>5 DEF Recorded

LEMMA RecordsWhileCalling ==
  ASSUME CallInv, ResultsInv, RecordsInv, [Next]_vars, UNCHANGED eqVars
  PROVE  RecordsInv'
<1>1. left' = left /\ leftResult' = leftResult /\ answer' = answer
  BY DEF eqVars
<1>2. graph' = graph /\ root' = root /\ (Pausing \/ Working \/ Answering)
  BY StepsOfCall
<1>3. Asking
  BY StepsAsk
<1>4. leftResult # NoResult => Recorded(leftResult, graph, left, digests')
  BY <1>3, RecordedNext DEF RecordsInv
<1>5. result'.kind = "canonical" => Recorded(result', graph, root, digests')
  <2>1. CASE Pausing
    <3>1. result' = result
      BY <2>1 DEF Pausing
    <3>2. result.kind = "canonical" => Recorded(result, graph, root, digests')
      BY <1>3, RecordedNext DEF RecordsInv
    <3>3. QED
      BY <3>1, <3>2
  <2>2. CASE Working
    BY <2>2 DEF Working
  <2>3. CASE Answering
    <3>1. /\ pc = "prune" /\ pruneStack = << >> /\ digests' = digests
          /\ result'.document = Document
      BY <2>3 DEF Answering
    <3>2. Recorded(result', graph, root, digests)
      BY <3>1, AssembledRecorded
    <3>3. QED
      BY <3>1, <3>2
  <2>4. QED
    BY <1>2, <2>1, <2>2, <2>3
<1>6. answer = "different" => result' = result
  <2>1. answer = "different" => pc = "done"
    BY DEF ResultsInv
  <2>2. QED
    BY <1>2, <2>1 DEF Pausing, Working, Answering
<1>7. QED
  BY <1>1, <1>2, <1>4, <1>5, <1>6 DEF RecordsInv

LEMMA RecordsNext ==
  ASSUME CallInv, ResultsInv, RecordsInv, [EqNext]_allVars
  PROVE  RecordsInv'
<1>1. CASE CanonicalizeStep \/ UNCHANGED allVars
  <2>1. [Next]_vars /\ UNCHANGED eqVars
    BY <1>1 DEF CanonicalizeStep, allVars
  <2>2. QED
    BY <2>1, RecordsWhileCalling
<1>2. CASE CanonicalizeRight
  <2>1. /\ answer = "none" /\ result.kind = "canonical" /\ leftResult = NoResult
        /\ leftResult' = result /\ result' = NoResult
        /\ graph' = graph /\ digests' = digests /\ left' = left /\ answer' = answer
    BY <1>2 DEF CanonicalizeRight, Returned, Restart
  <2>2. result'.kind # "canonical"
    BY <2>1 DEF NoResult
  <2>3. root = left
    BY <2>1 DEF ResultsInv
  <2>4. Recorded(leftResult', graph', left', digests')
    BY <2>1, <2>3 DEF RecordsInv
  <2>5. QED
    BY <2>1, <2>2, <2>4 DEF RecordsInv
<1>3. CASE Propagate
  <2>1. answer' # "different"
    BY <1>3 DEF Propagate, Returned, CanonicalizationErrors
  <2>2. UNCHANGED <<graph, root, result, digests, left, leftResult>>
    BY <1>3 DEF Propagate, vars
  <2>3. QED
    BY <2>1, <2>2 DEF RecordsInv
<1>4. CASE Compare
  <2>1. UNCHANGED <<graph, root, result, digests, left, leftResult>>
    BY <1>4 DEF Compare, vars
  <2>2. /\ leftResult # NoResult /\ result.kind = "canonical"
        /\ answer' = "different" => leftResult.identity # result.identity
    BY <1>4 DEF Compare, Returned
  <2>3. QED
    BY <2>1, <2>2 DEF RecordsInv
<1>5. QED
  BY <1>1, <1>2, <1>3, <1>4 DEF EqNext

LEMMA RecordsHold == EqSpec => []RecordsInv
<1>1. EqInit => RecordsInv
  BY DEF EqInit, Init, RecordsInv, NoResult
<1>2. CallInv /\ ResultsInv /\ RecordsInv /\ [EqNext]_allVars => RecordsInv'
  BY RecordsNext
<1>3. QED
  BY <1>1, <1>2, CallsHold, PTL DEF EqSpec

\* structurally_equivalent makes no wrong "different" either, where it answers
\* as the specification says: contracts that are equal up to the order and the
\* grouping of operands are equivalent, for every pair of contracts without a
\* nested collection that may fold, every limit and every digest function.
THEOREM AuthorOrderIsIrrelevant == EqSpec => []SymbolicOrderIrrelevant
<1>1. CallInv /\ ResultsInv /\ RecordsInv => SymbolicOrderIrrelevant
  <2>1. SUFFICES ASSUME ResultsInv, RecordsInv, answer = "different",
                        ~GroupsLiterals(graph, left), ~GroupsLiterals(graph, right),
                        LawEqual(graph, left, right)
                 PROVE  FALSE
    BY DEF SymbolicOrderIrrelevant
  <2>2. /\ leftResult # NoResult /\ result.kind = "canonical"
        /\ leftResult.identity # result.identity
    BY <2>1 DEF RecordsInv
  <2>3. /\ Identified(leftResult, contractDigests) /\ Identified(result, contractDigests)
        /\ root = right
    BY <2>1, <2>2 DEF ResultsInv
  <2>4. Recorded(leftResult, graph, left, digests) /\ Recorded(result, graph, right, digests)
    BY <2>1, <2>2, <2>3 DEF RecordsInv
  <2>5. leftResult.identity = result.identity
    BY <2>1, <2>3, <2>4, LawGivesIdentity
  <2>6. QED
    BY <2>2, <2>5
<1>2. QED
  BY <1>1, CallsHold, RecordsHold, PTL
=============================================================================
